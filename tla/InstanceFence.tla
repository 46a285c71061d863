--------------------------- MODULE InstanceFence ---------------------------
(***************************************************************************)
(* The per-instance fence of instanceaccess/fence.go.                      *)
(*                                                                         *)
(* The service keeps a registry (map) from instance references to fence    *)
(* objects.  A fence object has a gate, a channel of capacity one that is  *)
(* full exactly while somebody owns the fence, and a count of the callers  *)
(* that use it.  The registry entry is created by the first caller and     *)
(* deleted by the last one, so two callers of one reference meet only if   *)
(* neither of them ever keeps an object the registry has forgotten.        *)
(***************************************************************************)
EXTENDS Naturals, FiniteSets

CONSTANTS Callers,  \* goroutines that call lockInstance
          Refs,     \* instance references
          Objects,  \* identities of instanceFence allocations
          None      \* the nil pointer

ASSUME FenceAssumption ==
  /\ IsFiniteSet(Callers)
  /\ None \notin Objects

VARIABLES
  fences,     \* the registry: fences[r] is an object or None
  users,      \* users[o]: the reference count of object o
  gate,       \* gate[o]: TRUE while the token is in the channel
  pc,         \* pc[c]: where caller c is in lockInstance and unlock
  want,       \* want[c]: the reference c asked for
  at,         \* at[c]: the object c holds a pointer to, or None
  cancelled   \* cancelled[c]: c's context is done

vars == <<fences, users, gate, pc, want, at, cancelled>>

Steps == {"idle", "waiting", "held", "undo", "leaving"}

TypeOK ==
  /\ fences \in [Refs -> Objects \cup {None}]
  /\ users \in [Objects -> Nat]
  /\ gate \in [Objects -> BOOLEAN]
  /\ pc \in [Callers -> Steps]
  /\ want \in [Callers -> Refs]
  /\ at \in [Callers -> Objects \cup {None}]
  /\ cancelled \in [Callers -> BOOLEAN]

Init ==
  /\ fences = [r \in Refs |-> None]
  /\ users = [o \in Objects |-> 0]
  /\ gate = [o \in Objects |-> FALSE]
  /\ pc = [c \in Callers |-> "idle"]
  /\ want \in [Callers -> Refs]
  /\ at = [c \in Callers |-> None]
  /\ cancelled = [c \in Callers |-> FALSE]

-----------------------------------------------------------------------------
\* Objects the garbage collector may hand out again: unreachable ones.
Fresh == {o \in Objects : /\ \A r \in Refs : fences[r] # o
                          /\ \A c \in Callers : at[c] # o}

\* Mutant: the caller is not counted.
RegisterUncounted(c, r) ==
  /\ pc[c] = "idle"
  /\ \/ /\ fences[r] # None
        /\ at' = [at EXCEPT ![c] = fences[r]]
        /\ UNCHANGED <<fences, users, gate>>
     \/ /\ fences[r] = None
        /\ \E o \in Fresh :
             /\ at' = [at EXCEPT ![c] = o]
             /\ fences' = [fences EXCEPT ![r] = o]
             /\ users' = [users EXCEPT ![o] = 1]
             /\ gate' = [gate EXCEPT ![o] = FALSE]
  /\ want' = [want EXCEPT ![c] = r]
  /\ pc' = [pc EXCEPT ![c] = "waiting"]
  /\ cancelled' = [cancelled EXCEPT ![c] = FALSE]

\* Mutant: the registry is not consulted, every caller brings its own fence.
RegisterAllocates(c, r) ==
  /\ pc[c] = "idle"
  /\ \E o \in Fresh :
       /\ at' = [at EXCEPT ![c] = o]
       /\ fences' = [fences EXCEPT ![r] = o]
       /\ users' = [users EXCEPT ![o] = 1]
       /\ gate' = [gate EXCEPT ![o] = FALSE]
  /\ want' = [want EXCEPT ![c] = r]
  /\ pc' = [pc EXCEPT ![c] = "waiting"]
  /\ cancelled' = [cancelled EXCEPT ![c] = FALSE]

\* The registry lookup under fencesMu, entered only if the context is alive:
\* reuse the registered object or allocate one, and count the caller.
Register(c, r) ==
  /\ pc[c] = "idle"
  /\ \/ /\ fences[r] # None
        /\ at' = [at EXCEPT ![c] = fences[r]]
        /\ users' = [users EXCEPT ![fences[r]] = @ + 1]
        /\ UNCHANGED <<fences, gate>>
     \/ /\ fences[r] = None
        /\ \E o \in Fresh :
             /\ at' = [at EXCEPT ![c] = o]
             /\ fences' = [fences EXCEPT ![r] = o]
             /\ users' = [users EXCEPT ![o] = 1]
             /\ gate' = [gate EXCEPT ![o] = FALSE]
  /\ want' = [want EXCEPT ![c] = r]
  /\ pc' = [pc EXCEPT ![c] = "waiting"]
  /\ cancelled' = [cancelled EXCEPT ![c] = FALSE]

\* Mutant: the late cancellation check returns without draining the gate.
AcquireKeepsToken(c) ==
  /\ pc[c] = "waiting"
  /\ ~gate[at[c]]
  /\ gate' = [gate EXCEPT ![at[c]] = TRUE]
  /\ pc' = [pc EXCEPT ![c] = IF cancelled[c] THEN "leaving" ELSE "held"]
  /\ UNCHANGED <<fences, users, want, at, cancelled>>

\* The select takes the send: the gate had room.  A context that is done at
\* the same time is noticed afterwards and the token is taken back.
Acquire(c) ==
  /\ pc[c] = "waiting"
  /\ ~gate[at[c]]
  /\ gate' = [gate EXCEPT ![at[c]] = TRUE]
  /\ pc' = [pc EXCEPT ![c] = IF cancelled[c] THEN "undo" ELSE "held"]
  /\ UNCHANGED <<fences, users, want, at, cancelled>>

\* Mutant: a cancelled waiter returns without releasing its reference.
GiveUpLeaks(c) ==
  /\ pc[c] = "waiting"
  /\ cancelled[c]
  /\ at' = [at EXCEPT ![c] = None]
  /\ pc' = [pc EXCEPT ![c] = "idle"]
  /\ UNCHANGED <<fences, users, gate, want, cancelled>>

\* The select takes the done channel.
GiveUp(c) ==
  /\ pc[c] = "waiting"
  /\ cancelled[c]
  /\ pc' = [pc EXCEPT ![c] = "leaving"]
  /\ UNCHANGED <<fences, users, gate, want, at, cancelled>>

\* unlock, first half: <-f.gate.
Unlock(c) ==
  /\ pc[c] \in {"held", "undo"}
  /\ gate' = [gate EXCEPT ![at[c]] = FALSE]
  /\ pc' = [pc EXCEPT ![c] = "leaving"]
  /\ UNCHANGED <<fences, users, want, at, cancelled>>

\* Mutant: the entry is deleted without looking at the count.
ReleaseAlwaysDeletes(c) ==
  /\ pc[c] = "leaving"
  /\ users' = [users EXCEPT ![at[c]] = @ - 1]
  /\ fences' = [fences EXCEPT ![want[c]] = None]
  /\ at' = [at EXCEPT ![c] = None]
  /\ pc' = [pc EXCEPT ![c] = "idle"]
  /\ UNCHANGED <<gate, want, cancelled>>

\* releaseReference under fencesMu: the last user deletes the registry entry.
ReleaseReference(c) ==
  /\ pc[c] = "leaving"
  /\ users' = [users EXCEPT ![at[c]] = @ - 1]
  /\ fences' = IF users[at[c]] = 1
               THEN [fences EXCEPT ![want[c]] = None]
               ELSE fences
  /\ at' = [at EXCEPT ![c] = None]
  /\ pc' = [pc EXCEPT ![c] = "idle"]
  /\ UNCHANGED <<gate, want, cancelled>>

\* The request behind the call is cancelled while the call is in progress.
CancelContext(c) ==
  /\ pc[c] # "idle"
  /\ ~cancelled[c]
  /\ cancelled' = [cancelled EXCEPT ![c] = TRUE]
  /\ UNCHANGED <<fences, users, gate, pc, want, at>>

Next == \E c \in Callers :
          \/ \E r \in Refs : Register(c, r)
          \/ Acquire(c)
          \/ GiveUp(c)
          \/ Unlock(c)
          \/ ReleaseReference(c)
          \/ CancelContext(c)

Spec == Init /\ [][Next]_vars

\* A goroutine inside the fence code is scheduled, an owner's operation ends
\* (runtime calls carry deadlines) and blocked senders of a Go channel are
\* served in arrival order, so a waiter is not passed over forever.
Fairness ==
  \A c \in Callers : /\ SF_vars(Acquire(c))
                     /\ WF_vars(GiveUp(c))
                     /\ WF_vars(Unlock(c))
                     /\ WF_vars(ReleaseReference(c))

FairSpec == Spec /\ Fairness

-----------------------------------------------------------------------------
Holds(c, r) == pc[c] = "held" /\ want[c] = r

\* Two operations on one instance never own its fence at the same time,
\* although they may have obtained their fence objects from different
\* generations of the registry entry (fence.go, lockInstance).
Exclusive == \A r \in Refs : \A c, d \in Callers :
               Holds(c, r) /\ Holds(d, r) => c = d

\* The registry holds an entry exactly for the references some caller holds
\* or waits for: no entry leaks and none is dropped under a waiter (fence.go,
\* releaseReference).
RegistryExact == \A r \in Refs :
  fences[r] # None <=> \E c \in Callers : pc[c] # "idle" /\ want[c] = r

\* A caller of lockInstance is not left waiting: it gets the fence or, when
\* its context is done, returns without it (fence.go, the select).
WaitersLeave == \A c \in Callers : pc[c] = "waiting" ~> pc[c] # "waiting"

\* The callers that hold a pointer to object o.
UsersOf(o) == {c \in Callers : at[c] = o}

\* A caller inside lockInstance or unlock points to the registered object of
\* its reference, so the registry never forgets an object in use.
PointersRegistered == \A c \in Callers :
  /\ pc[c] = "idle" => at[c] = None
  /\ pc[c] # "idle" => at[c] # None /\ at[c] = fences[want[c]]

\* Two references never share a fence object.
RegistryInjective == \A r, s \in Refs :
  fences[r] # None /\ fences[r] = fences[s] => r = s

\* The count of a registered object is the number of its users, never zero.
CountsExact == \A r \in Refs : fences[r] # None =>
  /\ users[fences[r]] = Cardinality(UsersOf(fences[r]))
  /\ users[fences[r]] > 0

\* The gate of an object is full while a caller owns it, for one caller.
GateOwned == \A c \in Callers : pc[c] \in {"held", "undo"} =>
  /\ gate[at[c]]
  /\ \A d \in Callers : pc[d] \in {"held", "undo"} /\ at[d] = at[c] => d = c

\* The inductive invariant behind Exclusive and RegistryExact: a caller's
\* pointer, the registry entry and the reference count of fence.go agree.
FenceInv ==
  /\ TypeOK
  /\ PointersRegistered
  /\ RegistryInjective
  /\ CountsExact
  /\ GateOwned

\* The fence as its callers see it.
ownersBar == [r \in Refs |-> {c \in Callers : Holds(c, r)}]
Lock == INSTANCE FenceLock WITH owners <- ownersBar

\* The registry of counted fence objects implements one exclusive lock per
\* instance reference (fence.go, lockInstance and its unlock).
ImplementsLock == Lock!FenceSpec
=============================================================================

----------------------------- MODULE FenceLock -----------------------------
(***************************************************************************)
(* What instanceaccess/fence.go promises to its callers: for every         *)
(* instance reference there is one exclusive owner at a time, references   *)
(* do not interfere with each other, and ownership ends only by the        *)
(* owner's own release.                                                    *)
(***************************************************************************)
CONSTANTS Callers,  \* goroutines that call lockInstance
          Refs      \* instance references

VARIABLE owners     \* owners[r]: the callers that own the fence of r

FenceInit == owners = [r \in Refs |-> {}]

\* A caller becomes the owner of a reference nobody owns.
Own(c, r) ==
  /\ owners[r] = {}
  /\ owners' = [owners EXCEPT ![r] = {c}]

\* The owner gives the reference back.
Disown(c, r) ==
  /\ c \in owners[r]
  /\ owners' = [owners EXCEPT ![r] = {}]

FenceNext == \E c \in Callers, r \in Refs : Own(c, r) \/ Disown(c, r)

FenceSpec == FenceInit /\ [][FenceNext]_owners
=============================================================================

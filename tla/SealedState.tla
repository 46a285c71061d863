---------------------------- MODULE SealedState ----------------------------
(***************************************************************************)
(* What publication of one cached state promises: a builder seals the      *)
(* state before it publishes it, only the builder that sealed it publishes *)
(* it, and neither the seal nor the row of a published state changes until *)
(* the state is withdrawn (evicted or deleted), which takes both away.     *)
(***************************************************************************)
CONSTANTS Builders, None

VARIABLES seal,  \* the builder whose capture certificate is recorded
          row    \* the builder whose metadata row is published

SealedVars == <<seal, row>>

SealedInit == seal = None /\ row = None

\* A capture certificate is recorded, possibly in place of an abandoned one.
Seal(b) == row = None /\ seal' = b /\ UNCHANGED row

\* The sealed state becomes visible.
Publish(b) == row = None /\ seal = b /\ row' = b /\ UNCHANGED seal

\* Eviction or deletion.
Withdraw == row # None /\ seal' = None /\ row' = None

SealedNext == Withdraw \/ \E b \in Builders : Seal(b) \/ Publish(b)

SealedSpec == SealedInit /\ [][SealedNext]_SealedVars
=============================================================================

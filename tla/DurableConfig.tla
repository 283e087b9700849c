---------------------------- MODULE DurableConfig ---------------------------
(***************************************************************************)
(* What the configuration file promises to the operator, without process,  *)
(* memory, encryption or file format: one map from keys to values that     *)
(* changes by whole PATCHes, of which every acceptable key is set and no   *)
(* other key moves (models.py:250-253).  The one thing the code does not    *)
(* promise is to survive a crash in the middle of a PATCH: the map is then *)
(* lost as a whole and reads as the defaults, it is never a mixture.        *)
(***************************************************************************)
CONSTANTS
    Patches,          \* PATCH bodies
    Patched(_, _),    \* the map that a PATCH makes of a map
    Defaults,         \* the map of a new installation
    InitialContents   \* the maps an installation may start with

VARIABLE stored

Init == stored \in InitialContents

Update(patch) == stored' = Patched(stored, patch)

Lose == stored' = Defaults

Next == Lose \/ \E patch \in Patches : Update(patch)

Spec == Init /\ [][Next]_stored
=============================================================================

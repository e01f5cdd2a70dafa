------------------------------- MODULE MCVDisk -------------------------------
(***************************************************************************)
(* Instances of VDisk for TLC: a store and a blob volume.                  *)
(***************************************************************************)
EXTENDS VDisk, TLC

CONSTANTS store, blob

Symmetry == Permutations(Handles)

SmallBlob == (store :> 2) @@ (blob :> 1)
FilledDisk == (store :> [off |-> 1, cap |-> 2, len |-> 1])
              @@ (blob :> [off |-> 3, cap |-> 2, len |-> 1])
=============================================================================

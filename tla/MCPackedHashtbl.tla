--------------------------- MODULE MCPackedHashtbl ---------------------------
(***************************************************************************)
(* An instance of PackedHashtbl for TLC: four keys, two of which share a   *)
(* bucket with a third, compete for three slots.                           *)
(***************************************************************************)
EXTENDS PackedHashtbl, TLC

CONSTANTS k1, k2, k3, k4

MCKey == {k1, k2, k3, k4}
MCHash == k1 :> 0 @@ k2 :> 0 @@ k3 :> 2 @@ k4 :> 0
=============================================================================

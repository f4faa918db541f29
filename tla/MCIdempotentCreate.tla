------------------------- MODULE MCIdempotentCreate -------------------------
(* An instance of IdempotentCreate for TLC. *)
EXTENDS IdempotentCreate, TLC

CONSTANTS k1, k2, k3

\* Two keys that share a lock, and one whose hash has no absolute value.
MCKeys == {k1, k2, k3}
MCHash == (k1 :> 7) @@ (k2 :> -7) @@ (k3 :> MinInt)
=============================================================================

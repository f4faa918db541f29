---------------------------- MODULE MCOrderStream ----------------------------
(* Instances of OrderStream for TLC. *)
EXTENDS OrderStream, TLC

\* Streams are interchangeable.
Symmetry == Permutations(Streams)
=============================================================================

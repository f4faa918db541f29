---------------------------- MODULE MCOrderService ----------------------------
(* Instances of OrderService for TLC. *)
EXTENDS OrderService

\* Amounts at both sides of the ceiling, and one that is refused.
MCAmounts == {0, 100000, 100001}
\* The ceiling itself.
MCAuthorized == {100000}
=============================================================================

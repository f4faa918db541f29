---------------------------- MODULE MCPaymentService ----------------------------
(* Instances of PaymentService for TLC. *)
EXTENDS PaymentService, TLC

\* Amounts at both sides of the ceiling, and one that is refused.
MCAmounts == {0, 100000, 100001}
\* The ceiling itself, for runs about the publisher.
MCAuthorized == {100000}
=============================================================================

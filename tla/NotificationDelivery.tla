------------------------ MODULE NotificationDelivery ------------------------
(***************************************************************************)
(* What notification-service promises about the events in its queue,       *)
(* whatever fails and however often it is restarted: an event is settled   *)
(* once, an event that can be announced is settled by an acknowledgement,  *)
(* and only after its email has gone out, and only an event that can never *)
(* be announced is dead-lettered.  Every event is settled in the end.      *)
(***************************************************************************)
CONSTANTS Events,      \* the events that payment-service publishes
          Receipts     \* those of them that can be announced by email

VARIABLE fate          \* event -> how far its delivery is

DeliveryInit == fate = [e \in Events |-> "unpublished"]

Move(e, from, to) == fate[e] = from /\ fate' = [fate EXCEPT ![e] = to]

Accept(e) == Move(e, "unpublished", "queued")
Email(e) == e \in Receipts /\ Move(e, "queued", "emailed")
Settle(e) == Move(e, "emailed", "acknowledged")
DeadLetter(e) == e \notin Receipts /\ Move(e, "queued", "deadlettered")

DeliveryNext ==
  \E e \in Events : Accept(e) \/ Email(e) \/ Settle(e) \/ DeadLetter(e)

Settled == {"acknowledged", "deadlettered"}

\* What may happen, and what must.
DeliverySafety == DeliveryInit /\ [][DeliveryNext]_fate

DeliverySpec ==
  /\ DeliverySafety
  /\ \A e \in Events : fate[e] = "queued" ~> fate[e] \in Settled
=============================================================================

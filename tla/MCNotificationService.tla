----------------------- MODULE MCNotificationService -----------------------
(* An instance of NotificationService for TLC. *)
EXTENDS NotificationService, TLC

CONSTANTS e1, e2, e3, e4

\* Two events to announce, one for a demonstration of dead-lettering, and one
\* that is not an event.
MCEvents == {e1, e2, e3, e4}
MCKind == (e1 :> "receipt") @@ (e2 :> "receipt") @@ (e3 :> "demo")
          @@ (e4 :> "invalid")
=============================================================================

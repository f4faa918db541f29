---------------------------- MODULE PaymentService ----------------------------
(***************************************************************************)
(* payment-service: AuthorizePayment and GetPaymentByOrder behind their    *)
(* gRPC and HTTP handlers, the payments table, and the RabbitMQ publisher. *)
(* Every call runs in a goroutine of its own; all of them share one AMQP   *)
(* channel and one Go channel of publisher confirms.                       *)
(*                                                                         *)
(* A payment id is minted by the call that saves it, so the call stands    *)
(* for the id, and for the event that carries it.                          *)
(***************************************************************************)
EXTENDS Integers, Sequences, FiniteSets

CONSTANTS Calls,         \* the calls, each handled by one goroutine
          Orders,        \* the order ids
          Blank,         \* the empty order id
          Amounts,       \* the amounts, in cents, that calls carry
          NoArg,         \* the argument of a call not yet made
          HasPublisher,  \* PAYMENT_RABBITMQ_URL is set
          ConfirmCap,    \* capacity of the confirms channel (8 in the code)
          MaxFaults      \* bound on lost connections and crashes

ASSUME PaymentAssumption ==
  /\ IsFiniteSet(Calls)
  /\ Blank \notin Orders
  /\ Amounts \subseteq Int
  /\ HasPublisher \in BOOLEAN
  /\ ConfirmCap \in Nat \ {0}
  /\ MaxFaults \in Nat

VARIABLES
  pc,        \* call -> the statement its handler is at
  arg,       \* call -> its argument
  outcome,   \* call -> what the use case returned
  payments,  \* the rows of table payments
  up,        \* the process is running
  open,      \* its AMQP connection is open
  wire,      \* events published and not yet confirmed, in delivery-tag order
  confirms,  \* the Go channel p.confirms
  acked,     \* history: events the broker confirmed positively
  bound,     \* notification-service has declared and bound its queue
  queue,     \* the durable queue payment.completed, in arrival order
  faults     \* lost connections and crashes so far

handlerVars == <<pc, arg, outcome>>
processVars == <<up, open, faults>>
brokerVars == <<acked, bound, queue>>
vars == <<pc, arg, outcome, payments, up, open, wire, confirms, acked, bound,
          queue, faults>>

-----------------------------------------------------------------------------
MaxAuthorizedAmountCents == 100000

\* Off by one at the ceiling.
DecideExclusive(amount) ==
  IF amount >= MaxAuthorizedAmountCents THEN "Declined" ELSE "Authorized"

Decide(amount) ==
  IF amount > MaxAuthorizedAmountCents THEN "Declined" ELSE "Authorized"

AuthorizeArg == [kind: {"authorize"}, order: Orders \cup {Blank},
                 amount: Amounts, email: BOOLEAN]
GetArg == [kind: {"get"}, order: Orders \cup {Blank}, amount: {0},
           email: {FALSE}]

\* A row: the table itself insists on a positive amount and a known status, but
\* not on an order id that is not empty.
Payment == [id: Calls, order: Orders, amount: {n \in Amounts : n > 0},
            status: {"Authorized", "Declined"}]
Confirmation == [id: Calls, ack: BOOLEAN]

\* "repo": the repository failed; "publish": the broker did; "email": no
\* customer_email for an authorized payment; "exists": a payment was found.
Outcomes == {"none", "ok", "invalid", "exists", "repo", "email", "publish",
             "found", "notfound"}

Running == {"lookup", "save", "publish", "confirm"}

HasPayment(o) == \E p \in payments : p.order = o

-----------------------------------------------------------------------------
Goto(c, l) == pc' = [pc EXCEPT ![c] = l] /\ UNCHANGED outcome

Return(c, out) ==
  /\ pc' = [pc EXCEPT ![c] = "done"]
  /\ outcome' = [outcome EXCEPT ![c] = out]

Rejected(a) == a.order = Blank \/ a.amount <= 0

\* The handlers' checks, then the same checks in the use case.  The binding of
\* the HTTP handler, and nothing else here, insists on an address.
AuthorizePayment(c, a) ==
  /\ up
  /\ pc[c] = "idle"
  /\ arg' = [arg EXCEPT ![c] = a]
  /\ \/ (Rejected(a) \/ ~a.email) /\ Return(c, "invalid")
     \/ ~Rejected(a) /\ Goto(c, "lookup")
  /\ UNCHANGED <<payments, processVars, wire, confirms, brokerVars>>

\* repo.GetByOrderID, which may fail.
GetByOrderID(c) ==
  /\ pc[c] = "lookup"
  /\ \/ HasPayment(arg[c].order) /\ Return(c, "exists")
     \/ ~HasPayment(arg[c].order) /\ Goto(c, "save")
     \/ Return(c, "repo")
  /\ UNCHANGED <<arg, payments, processVars, wire, confirms, brokerVars>>

\* The field OrderID of the record is left unset.
RowNoOrderID(c) == [id |-> c, order |-> Blank, amount |-> arg[c].amount,
                    status |-> Decide(arg[c].amount)]

Row(c) == [id |-> c, order |-> arg[c].order, amount |-> arg[c].amount,
           status |-> Decide(arg[c].amount)]

\* A declined payment is announced as well.
AfterSaveAnyStatus(c) ==
  IF HasPublisher
  THEN IF arg[c].email THEN Goto(c, "publish") ELSE Return(c, "email")
  ELSE Return(c, "ok")

\* After a committed row: an authorized payment is announced, if there is a
\* publisher, and only now is the address looked at.
AfterSave(c) ==
  IF Row(c).status = "Authorized" /\ HasPublisher
  THEN IF arg[c].email THEN Goto(c, "publish") ELSE Return(c, "email")
  ELSE Return(c, "ok")

\* Without uq_payments_order_id the check in GetByOrderID is all there is.
SaveNoUniqueIndex(c) ==
  /\ pc[c] = "save"
  /\ payments' = payments \cup {Row(c)}
  /\ AfterSave(c)
  /\ UNCHANGED <<arg, processVars, wire, confirms, brokerVars>>

Save(c) ==
  /\ pc[c] = "save"
  /\ ~HasPayment(arg[c].order)
  /\ payments' = payments \cup {Row(c)}
  /\ AfterSave(c)
  /\ UNCHANGED <<arg, processVars, wire, confirms, brokerVars>>

\* The error of the INSERT is ignored.
SaveConflictIgnored(c) ==
  /\ pc[c] = "save"
  /\ HasPayment(arg[c].order)
  /\ AfterSave(c)
  /\ UNCHANGED <<arg, payments, processVars, wire, confirms, brokerVars>>

\* Another call saved first: uq_payments_order_id rejects the row.
SaveConflict(c) ==
  /\ pc[c] = "save"
  /\ HasPayment(arg[c].order)
  /\ Return(c, "repo")
  /\ UNCHANGED <<arg, payments, processVars, wire, confirms, brokerVars>>

\* The statement fails, or is cancelled with its row committed.
SaveFails(c) ==
  /\ pc[c] = "save"
  /\ \/ UNCHANGED payments
     \/ ~HasPayment(arg[c].order) /\ payments' = payments \cup {Row(c)}
  /\ Return(c, "repo")
  /\ UNCHANGED <<arg, processVars, wire, confirms, brokerVars>>

-----------------------------------------------------------------------------
\* PublishWithContext: the library serialises publishings on the channel;
\* on a closed one it fails.
PublishPaymentCompleted(c) ==
  /\ pc[c] = "publish"
  /\ IF open
     THEN wire' = Append(wire, c) /\ Goto(c, "confirm")
     ELSE Return(c, "publish") /\ UNCHANGED wire
  /\ UNCHANGED <<arg, payments, processVars, confirms, brokerVars>>

\* A handler that throws away the confirmations of others while it looks for
\* its own.
AwaitOwnConfirm(c) ==
  /\ pc[c] = "confirm"
  /\ confirms # <<>>
  /\ confirms' = Tail(confirms)
  /\ IF Head(confirms).id = c
     THEN Return(c, IF Head(confirms).ack THEN "ok" ELSE "publish")
     ELSE Goto(c, "confirm")
  /\ UNCHANGED <<arg, payments, processVars, wire, brokerVars>>

\* A handler takes the next confirmation of the shared channel, whoever's
\* publishing it confirms.
AwaitConfirm(c) ==
  /\ pc[c] = "confirm"
  /\ confirms # <<>>
  /\ confirms' = Tail(confirms)
  /\ Return(c, IF Head(confirms).ack THEN "ok" ELSE "publish")
  /\ UNCHANGED <<arg, payments, processVars, wire, brokerVars>>

\* The closed channel is never drained to its end.
ConfirmsNeverClosed(c) == pc[c] = "confirm" /\ ~open /\ FALSE /\ UNCHANGED vars

\* The library closed the channel and it is drained.
ConfirmsClosed(c) ==
  /\ pc[c] = "confirm"
  /\ ~open
  /\ confirms = <<>>
  /\ Return(c, "publish")
  /\ UNCHANGED <<arg, payments, processVars, wire, confirms, brokerVars>>

\* The call's context ends while it waits: its confirmation stays behind.
CtxDone(c) ==
  /\ pc[c] = "confirm"
  /\ Return(c, "publish")
  /\ UNCHANGED <<arg, payments, processVars, wire, confirms, brokerVars>>

\* The row is read.  A failed read is NotFound over gRPC and an internal error
\* over HTTP; a missing row is NotFound over HTTP.
GetPaymentStatus(c, a) ==
  /\ up
  /\ pc[c] = "idle"
  /\ arg' = [arg EXCEPT ![c] = a]
  /\ \/ a.order = Blank /\ Return(c, "invalid")
     \/ HasPayment(a.order) /\ Return(c, "found")
     \/ a.order # Blank /\ Return(c, "repo")
     \/ a.order # Blank /\ Return(c, "notfound")
  /\ UNCHANGED <<payments, processVars, wire, confirms, brokerVars>>

\* What is left of the process's handlers, and of what it had published, when
\* it ends: the broker has received some of the events that were on the wire.
Killed(d) == IF pc[d] \in Running THEN "dead" ELSE pc[d]

Disconnect ==
  /\ \E n \in 0..Len(wire) :
       queue' = IF bound THEN queue \o SubSeq(wire, 1, n) ELSE queue
  /\ wire' = <<>>
  /\ open' = FALSE

\* Over gRPC a missing row is a nil payment that the handler dereferences:
\* grpc-go does not recover the panic and the process ends.
GetPaymentStatusPanics(c, a) ==
  /\ up
  /\ faults < MaxFaults
  /\ pc[c] = "idle"
  /\ a.order # Blank /\ ~HasPayment(a.order)
  /\ arg' = [arg EXCEPT ![c] = a]
  /\ pc' = [d \in Calls |-> IF d = c THEN "panic" ELSE Killed(d)]
  /\ up' = FALSE
  /\ faults' = faults + 1
  /\ confirms' = <<>>
  /\ Disconnect
  /\ UNCHANGED <<outcome, payments, acked, bound>>

-----------------------------------------------------------------------------
\* RabbitMQ confirms publishings; amqp091 hands the confirmations over in
\* delivery-tag order and blocks while the Go channel is full.  An event that
\* no queue is bound for is confirmed and dropped (mandatory is false).
BrokerAck ==
  /\ open
  /\ wire # <<>>
  /\ Len(confirms) < ConfirmCap
  /\ wire' = Tail(wire)
  /\ confirms' = Append(confirms, [id |-> Head(wire), ack |-> TRUE])
  /\ acked' = acked \cup {Head(wire)}
  /\ queue' = IF bound THEN Append(queue, Head(wire)) ELSE queue
  /\ UNCHANGED <<handlerVars, payments, processVars, bound>>

BrokerNack ==
  /\ open
  /\ wire # <<>>
  /\ Len(confirms) < ConfirmCap
  /\ wire' = Tail(wire)
  /\ confirms' = Append(confirms, [id |-> Head(wire), ack |-> FALSE])
  /\ UNCHANGED <<handlerVars, payments, processVars, brokerVars>>

\* notification-service starts for the first time.
DeclareQueue ==
  /\ ~bound
  /\ bound' = TRUE
  /\ UNCHANGED <<handlerVars, payments, processVars, wire, confirms, acked, queue>>

\* The connection breaks.  Nothing in the service dials again.
ConnectionLost ==
  /\ up
  /\ open
  /\ faults < MaxFaults
  /\ faults' = faults + 1
  /\ Disconnect
  /\ UNCHANGED <<handlerVars, payments, up, confirms, acked, bound>>

Crash ==
  /\ up
  /\ faults < MaxFaults
  /\ faults' = faults + 1
  /\ up' = FALSE
  /\ pc' = [c \in Calls |-> Killed(c)]
  /\ confirms' = <<>>
  /\ Disconnect
  /\ UNCHANGED <<arg, outcome, payments, acked, bound>>

\* main: a new process dials a new connection.
Restart ==
  /\ ~up
  /\ up' = TRUE
  /\ open' = HasPublisher
  /\ UNCHANGED <<handlerVars, payments, wire, confirms, brokerVars, faults>>

-----------------------------------------------------------------------------
Init ==
  /\ pc = [c \in Calls |-> "idle"]
  /\ arg = [c \in Calls |-> NoArg]
  /\ outcome = [c \in Calls |-> "none"]
  /\ payments = {}
  /\ up = TRUE
  /\ open = HasPublisher
  /\ wire = <<>>
  /\ confirms = <<>>
  /\ acked = {}
  /\ bound = FALSE
  /\ queue = <<>>
  /\ faults = 0

\* The steps of a handler once its call has arrived.
Handler(c) ==
  \/ GetByOrderID(c)
  \/ Save(c) \/ SaveConflict(c) \/ SaveFails(c)
  \/ PublishPaymentCompleted(c)
  \/ AwaitConfirm(c) \/ ConfirmsClosed(c) \/ CtxDone(c)

Broker == BrokerAck \/ BrokerNack

Next ==
  \/ \E c \in Calls : \/ \E a \in AuthorizeArg : AuthorizePayment(c, a)
                      \/ \E a \in GetArg : \/ GetPaymentStatus(c, a)
                                           \/ GetPaymentStatusPanics(c, a)
                      \/ Handler(c)
  \/ Broker
  \/ DeclareQueue
  \/ ConnectionLost \/ Crash \/ Restart

Spec == Init /\ [][Next]_vars

\* Goroutines are scheduled, the broker confirms what it receives, and
\* nobody promises that a context ever ends: no fairness on CtxDone.
Fairness ==
  /\ \A c \in Calls : /\ WF_vars(GetByOrderID(c))
                      /\ WF_vars(Save(c) \/ SaveConflict(c) \/ SaveFails(c))
                      /\ WF_vars(PublishPaymentCompleted(c))
                      /\ WF_vars(AwaitConfirm(c) \/ ConfirmsClosed(c))
  /\ WF_vars(Broker)

FairSpec == Spec /\ Fairness

-----------------------------------------------------------------------------
TypeOK ==
  /\ pc \in [Calls -> {"idle", "done", "dead", "panic"} \cup Running]
  /\ arg \in [Calls -> AuthorizeArg \cup GetArg \cup {NoArg}]
  /\ outcome \in [Calls -> Outcomes]
  /\ payments \subseteq Payment
  /\ up \in BOOLEAN /\ open \in BOOLEAN /\ bound \in BOOLEAN
  /\ wire \in Seq(Calls)
  /\ confirms \in Seq(Confirmation)
  /\ acked \subseteq Calls
  /\ queue \in Seq(Calls)
  /\ faults \in 0..MaxFaults

(***************************************************************************)
(* An order is paid for at most once, even when several calls pass the     *)
(* check in GetByOrderID (authorize_payment.go:48) before any of them      *)
(* saves, and when a save is cancelled after its row was committed.        *)
(***************************************************************************)
OnePaymentPerOrder ==
  \A p, q \in payments : p.order = q.order => p = q

\* The events on their way to the broker and those in its queue.
Events == queue \o wire

(***************************************************************************)
(* An event announces a committed, authorized payment, and no order is     *)
(* announced twice: neither a lost confirmation, nor a lost connection,    *)
(* nor a repeated call publishes a second event (authorize_payment.go:74). *)
(***************************************************************************)
EventsBacked ==
  /\ \A i \in 1..Len(Events) :
       \E p \in payments : p.id = Events[i] /\ p.status = "Authorized"
  /\ \A i, j \in 1..Len(Events) :
       arg[Events[i]].order = arg[Events[j]].order => i = j

(***************************************************************************)
(* What a caller is told is what the table holds: after a success there is *)
(* a row of this very call with the status the ceiling gives its amount,   *)
(* after "payment already exists" there is a row of another call and none  *)
(* of this one (authorize_payment.go:52 and :96).                          *)
(***************************************************************************)
ReplyTruthful ==
  \A c \in Calls :
    /\ outcome[c] = "ok" =>
         \E p \in payments : /\ p.id = c
                             /\ p.order = arg[c].order
                             /\ p.amount = arg[c].amount
                             /\ p.status = "Declined" <=>
                                  arg[c].amount > MaxAuthorizedAmountCents
    /\ outcome[c] = "exists" =>
         /\ HasPayment(arg[c].order)
         /\ \A p \in payments : p.id # c

Waiting == {c \in Calls : pc[c] = "confirm"}

(***************************************************************************)
(* Handlers take each other's confirmations from the shared channel        *)
(* (publisher.go:104), yet on an open connection no handler can be left    *)
(* waiting for a confirmation that will not come: as many are on their way *)
(* as there are handlers waiting, also after some gave up.                 *)
(***************************************************************************)
WaitersCovered ==
  open => Cardinality(Waiting) <= Len(wire) + Len(confirms)

(***************************************************************************)
(* Every call that reached a handler is answered or dies with the process, *)
(* without the help of a deadline: the wait for a confirmation             *)
(* (publisher.go:101) always ends, on a closed connection too.             *)
(***************************************************************************)
CallsReturn ==
  \A c \in Calls : pc[c] \in Running ~> pc[c] \in {"done", "dead"}

(***************************************************************************)
(* ARCHITECTURE.md:85: "Publisher confirms ensure the broker accepted the  *)
(* message before the gRPC call succeeds."                                 *)
(***************************************************************************)
ConfirmedBeforeSuccess ==
  \A c \in Calls :
    outcome[c] = "ok" /\ HasPublisher /\ Decide(arg[c].amount) = "Authorized"
      => c \in acked

-----------------------------------------------------------------------------
\* How callers see the state: PaymentLedger's variables.
LedgerOf(o) ==
  IF HasPayment(o) THEN (CHOOSE p \in payments : p.order = o).status ELSE "None"

AnswerOf(c) ==
  CASE pc[c] = "idle" -> "idle"
    [] pc[c] \in {"lookup", "save"} -> "sent"
    [] pc[c] \in {"publish", "confirm"} -> "recorded"
    [] pc[c] \in {"dead", "panic"} -> "lost"
    [] OTHER -> CASE outcome[c] \in {"repo", "publish"} -> "failed"
                  [] outcome[c] = "email" -> "invalid"
                  [] outcome[c] = "ok" -> Decide(arg[c].amount)
                  [] outcome[c] = "found" -> LedgerOf(arg[c].order)
                  [] OTHER -> outcome[c]

Ledger == INSTANCE PaymentLedger WITH
            ledger <- [o \in Orders |-> LedgerOf(o)],
            st <- [c \in Calls |-> AnswerOf(c)]

(***************************************************************************)
(* payment-service keeps the promises of PaymentLedger: whatever handlers, *)
(* broker and crashes do, callers see one unchanging payment per order and *)
(* answers that agree with it.                                             *)
(***************************************************************************)
ImplementsLedger == Ledger!LedgerSpec
=============================================================================

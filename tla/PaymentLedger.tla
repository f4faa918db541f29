---------------------------- MODULE PaymentLedger ----------------------------
(***************************************************************************)
(* What payment-service promises the programs that call it, whatever       *)
(* happens inside: an order has at most one payment, the payment's status  *)
(* follows from the amount of the call that created it and never changes,  *)
(* and a call is answered at most once, truthfully or with a failure.      *)
(* PaymentService implements this specification; OrderService is checked   *)
(* against it.                                                             *)
(***************************************************************************)
EXTENDS Integers

CONSTANTS Calls,      \* the calls the service can receive
          Orders,     \* the order ids
          Blank,      \* the empty order id
          Amounts,    \* the amounts, in cents, that calls carry
          NoArg       \* the argument of a call not yet made

VARIABLES ledger,     \* order -> status of its payment, or "None"
          arg,        \* call -> its argument
          st          \* call -> how far it is, or how it was answered

ledgerVars == <<ledger, arg, st>>

\* Domain constant and decision (payment.go:23, authorize_payment.go:60).
MaxAuthorizedAmountCents == 100000

PaymentStatus == {"Authorized", "Declined"}

Decide(amount) ==
  IF amount > MaxAuthorizedAmountCents THEN "Declined" ELSE "Authorized"

\* A call that both the transport and the use case accept.
Valid(a) == a.order # Blank /\ a.amount > 0

AuthorizeArg == [kind: {"authorize"}, order: Orders \cup {Blank},
                 amount: Amounts, email: BOOLEAN]
GetArg == [kind: {"get"}, order: Orders \cup {Blank}, amount: {0},
           email: {FALSE}]

\* A successful answer is the status of the payment.
Answers == PaymentStatus \cup {"exists", "invalid", "failed", "notfound", "lost"}

-----------------------------------------------------------------------------
Answer(c, a) == st' = [st EXCEPT ![c] = a]

\* A caller asks for an authorization.
Send(c, a) ==
  /\ st[c] = "idle"
  /\ arg' = [arg EXCEPT ![c] = a]
  /\ \/ Valid(a) /\ Answer(c, "sent")
     \/ ~(Valid(a) /\ a.email) /\ Answer(c, "invalid")
  /\ UNCHANGED ledger

\* The payment is recorded.  The call may be answered in the same step: a
\* failure after the record is one a caller cannot tell from one before it.
Record(c) ==
  /\ st[c] = "sent"
  /\ ledger[arg[c].order] = "None"
  /\ ledger' = [ledger EXCEPT ![arg[c].order] = Decide(arg[c].amount)]
  /\ \E a \in {"recorded", Decide(arg[c].amount), "failed"} \cup
              (IF arg[c].email THEN {} ELSE {"invalid"}) : Answer(c, a)
  /\ UNCHANGED arg

\* A call that recorded a payment is answered.
Finish(c) ==
  /\ st[c] = "recorded"
  /\ \E a \in {ledger[arg[c].order], "failed"} : Answer(c, a)
  /\ UNCHANGED <<ledger, arg>>

\* A call that recorded nothing is answered.
Refuse(c) ==
  /\ st[c] = "sent"
  /\ \/ Answer(c, "failed")
     \/ ledger[arg[c].order] # "None" /\ Answer(c, "exists")
  /\ UNCHANGED <<ledger, arg>>

\* A caller asks for the payment of an order.
Query(c, a) ==
  /\ st[c] = "idle"
  /\ arg' = [arg EXCEPT ![c] = a]
  /\ IF a.order = Blank
     THEN Answer(c, "invalid")
     ELSE \/ ledger[a.order] # "None" /\ Answer(c, ledger[a.order])
          \/ Answer(c, "notfound") \/ Answer(c, "failed")
  /\ UNCHANGED ledger

\* The service goes down: the calls in progress are never answered.
Stopped(c) == IF st[c] \in {"sent", "recorded"} THEN "lost" ELSE st[c]

Die ==
  /\ st' = [c \in Calls |-> Stopped(c)]
  /\ UNCHANGED <<ledger, arg>>

\* A query may be what takes it down.
QueryDies(c, a) ==
  /\ st[c] = "idle"
  /\ arg' = [arg EXCEPT ![c] = a]
  /\ st' = [d \in Calls |-> IF d = c THEN "lost" ELSE Stopped(d)]
  /\ UNCHANGED ledger

-----------------------------------------------------------------------------
LedgerInit ==
  /\ ledger = [o \in Orders |-> "None"]
  /\ arg = [c \in Calls |-> NoArg]
  /\ st = [c \in Calls |-> "idle"]

LedgerNext ==
  \/ \E c \in Calls : \/ \E a \in AuthorizeArg : Send(c, a)
                      \/ \E a \in GetArg : Query(c, a) \/ QueryDies(c, a)
                      \/ Record(c) \/ Finish(c) \/ Refuse(c)
  \/ Die

LedgerSpec == LedgerInit /\ [][LedgerNext]_ledgerVars
=============================================================================

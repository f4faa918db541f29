------------------------- MODULE PaymentServiceProofs -------------------------
(***************************************************************************)
(* What PaymentService guarantees for any number of calls, orders, amounts *)
(* and faults, and any capacity of the confirms channel.                   *)
(***************************************************************************)
EXTENDS PaymentService, SequenceTheorems, TLAPS

\* A handler works on a call that passed the checks.
ArgOK == \A c \in Calls : pc[c] \in Running =>
                            /\ arg[c] \in AuthorizeArg
                            /\ arg[c].order \in Orders
                            /\ arg[c].amount > 0

TypeInv == TypeOK /\ ArgOK

\* The record a handler saves is a row of the table.
LEMMA RowType ==
  ASSUME TypeInv, NEW c \in Calls, pc[c] \in Running
  PROVE  Row(c) \in Payment
  BY DEF TypeInv, ArgOK, Row, Payment, AuthorizeArg, Decide

LEMMA InitType == Init => TypeInv
<1> SUFFICES ASSUME Init PROVE TypeInv
  OBVIOUS
<1>1. /\ confirms \in Seq(Confirmation)
      /\ wire \in Seq(Calls) /\ queue \in Seq(Calls)
  BY EmptySeq DEF Init
<1>2. up \in BOOLEAN /\ open \in BOOLEAN /\ bound \in BOOLEAN
  BY PaymentAssumption DEF Init
<1>3. /\ pc \in [Calls -> {"idle", "done", "dead", "panic"} \cup Running]
      /\ arg \in [Calls -> AuthorizeArg \cup GetArg \cup {NoArg}]
      /\ outcome \in [Calls -> Outcomes]
  BY DEF Init, Outcomes
<1>4. payments \subseteq Payment /\ acked \subseteq Calls /\ faults \in 0..MaxFaults
  BY PaymentAssumption DEF Init
<1>5. ArgOK
  BY DEF Init, ArgOK, Running
<1> QED BY <1>1, <1>2, <1>3, <1>4, <1>5 DEF TypeInv, TypeOK

LEMMA HandlerType ==
  ASSUME TypeInv, NEW c \in Calls, Handler(c)
  PROVE  TypeInv'
<1> USE DEF TypeInv, TypeOK, ArgOK, Running, Outcomes, Goto, Return, processVars,
            brokerVars
<1>1. CASE GetByOrderID(c)
  BY <1>1 DEF GetByOrderID
<1>2. CASE Save(c)
  BY <1>2, RowType DEF Save, AfterSave
<1>3. CASE SaveConflict(c)
  BY <1>3 DEF SaveConflict
<1>4. CASE SaveFails(c)
  BY <1>4, RowType DEF SaveFails
<1>5. CASE PublishPaymentCompleted(c)
  <2>1. CASE open
    <3>1. /\ wire' = Append(wire, c)
          /\ Goto(c, "confirm")
          /\ UNCHANGED <<arg, payments, processVars, confirms, brokerVars>>
      BY <1>5, <2>1, Zenon DEF PublishPaymentCompleted
    <3>2. wire' \in Seq(Calls)
      BY <3>1, AppendProperties
    <3> QED BY <1>5, <3>1, <3>2 DEF PublishPaymentCompleted
  <2>2. CASE ~open
    BY <1>5, <2>2 DEF PublishPaymentCompleted
  <2> QED BY <2>1, <2>2
<1>6. CASE AwaitConfirm(c)
  BY <1>6, PaymentAssumption DEF AwaitConfirm
<1>7. CASE ConfirmsClosed(c)
  BY <1>7 DEF ConfirmsClosed
<1>8. CASE CtxDone(c)
  BY <1>8 DEF CtxDone
<1> QED BY <1>1, <1>2, <1>3, <1>4, <1>5, <1>6, <1>7, <1>8 DEF Handler

\* What the end of a connection leaves of the events.
LEMMA DisconnectType ==
  ASSUME TypeInv, Disconnect
  PROVE  wire' \in Seq(Calls) /\ queue' \in Seq(Calls) /\ open' \in BOOLEAN
<1> USE DEF TypeInv, TypeOK
<1>1. PICK n \in 0..Len(wire) :
        queue' = IF bound THEN queue \o SubSeq(wire, 1, n) ELSE queue
  BY DEF Disconnect
<1>2. SubSeq(wire, 1, n) \in Seq(Calls)
  <2>1. \A i \in 1..n : wire[i] \in Calls
    BY ElementOfSeq
  <2> QED BY <2>1, SubSeqProperties
<1>3. queue \o SubSeq(wire, 1, n) \in Seq(Calls)
  BY <1>2, ConcatProperties
<1> QED BY <1>1, <1>3, EmptySeq DEF Disconnect

LEMMA NextType ==
  ASSUME TypeInv, [Next]_vars
  PROVE  TypeInv'
<1> USE PaymentAssumption
        DEF TypeInv, TypeOK, ArgOK, Running, Outcomes, Goto, Return, handlerVars,
            processVars, brokerVars
<1>1. ASSUME NEW c \in Calls, NEW a \in AuthorizeArg, AuthorizePayment(c, a)
      PROVE  TypeInv'
  <2>1. /\ pc' = [pc EXCEPT ![c] = "done"]
        /\ outcome' = [outcome EXCEPT ![c] = "invalid"]
        \/ /\ ~Rejected(a)
           /\ pc' = [pc EXCEPT ![c] = "lookup"]
           /\ UNCHANGED outcome
    BY <1>1 DEF AuthorizePayment
  <2>2. ~Rejected(a) => a.order \in Orders /\ a.amount > 0
    <3>1. a.amount \in Int
      BY PaymentAssumption DEF AuthorizeArg
    <3> QED BY <3>1 DEF Rejected, AuthorizeArg
  <2> QED BY <1>1, <2>1, <2>2 DEF AuthorizePayment
<1>2. ASSUME NEW c \in Calls, NEW a \in GetArg, GetPaymentStatus(c, a)
      PROVE  TypeInv'
  BY <1>2 DEF GetPaymentStatus
<1>3. ASSUME NEW c \in Calls, NEW a \in GetArg, GetPaymentStatusPanics(c, a)
      PROVE  TypeInv'
  <2>1. /\ wire' \in Seq(Calls) /\ queue' \in Seq(Calls) /\ open' \in BOOLEAN
        /\ confirms' \in Seq(Confirmation)
    BY <1>3, DisconnectType, EmptySeq DEF GetPaymentStatusPanics
  <2>2. up' = FALSE /\ faults < MaxFaults /\ faults' = faults + 1
    BY <1>3, Zenon DEF GetPaymentStatusPanics
  <2>3. /\ pc' \in [Calls -> {"idle", "done", "dead", "panic"} \cup Running]
        /\ \A d \in Calls : pc'[d] \notin Running
        /\ arg' \in [Calls -> AuthorizeArg \cup GetArg \cup {NoArg}]
    BY <1>3 DEF GetPaymentStatusPanics, Killed
  <2>4. faults' \in 0..MaxFaults
    BY <2>2
  <2>5. up' \in BOOLEAN
    BY <2>2, Zenon
  <2> QED BY <1>3, <2>1, <2>3, <2>4, <2>5 DEF GetPaymentStatusPanics
<1>4. ASSUME NEW c \in Calls, Handler(c)
      PROVE  TypeInv'
  BY <1>4, HandlerType
<1>5. CASE BrokerAck
  <2>1. Head(wire) \in Calls /\ wire' \in Seq(Calls)
    BY <1>5, HeadTailProperties DEF BrokerAck
  <2>2. confirms' \in Seq(Confirmation)
    BY <1>5, <2>1, AppendProperties DEF BrokerAck, Confirmation
  <2>3. queue' \in Seq(Calls)
    BY <1>5, <2>1, AppendProperties DEF BrokerAck
  <2> QED BY <1>5, <2>1, <2>2, <2>3 DEF BrokerAck
<1>6. CASE BrokerNack
  BY <1>6 DEF BrokerNack, Confirmation
<1>7. CASE DeclareQueue
  BY <1>7 DEF DeclareQueue
<1>8. CASE ConnectionLost
  BY <1>8, DisconnectType DEF ConnectionLost
<1>9. CASE Crash
  <2>1. /\ wire' \in Seq(Calls) /\ queue' \in Seq(Calls) /\ open' \in BOOLEAN
        /\ confirms' \in Seq(Confirmation)
    BY <1>9, DisconnectType, EmptySeq DEF Crash
  <2>2. up' = FALSE /\ faults < MaxFaults /\ faults' = faults + 1
    BY <1>9, Zenon DEF Crash
  <2>3. /\ pc' \in [Calls -> {"idle", "done", "dead", "panic"} \cup Running]
        /\ \A d \in Calls : pc'[d] \notin Running
    BY <1>9 DEF Crash, Killed
  <2>4. faults' \in 0..MaxFaults
    BY <2>2
  <2>5. up' \in BOOLEAN
    BY <2>2, Zenon
  <2> QED BY <1>9, <2>1, <2>3, <2>4, <2>5 DEF Crash
<1>10. CASE Restart
  BY <1>10 DEF Restart
<1>11. CASE UNCHANGED vars
  BY <1>11 DEF vars
<1> QED
  BY <1>1, <1>2, <1>3, <1>4, <1>5, <1>6, <1>7, <1>8, <1>9, <1>10, <1>11
  DEF Next, Broker

(***************************************************************************)
(* The handlers, the publisher and the broker keep to their types, for any *)
(* number of calls: every row satisfies the CHECKs of the table and has an *)
(* order id, which only the code sees to (authorize_payment.go:41-46).     *)
(***************************************************************************)
THEOREM TypeCorrect == Spec => []TypeOK
<1>1. Init => TypeInv
  BY InitType
<1>2. TypeInv /\ [Next]_vars => TypeInv'
  BY NextType
<1>3. TypeInv => TypeOK
  BY DEF TypeInv
<1> QED BY <1>1, <1>2, <1>3, PTL DEF Spec

-----------------------------------------------------------------------------
\* A row is the work of the one call whose id it bears, and that call is past
\* its save.
RowsOwned ==
  \A p \in payments : p = Row(p.id) /\ pc[p.id] \notin {"idle", "lookup", "save"}

\* A handler announces, and a success reports, what it has saved.
SavedFirst ==
  \A c \in Calls :
    pc[c] \in {"publish", "confirm"} \/ outcome[c] = "ok" => Row(c) \in payments

\* Only a finished handler has an outcome.
OutcomeIsFinal == \A c \in Calls : outcome[c] # "none" => pc[c] = "done"

\* A call that was told of a payment made none.
ExistsIsAnothers ==
  \A c \in Calls : outcome[c] = "exists" =>
    HasPayment(arg[c].order) /\ \A p \in payments : p.id # c

(***************************************************************************)
(* ReplyTruthful is not inductive: a handler that waits for a confirmation *)
(* is about to report a success, so its row must exist already; and a row  *)
(* stays the work of its call only because the argument of a call that has *)
(* left "idle" no longer changes.                                          *)
(***************************************************************************)
RowInv ==
  /\ TypeInv
  /\ OnePaymentPerOrder
  /\ RowsOwned
  /\ SavedFirst
  /\ OutcomeIsFinal
  /\ ExistsIsAnothers

LEMMA InitRows == Init => RowInv
  BY InitType
  DEF Init, RowInv, OnePaymentPerOrder, RowsOwned, SavedFirst, OutcomeIsFinal,
      ExistsIsAnothers

\* A step that saves the row of call c, which was at its save, and moves it to
\* wherever; nothing else the invariant speaks of changes.
LEMMA SaveKeepsRows ==
  ASSUME RowInv, TypeInv', NEW c \in Calls,
         pc[c] = "save", ~HasPayment(arg[c].order),
         payments' = payments \cup {Row(c)}, UNCHANGED arg,
         NEW l \in {"publish", "done"}, pc' = [pc EXCEPT ![c] = l],
         NEW out \in {"none", "ok", "email", "repo"},
         outcome' = [outcome EXCEPT ![c] = out],
         out # "none" => l = "done"
  PROVE  RowInv'
<1> USE DEF RowInv, TypeInv, TypeOK
<1>1. OnePaymentPerOrder'
  BY DEF OnePaymentPerOrder, HasPayment, Row
<1>2. \A d : Row(d)' = Row(d)
  BY DEF Row
<1>3. RowsOwned'
  BY <1>2 DEF RowsOwned, Row, Payment
<1>4. SavedFirst'
  BY <1>2 DEF SavedFirst
<1>5. OutcomeIsFinal'
  BY DEF OutcomeIsFinal
<1>6. ExistsIsAnothers'
  BY DEF ExistsIsAnothers, OutcomeIsFinal, HasPayment, Row
<1> QED BY <1>1, <1>3, <1>4, <1>5, <1>6

\* A step of call c that saves nothing.
LEMMA StepKeepsRows ==
  ASSUME RowInv, TypeInv', NEW c \in Calls,
         UNCHANGED <<arg, payments>>, pc[c] \in Running,
         NEW l \in {"save", "confirm", "done"}, pc' = [pc EXCEPT ![c] = l],
         NEW out \in Outcomes \ {"exists"}, outcome' = [outcome EXCEPT ![c] = out],
         out # "none" => l = "done",
         l = "save" => pc[c] = "lookup",
         l = "confirm" \/ out = "ok" => pc[c] \in {"publish", "confirm"}
  PROVE  RowInv'
<1> USE DEF RowInv, TypeInv, TypeOK, Running
<1>1. \A d : Row(d)' = Row(d)
  BY DEF Row
<1>2. OnePaymentPerOrder'
  BY DEF OnePaymentPerOrder
<1>3. RowsOwned'
  BY <1>1 DEF RowsOwned, Payment
<1>4. SavedFirst'
  BY <1>1 DEF SavedFirst
<1>5. OutcomeIsFinal'
  BY DEF OutcomeIsFinal
<1>6. ExistsIsAnothers'
  BY DEF ExistsIsAnothers, HasPayment
<1> QED BY <1>2, <1>3, <1>4, <1>5, <1>6

LEMMA HandlerRows ==
  ASSUME RowInv, TypeInv', NEW c \in Calls, Handler(c)
  PROVE  RowInv'
<1> USE DEF Goto, Return, Running, Outcomes
<1>0. pc[c] \in Running => outcome[c] = "none"
  BY DEF RowInv, OutcomeIsFinal
<1>t. outcome \in [Calls -> Outcomes]
  BY DEF RowInv, TypeInv, TypeOK
<1>n. outcome[c] = "none" => outcome = [outcome EXCEPT ![c] = "none"]
  BY <1>t
<1>1. CASE GetByOrderID(c)
  <2>1. CASE HasPayment(arg[c].order) /\ Return(c, "exists")
    <3> USE DEF RowInv, TypeInv, TypeOK, GetByOrderID
    <3>1. \A d : Row(d)' = Row(d)
      BY <1>1 DEF Row
    <3>2. OnePaymentPerOrder'
      BY <1>1 DEF OnePaymentPerOrder
    <3>3. RowsOwned'
      BY <1>1, <2>1, <3>1 DEF RowsOwned, Payment
    <3>4. SavedFirst'
      BY <1>1, <2>1, <3>1 DEF SavedFirst
    <3>5. OutcomeIsFinal'
      BY <1>1, <2>1 DEF OutcomeIsFinal
    <3>6. ExistsIsAnothers'
      <4>1. HasPayment(arg[c].order)' /\ \A p \in payments' : p.id # c
        BY <1>1, <2>1 DEF HasPayment, RowsOwned
      <4>2. \A d \in Calls \ {c} : outcome'[d] = outcome[d]
        BY <2>1
      <4> QED BY <1>1, <4>1, <4>2 DEF ExistsIsAnothers, HasPayment
    <3> QED BY <3>2, <3>3, <3>4, <3>5, <3>6
  <2>2. CASE Goto(c, "save")
    BY <1>0, <1>1, <1>n, <2>2, StepKeepsRows DEF GetByOrderID
  <2>3. CASE Return(c, "repo")
    BY <1>1, <2>3, StepKeepsRows DEF GetByOrderID
  <2> QED BY <1>1, <2>1, <2>2, <2>3 DEF GetByOrderID
<1>2. CASE Save(c)
  <2>1. CASE Goto(c, "publish")
    BY <1>0, <1>2, <1>n, <2>1, SaveKeepsRows DEF Save
  <2>2. CASE Return(c, "email")
    BY <1>2, <2>2, SaveKeepsRows DEF Save
  <2>3. CASE Return(c, "ok")
    BY <1>2, <2>3, SaveKeepsRows DEF Save
  <2> QED BY <1>2, <2>1, <2>2, <2>3 DEF Save, AfterSave
<1>3. CASE SaveConflict(c)
  BY <1>3, StepKeepsRows DEF SaveConflict
<1>4. CASE SaveFails(c)
  <2>1. CASE UNCHANGED payments
    BY <1>4, <2>1, StepKeepsRows DEF SaveFails
  <2>2. CASE ~HasPayment(arg[c].order) /\ payments' = payments \cup {Row(c)}
    BY <1>4, <2>2, SaveKeepsRows DEF SaveFails
  <2> QED BY <1>4, <2>1, <2>2 DEF SaveFails
<1>5. CASE PublishPaymentCompleted(c)
  <2>1. CASE Goto(c, "confirm")
    BY <1>0, <1>5, <1>n, <2>1, StepKeepsRows DEF PublishPaymentCompleted
  <2>2. CASE Return(c, "publish")
    BY <1>5, <2>2, StepKeepsRows DEF PublishPaymentCompleted
  <2> QED BY <1>5, <2>1, <2>2 DEF PublishPaymentCompleted
<1>6. CASE AwaitConfirm(c)
  <2>1. CASE Return(c, "ok")
    BY <1>6, <2>1, StepKeepsRows DEF AwaitConfirm
  <2>2. CASE Return(c, "publish")
    BY <1>6, <2>2, StepKeepsRows DEF AwaitConfirm
  <2> QED BY <1>6, <2>1, <2>2 DEF AwaitConfirm
<1>7. CASE ConfirmsClosed(c)
  BY <1>7, StepKeepsRows DEF ConfirmsClosed
<1>8. CASE CtxDone(c)
  BY <1>8, StepKeepsRows DEF CtxDone
<1> QED BY <1>1, <1>2, <1>3, <1>4, <1>5, <1>6, <1>7, <1>8 DEF Handler

\* A call arrives, and is refused, answered at once or taken up.
LEMMA ArrivalKeepsRows ==
  ASSUME RowInv, TypeInv', NEW c \in Calls, NEW a, pc[c] = "idle",
         arg' = [arg EXCEPT ![c] = a], UNCHANGED payments,
         NEW l \in {"lookup", "done"}, pc' = [pc EXCEPT ![c] = l],
         NEW out \in {"none", "invalid", "found", "notfound", "repo"},
         outcome' = [outcome EXCEPT ![c] = out],
         out # "none" => l = "done"
  PROVE  RowInv'
<1> USE DEF RowInv, TypeInv, TypeOK
<1>1. \A d \in Calls : d # c => arg'[d] = arg[d]
  OBVIOUS
<1>2. \A d \in Calls : d # c => Row(d)' = Row(d)
  BY <1>1 DEF Row
<1>3. OnePaymentPerOrder'
  BY DEF OnePaymentPerOrder
<1>4. RowsOwned'
  BY <1>2 DEF RowsOwned, Payment
<1>5. SavedFirst'
  BY <1>2 DEF SavedFirst
<1>6. OutcomeIsFinal'
  BY DEF OutcomeIsFinal
<1>7. ExistsIsAnothers'
  BY <1>1 DEF ExistsIsAnothers, HasPayment
<1> QED BY <1>3, <1>4, <1>5, <1>6, <1>7

\* The process ends: handlers die, and at most an idle call c has arrived.
LEMMA EndKeepsRows ==
  ASSUME RowInv, TypeInv', UNCHANGED <<payments, outcome>>,
         \A d \in Calls : \/ arg'[d] = arg[d] /\ pc'[d] = Killed(d)
                          \/ pc[d] = "idle" /\ pc'[d] = "panic"
  PROVE  RowInv'
<1> USE DEF RowInv, TypeInv, TypeOK, Killed, Running
<1>1. \A d \in Calls : pc[d] # "idle" => Row(d)' = Row(d)
  BY DEF Row
<1>2. OnePaymentPerOrder'
  BY DEF OnePaymentPerOrder
<1>3. RowsOwned'
  BY <1>1 DEF RowsOwned, Payment
<1>4. \A d \in Calls : pc'[d] \notin {"publish", "confirm"}
  OBVIOUS
<1>5. \A d \in Calls : outcome[d] # "none" =>
        pc'[d] = "done" /\ arg'[d] = arg[d] /\ Row(d)' = Row(d)
  BY <1>1 DEF OutcomeIsFinal
<1>6. SavedFirst'
  BY <1>4, <1>5, SMTT(30) DEF SavedFirst
<1>7. OutcomeIsFinal'
  BY <1>5 DEF OutcomeIsFinal
<1>8. ExistsIsAnothers'
  <2> SUFFICES ASSUME NEW d \in Calls, outcome'[d] = "exists"
               PROVE  HasPayment(arg[d].order)' /\ \A p \in payments' : p.id # d
    BY DEF ExistsIsAnothers
  <2>1. outcome[d] = "exists" /\ arg'[d] = arg[d] /\ payments' = payments
    BY <1>5
  <2>2. HasPayment(arg[d].order) /\ \A p \in payments : p.id # d
    BY <2>1 DEF ExistsIsAnothers
  <2> HIDE DEF RowInv, TypeInv, TypeOK, Killed, Running
  <2> QED BY <2>1, <2>2, Zenon DEF HasPayment
<1> QED BY <1>2, <1>3, <1>6, <1>7, <1>8

\* A step that touches neither calls nor rows.
LEMMA OthersKeepRows ==
  ASSUME RowInv, TypeInv', UNCHANGED <<pc, arg, outcome, payments>>
  PROVE  RowInv'
<1>1. \A d : Row(d)' = Row(d)
  BY DEF Row
<1>2. SavedFirst' /\ RowsOwned'
  BY <1>1 DEF RowInv, SavedFirst, RowsOwned
<1> QED BY <1>2 DEF RowInv, OnePaymentPerOrder, OutcomeIsFinal, ExistsIsAnothers,
                    HasPayment

LEMMA NextRows ==
  ASSUME RowInv, [Next]_vars
  PROVE  RowInv'
<1>0. TypeInv'
  BY NextType DEF RowInv
<1>n. \A c \in Calls : pc[c] = "idle" => outcome = [outcome EXCEPT ![c] = "none"]
  BY DEF RowInv, TypeInv, TypeOK, OutcomeIsFinal
<1>1. ASSUME NEW c \in Calls, NEW a \in AuthorizeArg, AuthorizePayment(c, a)
      PROVE  RowInv'
  <2>1. CASE Return(c, "invalid")
    BY <1>0, <1>1, <2>1, ArrivalKeepsRows DEF AuthorizePayment, Return
  <2>2. CASE Goto(c, "lookup")
    BY <1>0, <1>1, <1>n, <2>2, ArrivalKeepsRows DEF AuthorizePayment, Goto
  <2> QED BY <1>1, <2>1, <2>2 DEF AuthorizePayment
<1>2. ASSUME NEW c \in Calls, NEW a \in GetArg, GetPaymentStatus(c, a)
      PROVE  RowInv'
  <2>1. PICK out \in {"invalid", "found", "notfound", "repo"} : Return(c, out)
    BY <1>2 DEF GetPaymentStatus
  <2> QED BY <1>0, <1>2, <2>1, ArrivalKeepsRows DEF GetPaymentStatus, Return
<1>3. ASSUME NEW c \in Calls, NEW a \in GetArg, GetPaymentStatusPanics(c, a)
      PROVE  RowInv'
  BY <1>0, <1>3, EndKeepsRows
  DEF GetPaymentStatusPanics, RowInv, TypeInv, TypeOK
<1>4. ASSUME NEW c \in Calls, Handler(c)
      PROVE  RowInv'
  BY <1>0, <1>4, HandlerRows
<1>5. CASE Crash
  BY <1>0, <1>5, EndKeepsRows DEF Crash
<1>6. CASE Broker \/ DeclareQueue \/ ConnectionLost \/ Restart \/ UNCHANGED vars
  BY <1>0, <1>6, OthersKeepRows
  DEF Broker, BrokerAck, BrokerNack, DeclareQueue, ConnectionLost, Restart,
      handlerVars, vars
<1> QED BY <1>1, <1>2, <1>3, <1>4, <1>5, <1>6 DEF Next

LEMMA RowsAlways == Spec => []RowInv
<1>1. Init => RowInv
  BY InitRows
<1>2. RowInv /\ [Next]_vars => RowInv'
  BY NextRows
<1> QED BY <1>1, <1>2, PTL DEF Spec

(***************************************************************************)
(* However many calls pass the check in GetByOrderID together, and         *)
(* whatever fails or crashes, an order has at most one payment             *)
(* (authorize_payment.go:48-76, uq_payments_order_id).                     *)
(***************************************************************************)
THEOREM OnePayment == Spec => []OnePaymentPerOrder
<1>1. RowInv => OnePaymentPerOrder
  BY DEF RowInv
<1> QED BY <1>1, RowsAlways, PTL

(***************************************************************************)
(* A success is backed by the call's own row with the status the ceiling   *)
(* gives its amount, "payment already exists" by the row of another call   *)
(* (authorize_payment.go:52 and :96).                                      *)
(***************************************************************************)
THEOREM RepliesAreTruthful == Spec => []ReplyTruthful
<1>1. RowInv => ReplyTruthful
  <2> SUFFICES ASSUME RowInv, NEW c \in Calls
               PROVE  /\ outcome[c] = "ok" =>
                           \E p \in payments :
                             /\ p.id = c
                             /\ p.order = arg[c].order
                             /\ p.amount = arg[c].amount
                             /\ p.status = "Declined" <=>
                                  arg[c].amount > MaxAuthorizedAmountCents
                      /\ outcome[c] = "exists" =>
                           /\ HasPayment(arg[c].order)
                           /\ \A p \in payments : p.id # c
    BY DEF ReplyTruthful
  <2>1. Row(c).status = "Declined" <=> arg[c].amount > MaxAuthorizedAmountCents
    BY DEF Row, Decide
  <2>2. Row(c).id = c /\ Row(c).order = arg[c].order /\ Row(c).amount = arg[c].amount
    BY DEF Row
  <2>3. outcome[c] = "ok" => Row(c) \in payments
    BY DEF RowInv, SavedFirst
  <2> QED BY <2>1, <2>2, <2>3 DEF RowInv, ExistsIsAnothers
<1> QED BY <1>1, RowsAlways, PTL
=============================================================================

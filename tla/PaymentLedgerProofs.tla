------------------------- MODULE PaymentLedgerProofs -------------------------
(***************************************************************************)
(* payment-service, with its handlers, its publisher, the broker and the   *)
(* crashes, implements PaymentLedger, the service that its callers see.    *)
(***************************************************************************)
EXTENDS PaymentServiceProofs

\* A payment that a caller has been shown is there.
FoundIsThere ==
  \A c \in Calls : outcome[c] = "found" => HasPayment(arg[c].order)

\* RowInv makes the row of an order unique and a success true; FoundIsThere
\* keeps the answer to a query from changing after it was given.
LedgerInv == RowInv /\ FoundIsThere

LEMMA NextLedger ==
  ASSUME LedgerInv, [Next]_vars
  PROVE  LedgerInv'
<1>1. RowInv'
  BY NextRows DEF LedgerInv
<1>2. /\ outcome \in [Calls -> Outcomes]
      /\ arg \in [Calls -> AuthorizeArg \cup GetArg \cup {NoArg}]
  BY DEF LedgerInv, RowInv, TypeInv, TypeOK
<1>3. payments \subseteq payments'
  BY DEF Next, Handler, GetByOrderID, Save, SaveConflict, SaveFails, AuthorizePayment,
         GetPaymentStatus, GetPaymentStatusPanics, PublishPaymentCompleted, AwaitConfirm,
         ConfirmsClosed, CtxDone, Broker, BrokerAck, BrokerNack, DeclareQueue,
         ConnectionLost, Crash, Restart, vars
<1>4. ASSUME NEW c \in Calls, outcome[c] = "found", arg'[c] = arg[c]
      PROVE  HasPayment(arg[c].order)'
  BY <1>3, <1>4 DEF LedgerInv, FoundIsThere, HasPayment
<1>5. ASSUME NEW c \in Calls, outcome'[c] = "found"
      PROVE  HasPayment(arg[c].order)'
  <2>1. outcome[c] = "found" => pc[c] = "done"
    BY DEF LedgerInv, RowInv, OutcomeIsFinal
  <2>2. ASSUME NEW d \in Calls, NEW a \in GetArg, GetPaymentStatus(d, a)
        PROVE  HasPayment(arg[c].order)'
    <3>1. CASE d = c
      BY <1>2, <1>5, <2>2, <3>1 DEF GetPaymentStatus, Return, HasPayment
    <3>2. CASE d # c
      BY <1>2, <1>4, <1>5, <2>2, <3>2 DEF GetPaymentStatus, Return
    <3> QED BY <3>1, <3>2
  <2>3. ASSUME ~\E d \in Calls, a \in GetArg : GetPaymentStatus(d, a)
        PROVE  outcome[c] = "found"
    BY <1>2, <1>5, <2>3
    DEF Next, Handler, GetByOrderID, Save, AfterSave, SaveConflict, SaveFails,
        AuthorizePayment, GetPaymentStatusPanics, PublishPaymentCompleted, AwaitConfirm,
        ConfirmsClosed, CtxDone, Broker, BrokerAck, BrokerNack, DeclareQueue,
        ConnectionLost, Crash, Restart, handlerVars, vars, Goto, Return
  <2>4. ASSUME ~\E d \in Calls, a \in GetArg : GetPaymentStatus(d, a)
        PROVE  arg'[c] = arg[c]
    BY <1>2, <2>1, <2>3, <2>4
    DEF Next, Handler, GetByOrderID, Save, SaveConflict, SaveFails, AuthorizePayment,
        GetPaymentStatusPanics, PublishPaymentCompleted, AwaitConfirm, ConfirmsClosed,
        CtxDone, Broker, BrokerAck, BrokerNack, DeclareQueue, ConnectionLost, Crash,
        Restart, handlerVars, vars
  <2> QED BY <1>4, <2>2, <2>3, <2>4
<1> QED BY <1>1, <1>5 DEF LedgerInv, FoundIsThere

LEMMA LedgerAlways == Spec => []LedgerInv
<1>1. Init => LedgerInv
  BY InitRows DEF LedgerInv, FoundIsThere, Init
<1>2. LedgerInv /\ [Next]_vars => LedgerInv'
  BY NextLedger
<1> QED BY <1>1, <1>2, PTL DEF Spec

-----------------------------------------------------------------------------
\* In a table with one row per order, an order's row is the only one to choose.
LEMMA OnlyRow ==
  ASSUME NEW P, \A p, q \in P : p.order = q.order => p = q, NEW p \in P
  PROVE  (CHOOSE r \in P : r.order = p.order) = p
<1>1. PICK q : q = (CHOOSE r \in P : r.order = p.order)
  OBVIOUS
<1>2. q \in P /\ q.order = p.order
  BY <1>1
<1> QED BY <1>1, <1>2

LEMMA RowIsLedger ==
  ASSUME OnePaymentPerOrder, NEW p \in payments
  PROVE  LedgerOf(p.order) = p.status
<1>1. HasPayment(p.order)
  BY DEF HasPayment
<1> QED BY <1>1, OnlyRow DEF LedgerOf, OnePaymentPerOrder

LEMMA LedgerValues ==
  ASSUME RowInv, NEW o
  PROVE  /\ HasPayment(o) => LedgerOf(o) \in {"Authorized", "Declined"} /\ o \in Orders
         /\ ~HasPayment(o) => LedgerOf(o) = "None"
<1>1. payments \subseteq Payment /\ OnePaymentPerOrder
  BY DEF RowInv, TypeInv, TypeOK
<1>2. ASSUME HasPayment(o)
      PROVE  LedgerOf(o) \in {"Authorized", "Declined"} /\ o \in Orders
  <2>1. PICK p \in payments : p.order = o
    BY <1>2 DEF HasPayment
  <2>2. LedgerOf(o) = p.status
    BY <1>1, <2>1, RowIsLedger
  <2> QED BY <1>1, <2>1, <2>2 DEF Payment
<1> QED BY <1>2 DEF LedgerOf

LEMMA RowIsLedgerNext ==
  ASSUME OnePaymentPerOrder', NEW p \in payments'
  PROVE  LedgerOf(p.order)' = p.status
<1>1. HasPayment(p.order)'
  BY DEF HasPayment
<1> QED BY <1>1, OnlyRow DEF LedgerOf, OnePaymentPerOrder

\* Rows are only added, so an order keeps its payment.
LEMMA LedgerKept ==
  ASSUME RowInv, RowInv', NEW o, payments \subseteq payments',
         HasPayment(o) \/ payments' = payments
  PROVE  LedgerOf(o)' = LedgerOf(o)
<1>1. CASE payments' = payments
  BY <1>1 DEF LedgerOf, HasPayment
<1>2. CASE HasPayment(o)
  <2>1. PICK p \in payments : p.order = o
    BY <1>2 DEF HasPayment
  <2>2. LedgerOf(o) = p.status
    BY <2>1, RowIsLedger DEF RowInv
  <2>3. OnePaymentPerOrder' /\ p \in payments'
    BY <2>1 DEF RowInv
  <2> QED BY <2>1, <2>2, <2>3, RowIsLedgerNext
<1> QED BY <1>1, <1>2

\* What a caller knows at each point of its call, before and after a step.
LEMMA AnswerIs ==
  ASSUME NEW c \in Calls
  PROVE  /\ pc[c] = "idle" => AnswerOf(c) = "idle"
         /\ pc[c] \in {"lookup", "save"} => AnswerOf(c) = "sent"
         /\ pc[c] \in {"publish", "confirm"} => AnswerOf(c) = "recorded"
  BY DEF AnswerOf

LEMMA AnswerBecomes ==
  ASSUME NEW c \in Calls
  PROVE  /\ pc'[c] \in {"lookup", "save"} => AnswerOf(c)' = "sent"
         /\ pc'[c] \in {"publish", "confirm"} => AnswerOf(c)' = "recorded"
         /\ pc'[c] \in {"dead", "panic"} => AnswerOf(c)' = "lost"
         /\ pc'[c] = "done" =>
              /\ outcome'[c] \in {"repo", "publish"} => AnswerOf(c)' = "failed"
              /\ outcome'[c] = "email" => AnswerOf(c)' = "invalid"
              /\ outcome'[c] = "ok" => AnswerOf(c)' = Decide(arg'[c].amount)
              /\ outcome'[c] = "found" => AnswerOf(c)' = LedgerOf(arg[c].order)'
              /\ outcome'[c] \in {"invalid", "exists", "notfound"}
                   => AnswerOf(c)' = outcome'[c]
  BY DEF AnswerOf, Decide, MaxAuthorizedAmountCents

\* What a step leaves alone of call d, it leaves alone of what d's caller sees.
Alone(d) == pc'[d] = pc[d] /\ outcome'[d] = outcome[d] /\ arg'[d] = arg[d]

LEMMA AnswerKept ==
  ASSUME LedgerInv, LedgerInv', NEW d \in Calls, payments \subseteq payments', Alone(d)
  PROVE  AnswerOf(d)' = AnswerOf(d)
<1>1. CASE outcome[d] = "found"
  <2>1. PICK o : o = arg[d].order
    OBVIOUS
  <2>2. HasPayment(o)
    BY <1>1, <2>1 DEF LedgerInv, FoundIsThere
  <2>3. LedgerOf(o)' = LedgerOf(o)
    BY <2>2, LedgerKept DEF LedgerInv
  <2>4. LedgerOf(arg[d].order)' = LedgerOf(arg[d].order)
    BY <2>1, <2>3 DEF Alone, LedgerOf, HasPayment
  <2> QED BY <1>1, <2>4 DEF AnswerOf, Alone
<1>2. CASE outcome[d] # "found"
  BY <1>2 DEF AnswerOf, Alone, Decide, MaxAuthorizedAmountCents
<1> QED BY <1>1, <1>2

\* One caller is told x, the others nothing.
LEMMA Told ==
  ASSUME LedgerInv, LedgerInv', payments \subseteq payments',
         NEW c \in Calls, \A d \in Calls \ {c} : Alone(d),
         NEW x, AnswerOf(c)' = x
  PROVE  Ledger!Answer(c, x)
<1>1. \A d \in Calls \ {c} : AnswerOf(d)' = AnswerOf(d)
  BY AnswerKept
<1> QED BY <1>1 DEF Ledger!Answer

LEMMA SameLedger ==
  ASSUME LedgerInv, LedgerInv', payments' = payments
  PROVE  UNCHANGED [o \in Orders |-> LedgerOf(o)]
<1>1. \A o \in Orders : LedgerOf(o)' = LedgerOf(o)
  BY LedgerKept DEF LedgerInv
<1> QED BY <1>1

-----------------------------------------------------------------------------
\* The arguments of handlers, and the answers that they can lead to.
LEMMA HandlerArg ==
  ASSUME LedgerInv, NEW c \in Calls, pc[c] \in Running
  PROVE  arg[c].order \in Orders /\ arg[c].email \in BOOLEAN
  BY DEF LedgerInv, RowInv, TypeInv, ArgOK, AuthorizeArg

LEMMA MoveAlone ==
  ASSUME LedgerInv, NEW c \in Calls, UNCHANGED arg, NEW l, pc' = [pc EXCEPT ![c] = l],
         UNCHANGED outcome \/ \E out : outcome' = [outcome EXCEPT ![c] = out]
  PROVE  pc'[c] = l /\ \A d \in Calls \ {c} : Alone(d)
  BY DEF LedgerInv, RowInv, TypeInv, TypeOK, Alone

\* A row is saved: the ledger records the payment.
LEMMA RecordRefines ==
  ASSUME LedgerInv, LedgerInv', NEW c \in Calls, pc[c] = "save",
         ~HasPayment(arg[c].order), payments' = payments \cup {Row(c)}, UNCHANGED arg,
         \A d \in Calls \ {c} : Alone(d),
         \/ AnswerOf(c)' \in {"recorded", Decide(arg[c].amount), "failed"}
         \/ AnswerOf(c)' = "invalid" /\ ~arg[c].email
  PROVE  Ledger!Record(c)
<1>1. AnswerOf(c) = "sent"
  BY AnswerIs
<1>2. PICK o \in Orders : o = arg[c].order /\ o = Row(c).order
  BY HandlerArg DEF Running, Row
<1>3. LedgerOf(o) = "None"
  BY <1>2 DEF LedgerOf
<1>4. LedgerOf(o)' = Decide(arg[c].amount)
  <2>1. PICK p : p = Row(c)
    OBVIOUS
  <2>2. p \in payments' /\ p.order = o /\ p.status = Decide(arg[c].amount)
    BY <1>2, <2>1 DEF Row
  <2> QED BY <2>2, RowIsLedgerNext DEF LedgerInv, RowInv
<1>5. \A q \in Orders \ {o} : LedgerOf(q)' = LedgerOf(q)
  <2> SUFFICES ASSUME NEW q \in Orders, q # o PROVE LedgerOf(q)' = LedgerOf(q)
    OBVIOUS
  <2>1. CASE HasPayment(q)
    BY <2>1, LedgerKept DEF LedgerInv
  <2>2. CASE ~HasPayment(q)
    <3>1. ~HasPayment(q)'
      BY <1>2, <2>2 DEF HasPayment
    <3> QED BY <2>2, <3>1 DEF LedgerOf
  <2> QED BY <2>1, <2>2
<1>6. [q \in Orders |-> LedgerOf(q)]'
        = [[q \in Orders |-> LedgerOf(q)] EXCEPT ![o] = Decide(arg[c].amount)]
  BY <1>4, <1>5
<1>7. PICK x : x = AnswerOf(c)'
  OBVIOUS
<1>8. Ledger!Answer(c, x)
  BY <1>7, Told
<1>9. \A a : Ledger!Decide(a) = Decide(a)
  BY DEF Ledger!Decide, Decide, Ledger!MaxAuthorizedAmountCents, MaxAuthorizedAmountCents
<1>10. x \in {"recorded", Ledger!Decide(arg[c].amount), "failed"} \cup
              (IF arg[c].email THEN {} ELSE {"invalid"})
  BY <1>7, <1>9
<1> QED BY <1>1, <1>2, <1>3, <1>6, <1>8, <1>9, <1>10 DEF Ledger!Record

\* A call that recorded nothing is answered.
LEMMA RefuseRefines ==
  ASSUME LedgerInv, LedgerInv', NEW c \in Calls, pc[c] \in {"lookup", "save"},
         UNCHANGED <<payments, arg>>, \A d \in Calls \ {c} : Alone(d),
         pc'[c] = "done",
         outcome'[c] \in {"repo", "exists"},
         outcome'[c] = "exists" => HasPayment(arg[c].order)
  PROVE  Ledger!Refuse(c)
<1>1. AnswerOf(c) = "sent"
  BY AnswerIs
<1>2. UNCHANGED [o \in Orders |-> LedgerOf(o)]
  BY SameLedger
<1>3. CASE outcome'[c] = "repo"
  <2>1. Ledger!Answer(c, "failed")
    BY <1>3, AnswerBecomes, Told
  <2> QED BY <1>1, <1>2, <2>1 DEF Ledger!Refuse
<1>4. CASE outcome'[c] = "exists"
  <2>1. Ledger!Answer(c, "exists")
    BY <1>4, AnswerBecomes, Told
  <2>2. arg[c].order \in Orders /\ LedgerOf(arg[c].order) # "None"
    BY <1>4, LedgerValues DEF LedgerInv
  <2> QED BY <1>1, <1>2, <2>1, <2>2 DEF Ledger!Refuse
<1> QED BY <1>3, <1>4

\* A call that recorded a payment is answered.
LEMMA FinishRefines ==
  ASSUME LedgerInv, LedgerInv', NEW c \in Calls, pc[c] \in {"publish", "confirm"},
         UNCHANGED <<payments, arg>>, \A d \in Calls \ {c} : Alone(d),
         pc'[c] = "done", outcome'[c] \in {"ok", "publish"}
  PROVE  Ledger!Finish(c)
<1>1. AnswerOf(c) = "recorded"
  BY AnswerIs
<1>2. UNCHANGED [o \in Orders |-> LedgerOf(o)]
  BY SameLedger
<1>3. arg[c].order \in Orders
  BY HandlerArg DEF Running
<1>4. LedgerOf(arg[c].order) = Decide(arg[c].amount)
  <2>1. Row(c) \in payments
    BY DEF LedgerInv, RowInv, SavedFirst
  <2>2. LedgerOf(Row(c).order) = Row(c).status
    BY <2>1, RowIsLedger DEF LedgerInv, RowInv
  <2> QED BY <2>2 DEF Row
<1>5. PICK x : x = AnswerOf(c)'
  OBVIOUS
<1>6. Ledger!Answer(c, x)
  BY <1>5, Told
<1>7. x \in {LedgerOf(arg[c].order), "failed"}
  BY <1>4, <1>5, AnswerBecomes
<1> QED BY <1>1, <1>2, <1>3, <1>6, <1>7 DEF Ledger!Finish

\* A step that no caller notices.
LEMMA Unnoticed ==
  ASSUME LedgerInv, LedgerInv', UNCHANGED <<payments, arg>>,
         \A d \in Calls : AnswerOf(d)' = AnswerOf(d)
  PROVE  UNCHANGED <<[o \in Orders |-> LedgerOf(o)], arg, [c \in Calls |-> AnswerOf(c)]>>
<1>1. UNCHANGED [o \in Orders |-> LedgerOf(o)]
  BY SameLedger
<1>2. UNCHANGED [c \in Calls |-> AnswerOf(c)]
  OBVIOUS
<1> QED BY <1>1, <1>2

LEMMA HandlerRefines ==
  ASSUME LedgerInv, LedgerInv', NEW c \in Calls, Handler(c)
  PROVE  \/ Ledger!Record(c) \/ Ledger!Finish(c) \/ Ledger!Refuse(c)
         \/ UNCHANGED <<[o \in Orders |-> LedgerOf(o)], arg, [d \in Calls |-> AnswerOf(d)]>>
<1>0. outcome \in [Calls -> Outcomes] /\ pc[c] \in Running
  BY DEF LedgerInv, RowInv, TypeInv, TypeOK, Handler, GetByOrderID, Save, SaveConflict,
         SaveFails, PublishPaymentCompleted, AwaitConfirm, ConfirmsClosed, CtxDone, Running
<1>r. ASSUME NEW out, Return(c, out), UNCHANGED arg
      PROVE  pc'[c] = "done" /\ outcome'[c] = out /\ \A d \in Calls \ {c} : Alone(d)
  BY <1>0, <1>r, MoveAlone DEF Return
<1>g. ASSUME NEW l, Goto(c, l), UNCHANGED arg
      PROVE  pc'[c] = l /\ \A d \in Calls \ {c} : Alone(d)
  BY <1>g, MoveAlone DEF Goto
<1>k. ASSUME \A d \in Calls \ {c} : Alone(d), UNCHANGED payments
      PROVE  \A d \in Calls \ {c} : AnswerOf(d)' = AnswerOf(d)
  BY <1>k, AnswerKept
<1>1. CASE GetByOrderID(c)
  <2>0. UNCHANGED <<arg, payments>> /\ pc[c] = "lookup"
    BY <1>1 DEF GetByOrderID
  <2>1. CASE HasPayment(arg[c].order) /\ Return(c, "exists")
    BY <1>r, <2>0, <2>1, RefuseRefines
  <2>2. CASE Return(c, "repo")
    <3>1. /\ pc'[c] = "done" /\ outcome'[c] = "repo"
          /\ \A d \in Calls \ {c} : Alone(d)
      BY <1>r, <2>0, <2>2
    <3> QED BY <2>0, <3>1, RefuseRefines
  <2>3. CASE Goto(c, "save")
    <3>1. AnswerOf(c)' = AnswerOf(c)
      BY <1>1, <1>g, <2>3, AnswerIs, AnswerBecomes DEF GetByOrderID
    <3> QED BY <1>1, <1>g, <1>k, <2>3, <3>1, Unnoticed DEF GetByOrderID
  <2> QED BY <1>1, <2>1, <2>2, <2>3 DEF GetByOrderID
<1>2. CASE Save(c)
  <2>1. CASE Goto(c, "publish")
    BY <1>2, <1>g, <2>1, AnswerBecomes, RecordRefines DEF Save
  <2>2. CASE Return(c, "email") /\ ~arg[c].email
    BY <1>2, <1>r, <2>2, AnswerBecomes, RecordRefines DEF Save
  <2>3. CASE Return(c, "ok")
    <3>1. AnswerOf(c)' = Decide(arg[c].amount)
      BY <1>2, <1>r, <2>3, AnswerBecomes DEF Save
    <3> QED BY <1>2, <1>r, <2>3, <3>1, RecordRefines DEF Save
  <2> QED BY <1>2, <2>1, <2>2, <2>3 DEF Save, AfterSave
<1>3. CASE SaveConflict(c)
  BY <1>3, <1>r, RefuseRefines DEF SaveConflict
<1>4. CASE SaveFails(c)
  <2>1. CASE UNCHANGED payments
    <3>1. UNCHANGED arg /\ Return(c, "repo") /\ pc[c] = "save"
      BY <1>4 DEF SaveFails
    <3>2. /\ pc'[c] = "done" /\ outcome'[c] = "repo"
          /\ \A d \in Calls \ {c} : Alone(d)
      BY <1>r, <3>1
    <3> QED BY <2>1, <3>1, <3>2, RefuseRefines
  <2>2. CASE ~HasPayment(arg[c].order) /\ payments' = payments \cup {Row(c)}
    BY <1>4, <1>r, <2>2, AnswerBecomes, RecordRefines DEF SaveFails
  <2> QED BY <1>4, <2>1, <2>2 DEF SaveFails
<1>5. CASE PublishPaymentCompleted(c)
  <2>1. CASE Goto(c, "confirm")
    <3>1. AnswerOf(c)' = AnswerOf(c)
      BY <1>5, <1>g, <2>1, AnswerIs, AnswerBecomes DEF PublishPaymentCompleted
    <3> QED BY <1>5, <1>g, <1>k, <2>1, <3>1, Unnoticed DEF PublishPaymentCompleted
  <2>2. CASE Return(c, "publish")
    BY <1>5, <1>r, <2>2, FinishRefines DEF PublishPaymentCompleted
  <2> QED BY <1>5, <2>1, <2>2 DEF PublishPaymentCompleted
<1>6. CASE AwaitConfirm(c)
  <2>1. PICK out \in {"ok", "publish"} : Return(c, out)
    BY <1>6 DEF AwaitConfirm
  <2> QED BY <1>6, <1>r, <2>1, FinishRefines DEF AwaitConfirm
<1>7. CASE ConfirmsClosed(c) \/ CtxDone(c)
  BY <1>7, <1>r, FinishRefines DEF ConfirmsClosed, CtxDone
<1> QED BY <1>1, <1>2, <1>3, <1>4, <1>5, <1>6, <1>7 DEF Handler

\* A call arrives.
LEMMA ArrivalRefines ==
  ASSUME LedgerInv, LedgerInv', NEW c \in Calls,
         (\E a \in AuthorizeArg : AuthorizePayment(c, a))
           \/ (\E a \in GetArg : GetPaymentStatus(c, a))
  PROVE  \/ \E a \in Ledger!AuthorizeArg : Ledger!Send(c, a)
         \/ \E a \in Ledger!GetArg : Ledger!Query(c, a)
<1>0. /\ outcome \in [Calls -> Outcomes]
      /\ arg \in [Calls -> AuthorizeArg \cup GetArg \cup {NoArg}]
      /\ pc \in [Calls -> {"idle", "done", "dead", "panic"} \cup Running]
  BY DEF LedgerInv, RowInv, TypeInv, TypeOK
<1>1. ASSUME NEW a \in AuthorizeArg, AuthorizePayment(c, a)
      PROVE  Ledger!Send(c, a)
  <2>1. /\ AnswerOf(c) = "idle" /\ arg' = [arg EXCEPT ![c] = a]
        /\ UNCHANGED [o \in Orders |-> LedgerOf(o)]
    BY <1>1, AnswerIs, SameLedger DEF AuthorizePayment
  <2>2. \A d \in Calls \ {c} : Alone(d)
    BY <1>0, <1>1 DEF AuthorizePayment, Goto, Return, Alone
  <2>3. payments \subseteq payments'
    BY <1>1 DEF AuthorizePayment
  <2>4. a.amount \in Int /\ a.email \in BOOLEAN
    BY PaymentAssumption DEF AuthorizeArg
  <2>5. CASE (Rejected(a) \/ ~a.email) /\ Return(c, "invalid")
    <3>1. Ledger!Answer(c, "invalid")
      BY <1>0, <2>2, <2>3, <2>5, AnswerBecomes, Told DEF Return
    <3>2. ~(Ledger!Valid(a) /\ a.email)
      BY <2>4, <2>5 DEF Ledger!Valid, Rejected
    <3> QED BY <2>1, <3>1, <3>2 DEF Ledger!Send
  <2>6. CASE ~Rejected(a) /\ Goto(c, "lookup")
    <3>1. Ledger!Answer(c, "sent")
      BY <1>0, <2>2, <2>3, <2>6, AnswerBecomes, Told DEF Goto
    <3>2. Ledger!Valid(a)
      BY <2>4, <2>6 DEF Ledger!Valid, Rejected
    <3> QED BY <2>1, <3>1, <3>2 DEF Ledger!Send
  <2> QED BY <1>1, <2>5, <2>6 DEF AuthorizePayment
<1>2. ASSUME NEW a \in GetArg, GetPaymentStatus(c, a)
      PROVE  Ledger!Query(c, a)
  <2>1. /\ AnswerOf(c) = "idle" /\ arg' = [arg EXCEPT ![c] = a]
        /\ UNCHANGED [o \in Orders |-> LedgerOf(o)]
    BY <1>2, AnswerIs, SameLedger DEF GetPaymentStatus
  <2>2. \A d \in Calls \ {c} : Alone(d)
    BY <1>0, <1>2 DEF GetPaymentStatus, Return, Alone
  <2>3. payments' = payments /\ arg'[c] = a
    BY <1>0, <1>2 DEF GetPaymentStatus
  <2>4. a.order \in Orders \cup {Blank} /\ ~HasPayment(Blank)
    BY PaymentAssumption, LedgerValues DEF GetArg, LedgerInv
  <2>5. ASSUME NEW out, Return(c, out)
        PROVE  pc'[c] = "done" /\ outcome'[c] = out
    BY <1>0, <2>5 DEF Return
  <2>6. CASE a.order = Blank /\ Return(c, "invalid")
    <3>1. Ledger!Answer(c, "invalid")
      BY <2>2, <2>3, <2>5, <2>6, AnswerBecomes, Told
    <3> QED BY <2>1, <2>6, <3>1 DEF Ledger!Query
  <2>7. CASE HasPayment(a.order) /\ Return(c, "found")
    <3>1. a.order \in Orders /\ a.order # Blank /\ LedgerOf(a.order) # "None"
      BY <2>4, <2>7, LedgerValues DEF LedgerInv
    <3>2. LedgerOf(a.order)' = LedgerOf(a.order)
      BY <2>3, LedgerKept DEF LedgerInv
    <3>3. LedgerOf(arg[c].order)' = LedgerOf(a.order)'
      BY <2>3 DEF LedgerOf, HasPayment
    <3>4. Ledger!Answer(c, LedgerOf(a.order))
      <4>1. AnswerOf(c)' = LedgerOf(a.order)
        BY <2>5, <2>7, <3>2, <3>3, AnswerBecomes
      <4>2. PICK x : x = LedgerOf(a.order)
        OBVIOUS
      <4>3. Ledger!Answer(c, x)
        BY <2>2, <2>3, <4>1, <4>2, Told
      <4> QED BY <4>2, <4>3
    <3> QED BY <2>1, <3>1, <3>4 DEF Ledger!Query
  <2>8. CASE a.order # Blank /\ Return(c, "repo")
    <3>1. Ledger!Answer(c, "failed")
      BY <2>2, <2>3, <2>5, <2>8, AnswerBecomes, Told
    <3> QED BY <2>1, <2>8, <3>1 DEF Ledger!Query
  <2>9. CASE a.order # Blank /\ Return(c, "notfound")
    <3>1. Ledger!Answer(c, "notfound")
      BY <2>2, <2>3, <2>5, <2>9, AnswerBecomes, Told
    <3> QED BY <2>1, <2>9, <3>1 DEF Ledger!Query
  <2> QED BY <1>2, <2>6, <2>7, <2>8, <2>9 DEF GetPaymentStatus
<1> QED BY <1>1, <1>2 DEF AuthorizeArg, GetArg, Ledger!AuthorizeArg, Ledger!GetArg

\* The process ends: what is in progress is lost, what was answered stays so.
LEMMA KilledIsStopped ==
  ASSUME LedgerInv, LedgerInv', NEW d \in Calls, payments' = payments,
         pc'[d] = Killed(d), outcome'[d] = outcome[d], arg'[d] = arg[d]
  PROVE  AnswerOf(d)' = IF AnswerOf(d) \in {"sent", "recorded"} THEN "lost" ELSE AnswerOf(d)
<1>0. pc[d] \in {"idle", "done", "dead", "panic"} \cup Running
  BY DEF LedgerInv, RowInv, TypeInv, TypeOK
<1>1. CASE pc[d] \in Running
  BY <1>1, AnswerIs, AnswerBecomes DEF Killed, Running
<1>2. CASE pc[d] \notin Running
  <2>1. AnswerOf(d)' = AnswerOf(d)
    BY <1>2, AnswerKept DEF Alone, Killed
  <2>2. AnswerOf(d) \notin {"sent", "recorded"}
    <3>1. LedgerOf(arg[d].order) \in {"Authorized", "Declined", "None"}
      BY LedgerValues DEF LedgerInv
    <3>2. outcome[d] \in Outcomes
      BY DEF LedgerInv, RowInv, TypeInv, TypeOK
    <3> QED BY <1>0, <1>2, <3>1, <3>2 DEF AnswerOf, Running, Decide, Outcomes
  <2> QED BY <2>1, <2>2
<1> QED BY <1>1, <1>2

LEMMA StepLedger ==
  ASSUME LedgerInv, LedgerInv', [Next]_vars
  PROVE  \/ Ledger!LedgerNext
         \/ UNCHANGED <<[o \in Orders |-> LedgerOf(o)], arg, [c \in Calls |-> AnswerOf(c)]>>
<1>0. arg \in [Calls -> AuthorizeArg \cup GetArg \cup {NoArg}]
  BY DEF LedgerInv, RowInv, TypeInv, TypeOK
<1>1. CASE Crash
  <2>1. UNCHANGED [o \in Orders |-> LedgerOf(o)] /\ UNCHANGED arg
    BY <1>1, SameLedger DEF Crash
  <2>2. \A d \in Calls : AnswerOf(d)' =
          IF AnswerOf(d) \in {"sent", "recorded"} THEN "lost" ELSE AnswerOf(d)
    BY <1>1, KilledIsStopped DEF Crash
  <2>3. Ledger!Die
    BY <2>1, <2>2 DEF Ledger!Die, Ledger!Stopped
  <2> QED BY <2>3 DEF Ledger!LedgerNext
<1>2. ASSUME NEW c \in Calls, NEW a \in GetArg, GetPaymentStatusPanics(c, a)
      PROVE  Ledger!LedgerNext
  <2>1. /\ UNCHANGED [o \in Orders |-> LedgerOf(o)]
        /\ arg' = [arg EXCEPT ![c] = a] /\ AnswerOf(c) = "idle"
    BY <1>2, SameLedger, AnswerIs DEF GetPaymentStatusPanics
  <2>2. AnswerOf(c)' = "lost"
    BY <1>2, AnswerBecomes DEF GetPaymentStatusPanics
  <2>3. \A d \in Calls \ {c} : AnswerOf(d)' =
          IF AnswerOf(d) \in {"sent", "recorded"} THEN "lost" ELSE AnswerOf(d)
    BY <1>0, <1>2, KilledIsStopped DEF GetPaymentStatusPanics
  <2>4. Ledger!QueryDies(c, a)
    BY <2>1, <2>2, <2>3 DEF Ledger!QueryDies, Ledger!Stopped
  <2> QED BY <2>4 DEF Ledger!LedgerNext, GetArg, Ledger!GetArg
<1>3. CASE Broker \/ DeclareQueue \/ ConnectionLost \/ Restart \/ UNCHANGED vars
  <2>1. UNCHANGED <<pc, arg, outcome, payments>>
    BY <1>3 DEF Broker, BrokerAck, BrokerNack, DeclareQueue, ConnectionLost, Restart,
                handlerVars, vars
  <2>2. \A d \in Calls : AnswerOf(d)' = AnswerOf(d)
    BY <2>1, AnswerKept DEF Alone
  <2> QED BY <2>1, <2>2, Unnoticed
<1>4. ASSUME NEW c \in Calls, Handler(c)
      PROVE  \/ Ledger!LedgerNext
             \/ UNCHANGED <<[o \in Orders |-> LedgerOf(o)], arg,
                            [d \in Calls |-> AnswerOf(d)]>>
  BY <1>4, HandlerRefines DEF Ledger!LedgerNext
<1>5. ASSUME NEW c \in Calls,
             (\E a \in AuthorizeArg : AuthorizePayment(c, a))
               \/ (\E a \in GetArg : GetPaymentStatus(c, a))
      PROVE  Ledger!LedgerNext
  BY <1>5, ArrivalRefines DEF Ledger!LedgerNext
<1> QED BY <1>1, <1>2, <1>3, <1>4, <1>5 DEF Next

(***************************************************************************)
(* Whatever handlers, publisher, broker and crashes do, the callers of     *)
(* payment-service see what PaymentLedger describes: one unchanging        *)
(* payment per order, and answers that agree with it                       *)
(* (authorize_payment.go:34-97, server.go of the gRPC transport).          *)
(***************************************************************************)
THEOREM ServiceImplementsLedger == Spec => ImplementsLedger
<1>1. Init => Ledger!LedgerInit
  BY DEF Init, Ledger!LedgerInit, LedgerOf, HasPayment, AnswerOf
<1>2. LedgerInv /\ LedgerInv' /\ [Next]_vars
        => [Ledger!LedgerNext]_<<[o \in Orders |-> LedgerOf(o)], arg,
                                 [c \in Calls |-> AnswerOf(c)]>>
  BY StepLedger
<1> QED BY <1>1, <1>2, LedgerAlways, PTL
        DEF Spec, ImplementsLedger, Ledger!LedgerSpec, Ledger!ledgerVars
=============================================================================

------------------------- MODULE PaymentEventsProofs -------------------------
(***************************************************************************)
(* What the publisher of payment-service and the broker guarantee about    *)
(* events and confirmations, for any number of calls and faults and any    *)
(* capacity of the confirms channel.                                       *)
(***************************************************************************)
EXTENDS PaymentServiceProofs, FiniteSetTheorems

\* An event that stands for a payment, and whose handler has left "publish".
Announced(e) ==
  /\ Row(e) \in payments
  /\ Row(e).status = "Authorized"
  /\ pc[e] \in {"confirm", "done", "dead"}

AllAnnounced ==
  /\ \A i \in 1..Len(queue) : Announced(queue[i])
  /\ \A i \in 1..Len(wire) : Announced(wire[i])

\* A call has one event at most, on the wire or in the queue.
EventsOnce ==
  /\ \A i, j \in 1..Len(queue) : queue[i] = queue[j] => i = j
  /\ \A i, j \in 1..Len(wire) : wire[i] = wire[j] => i = j
  /\ \A i \in 1..Len(queue), j \in 1..Len(wire) : queue[i] # wire[j]

\* Only an authorized payment gets as far as the publisher.
OnlyAuthorized ==
  \A c \in Calls : pc[c] = "publish" => Row(c).status = "Authorized"

(***************************************************************************)
(* EventsBacked speaks of orders, the publisher of calls.  That no order   *)
(* is announced twice follows from two facts that are inductive together:  *)
(* a call is announced at most once, because it leaves "publish" with its  *)
(* publishing and never comes back, and an order has one payment.          *)
(***************************************************************************)
EventInv == RowInv /\ AllAnnounced /\ EventsOnce /\ OnlyAuthorized

LEMMA InitEvents == Init => EventInv
<1> SUFFICES ASSUME Init PROVE EventInv
  OBVIOUS
<1>1. Len(queue) = 0 /\ Len(wire) = 0
  BY DEF Init
<1> QED BY <1>1, InitRows DEF EventInv, AllAnnounced, EventsOnce, OnlyAuthorized, Init

\* An event stays backed in every step that does not undo the call's row, and
\* no step does.
LEMMA AnnouncedStays ==
  ASSUME RowInv, [Next]_vars, NEW e \in Calls, Announced(e)
  PROVE  Announced(e)'
<1> USE DEF Announced
<1>0. /\ pc \in [Calls -> {"idle", "done", "dead", "panic"} \cup Running]
      /\ arg \in [Calls -> AuthorizeArg \cup GetArg \cup {NoArg}]
  BY DEF RowInv, TypeInv, TypeOK
<1>1. ASSUME NEW c \in Calls, NEW a, pc[c] = "idle", arg' = [arg EXCEPT ![c] = a],
             UNCHANGED payments,
             \/ \E l : pc' = [pc EXCEPT ![c] = l]
             \/ pc' = [d \in Calls |-> IF d = c THEN "panic" ELSE Killed(d)]
      PROVE  Announced(e)'
  <2>1. e # c
    BY <1>1
  <2>2. arg'[e] = arg[e] /\ Row(e)' = Row(e)
    BY <1>0, <1>1, <2>1 DEF Row
  <2>3. pc'[e] \in {"confirm", "done", "dead"}
    BY <1>0, <1>1, <2>1 DEF Killed, Running
  <2> QED BY <1>1, <2>2, <2>3
<1>2. ASSUME UNCHANGED arg, payments \subseteq payments',
             pc'[e] \in {"confirm", "done", "dead"}
      PROVE  Announced(e)'
  BY <1>2 DEF Row
<1>3. ASSUME NEW c \in Calls, NEW a \in AuthorizeArg, AuthorizePayment(c, a)
      PROVE  Announced(e)'
  BY <1>1, <1>3 DEF AuthorizePayment, Goto, Return
<1>4. ASSUME NEW c \in Calls, NEW a \in GetArg, GetPaymentStatus(c, a)
      PROVE  Announced(e)'
  BY <1>1, <1>4 DEF GetPaymentStatus, Return
<1>5. ASSUME NEW c \in Calls, NEW a \in GetArg, GetPaymentStatusPanics(c, a)
      PROVE  Announced(e)'
  BY <1>1, <1>5 DEF GetPaymentStatusPanics
<1>6. ASSUME NEW c \in Calls, Handler(c)
      PROVE  Announced(e)'
  <2>1. UNCHANGED arg /\ payments \subseteq payments'
    BY <1>6 DEF Handler, GetByOrderID, Save, SaveConflict, SaveFails,
       PublishPaymentCompleted, AwaitConfirm, ConfirmsClosed, CtxDone
  <2>2. \/ pc' = [pc EXCEPT ![c] = "done"]
        \/ pc[c] \notin {"confirm", "done", "dead"} /\ \E l : pc' = [pc EXCEPT ![c] = l]
    BY <1>6 DEF Handler, GetByOrderID, Save, AfterSave, SaveConflict, SaveFails,
       PublishPaymentCompleted, AwaitConfirm, ConfirmsClosed, CtxDone, Goto, Return
  <2>3. pc'[e] \in {"confirm", "done", "dead"}
    BY <1>0, <2>2
  <2> QED BY <1>2, <2>1, <2>3
<1>7. CASE Crash
  BY <1>0, <1>2, <1>7 DEF Crash, Killed, Running
<1>8. CASE Broker \/ DeclareQueue \/ ConnectionLost \/ Restart \/ UNCHANGED vars
  BY <1>2, <1>8
  DEF Broker, BrokerAck, BrokerNack, DeclareQueue, ConnectionLost, Restart,
      handlerVars, vars
<1> QED BY <1>3, <1>4, <1>5, <1>6, <1>7, <1>8 DEF Next

\* A handler that is about to publish came from its save, with a row that is
\* authorized.
LEMMA PublishAuthorized ==
  ASSUME EventInv, [Next]_vars
  PROVE  OnlyAuthorized'
<1> SUFFICES ASSUME NEW e \in Calls, pc'[e] = "publish"
             PROVE  Row(e).status' = "Authorized"
  BY DEF OnlyAuthorized
<1>0. /\ pc \in [Calls -> {"idle", "done", "dead", "panic"} \cup Running]
      /\ arg \in [Calls -> AuthorizeArg \cup GetArg \cup {NoArg}]
  BY DEF EventInv, RowInv, TypeInv, TypeOK
<1>1. arg'[e] = arg[e] => Row(e).status' = Row(e).status
  BY DEF Row
<1>2. pc[e] = "publish" => Row(e).status = "Authorized"
  BY DEF EventInv, OnlyAuthorized
<1>3. ASSUME NEW c \in Calls, NEW a \in AuthorizeArg, AuthorizePayment(c, a)
      PROVE  Row(e).status' = "Authorized"
  BY <1>0, <1>1, <1>2, <1>3 DEF AuthorizePayment, Goto, Return
<1>4. ASSUME NEW c \in Calls, NEW a \in GetArg, GetPaymentStatus(c, a)
      PROVE  Row(e).status' = "Authorized"
  BY <1>0, <1>1, <1>2, <1>4 DEF GetPaymentStatus, Return
<1>5. ASSUME NEW c \in Calls, NEW a \in GetArg, GetPaymentStatusPanics(c, a)
      PROVE  Row(e).status' = "Authorized"
  BY <1>0, <1>5 DEF GetPaymentStatusPanics, Killed, Running
<1>6. ASSUME NEW c \in Calls, Handler(c)
      PROVE  Row(e).status' = "Authorized"
  <2>1. UNCHANGED arg
    BY <1>6 DEF Handler, GetByOrderID, Save, SaveConflict, SaveFails,
       PublishPaymentCompleted, AwaitConfirm, ConfirmsClosed, CtxDone
  <2>2. \/ Row(c).status = "Authorized" /\ pc' = [pc EXCEPT ![c] = "publish"]
        \/ \E l : l # "publish" /\ pc' = [pc EXCEPT ![c] = l]
    BY <1>6 DEF Handler, GetByOrderID, Save, AfterSave, SaveConflict, SaveFails,
       PublishPaymentCompleted, AwaitConfirm, ConfirmsClosed, CtxDone, Goto, Return
  <2> QED BY <1>0, <1>1, <1>2, <2>1, <2>2
<1>7. CASE Crash
  BY <1>0, <1>7 DEF Crash, Killed, Running
<1>8. CASE Broker \/ DeclareQueue \/ ConnectionLost \/ Restart \/ UNCHANGED vars
  BY <1>1, <1>2, <1>8
  DEF Broker, BrokerAck, BrokerNack, DeclareQueue, ConnectionLost, Restart,
      handlerVars, vars
<1> QED BY <1>3, <1>4, <1>5, <1>6, <1>7, <1>8 DEF Next

\* What the steps do to the wire and the queue: an event is added, the oldest
\* on the wire moves to the queue or is dropped, or the wire is cut and the
\* queue receives some of it.
Extended == /\ \E c \in Calls : pc[c] = "publish" /\ wire' = Append(wire, c)
                               /\ pc' = [pc EXCEPT ![c] = "confirm"]
            /\ UNCHANGED <<queue, payments, arg>>
Shifted == /\ wire # <<>> /\ wire' = Tail(wire)
           /\ queue' = queue \/ queue' = Append(queue, Head(wire))
Cut == /\ wire' = <<>>
       /\ \/ queue' = queue
          \/ \E n \in 0..Len(wire) : queue' = queue \o SubSeq(wire, 1, n)

LEMMA EventSteps ==
  ASSUME [Next]_vars
  PROVE  Extended \/ Shifted \/ Cut \/ UNCHANGED <<wire, queue>>
<1>1. ASSUME NEW c \in Calls, PublishPaymentCompleted(c)
      PROVE  Extended \/ UNCHANGED <<wire, queue>>
  <2>1. CASE open
    <3>1. wire' = Append(wire, c) /\ pc' = [pc EXCEPT ![c] = "confirm"]
      BY <1>1, <2>1, Zenon DEF PublishPaymentCompleted, Goto
    <3> QED BY <1>1, <3>1 DEF PublishPaymentCompleted, Extended, brokerVars
  <2>2. CASE ~open
    BY <1>1, <2>2 DEF PublishPaymentCompleted, brokerVars
  <2> QED BY <2>1, <2>2
<1>2. Disconnect => Cut
  BY DEF Disconnect, Cut
<1>3. BrokerAck \/ BrokerNack => Shifted
  BY DEF BrokerAck, BrokerNack, Shifted, brokerVars
<1>4. ASSUME NEW c \in Calls, Handler(c), ~PublishPaymentCompleted(c)
      PROVE  UNCHANGED <<wire, queue>>
  BY <1>4 DEF Handler, GetByOrderID, Save, SaveConflict, SaveFails, AwaitConfirm,
     ConfirmsClosed, CtxDone, brokerVars
<1> QED BY <1>1, <1>2, <1>3, <1>4
        DEF Next, Broker, AuthorizePayment, GetPaymentStatus, GetPaymentStatusPanics,
            DeclareQueue, ConnectionLost, Crash, Restart, brokerVars, vars

\* Where the elements of the wire and the queue come from after such a step.
LEMMA AfterShift ==
  ASSUME TypeOK, Shifted
  PROVE  /\ Len(wire) \in Nat \ {0} /\ Len(wire') = Len(wire) - 1
         /\ Head(wire) = wire[1]
         /\ \A i \in 1..Len(wire') : wire'[i] = wire[i + 1]
         /\ \/ queue' = queue
            \/ /\ Len(queue) \in Nat /\ Len(queue') = Len(queue) + 1
               /\ queue'[Len(queue) + 1] = wire[1]
               /\ \A i \in 1..Len(queue) : queue'[i] = queue[i]
<1>1. wire \in Seq(Calls) /\ queue \in Seq(Calls) /\ wire # <<>> /\ wire' = Tail(wire)
  BY DEF TypeOK, Shifted
<1>2. /\ Len(wire) \in Nat \ {0} /\ Len(wire') = Len(wire) - 1
      /\ Head(wire) = wire[1] /\ Head(wire) \in Calls
      /\ \A i \in 1..Len(wire') : wire'[i] = wire[i + 1]
  BY <1>1, HeadTailProperties
<1>3. CASE queue' = queue
  BY <1>2, <1>3
<1>4. CASE queue' = Append(queue, Head(wire))
  <2>1. /\ Len(queue) \in Nat /\ Len(queue') = Len(queue) + 1
        /\ queue'[Len(queue) + 1] = Head(wire)
        /\ \A i \in 1..Len(queue) : queue'[i] = queue[i]
    BY <1>1, <1>2, <1>4, AppendProperties
  <2> QED BY <1>2, <2>1
<1> QED BY <1>3, <1>4 DEF Shifted

LEMMA AfterCut ==
  ASSUME TypeOK, NEW n \in 0..Len(wire), queue' = queue \o SubSeq(wire, 1, n)
  PROVE  /\ Len(queue) \in Nat /\ Len(wire) \in Nat
         /\ Len(queue') = Len(queue) + n
         /\ \A i \in 1..Len(queue) : queue'[i] = queue[i]
         /\ \A i \in 1..Len(queue') : i > Len(queue) =>
              /\ i - Len(queue) \in 1..Len(wire)
              /\ queue'[i] = wire[i - Len(queue)]
<1>1. /\ wire \in Seq(Calls) /\ queue \in Seq(Calls)
      /\ Len(queue) \in Nat /\ Len(wire) \in Nat /\ n \in Nat /\ n <= Len(wire)
  BY DEF TypeOK
<1>2. /\ SubSeq(wire, 1, n) \in Seq(Calls) /\ Len(SubSeq(wire, 1, n)) = n
      /\ \A i \in 1..n : SubSeq(wire, 1, n)[i] = wire[i]
  <2>1. \A i \in 1..n : wire[i] \in Calls
    BY <1>1, ElementOfSeq
  <2> QED BY <1>1, <2>1, SubSeqProperties
<1>3. /\ Len(queue') = Len(queue) + n
      /\ \A i \in 1..Len(queue') :
           queue'[i] = IF i <= Len(queue) THEN queue[i]
                                          ELSE SubSeq(wire, 1, n)[i - Len(queue)]
  BY <1>1, <1>2, ConcatProperties
<1>4. \A i \in 1..Len(queue') : i > Len(queue) => i - Len(queue) \in 1..n
  BY <1>1, <1>3
<1>5. \A i \in 1..n : i \in 1..Len(wire)
  BY <1>1
<1>6. \A i \in 1..Len(queue) : i \in 1..Len(queue') /\ i <= Len(queue)
  BY <1>1, <1>3
<1>7. \A i \in 1..Len(queue') : i > Len(queue) => ~(i <= Len(queue))
  BY <1>1, <1>3
<1> QED BY <1>1, <1>2, <1>3, <1>4, <1>5, <1>6, <1>7

LEMMA EventsStayOnce ==
  ASSUME EventInv, [Next]_vars
  PROVE  EventsOnce' /\ AllAnnounced'
<1>0. /\ TypeOK /\ RowInv /\ Len(wire) \in Nat /\ Len(queue) \in Nat
      /\ wire \in Seq(Calls) /\ queue \in Seq(Calls)
  BY DEF EventInv, RowInv, TypeInv, TypeOK
<1>a. /\ \A i \in 1..Len(wire) : wire[i] \in Calls /\ Announced(wire[i])
      /\ \A i \in 1..Len(queue) : queue[i] \in Calls /\ Announced(queue[i])
  BY <1>0 DEF EventInv, AllAnnounced
<1>b. \A e \in Calls : Announced(e) => Announced(e)'
  BY <1>0, AnnouncedStays
<1>1. CASE UNCHANGED <<wire, queue>>
  BY <1>1, <1>a, <1>b DEF EventInv, EventsOnce, AllAnnounced
<1>2. CASE Extended
  <2>1. PICK c \in Calls : /\ pc[c] = "publish" /\ wire' = Append(wire, c)
                           /\ pc' = [pc EXCEPT ![c] = "confirm"]
    BY <1>2 DEF Extended
  <2>2. /\ Len(wire') = Len(wire) + 1 /\ wire'[Len(wire) + 1] = c
        /\ \A i \in 1..Len(wire) : wire'[i] = wire[i]
        /\ queue' = queue
    BY <1>0, <1>2, <2>1, AppendProperties DEF Extended
  <2>3. \A i \in 1..Len(wire') : i \in 1..Len(wire) \/ i = Len(wire) + 1
    BY <1>0, <2>2
  <2>4. /\ \A i \in 1..Len(wire) : wire[i] # c
        /\ \A i \in 1..Len(queue) : queue[i] # c
    BY <1>a, <2>1 DEF Announced
  <2>5. Announced(c)'
    <3>1. Row(c)' = Row(c) /\ payments' = payments
      BY <1>2 DEF Extended, Row
    <3>2. pc'[c] = "confirm"
      BY <1>0, <2>1 DEF TypeOK
    <3>3. Row(c) \in payments /\ Row(c).status = "Authorized"
      BY <2>1 DEF EventInv, RowInv, SavedFirst, OnlyAuthorized
    <3> QED BY <3>1, <3>2, <3>3 DEF Announced
  <2>6. AllAnnounced'
    BY <1>a, <1>b, <2>2, <2>3, <2>5 DEF AllAnnounced
  <2>7. EventsOnce'
    BY <2>2, <2>3, <2>4 DEF EventInv, EventsOnce
  <2> QED BY <2>6, <2>7
<1>3. CASE Shifted
  <2>1. /\ Len(wire') = Len(wire) - 1
        /\ \A i \in 1..Len(wire') : wire'[i] = wire[i + 1]
        /\ 1 \in 1..Len(wire)
    BY <1>0, <1>3, AfterShift
  <2>2. \A i \in 1..Len(wire') : i + 1 \in 1..Len(wire) /\ i + 1 # 1
    BY <1>0, <2>1
  <2>3. \A i, j \in 1..Len(wire') : wire'[i] = wire'[j] => i = j
    <3> SUFFICES ASSUME NEW i \in 1..Len(wire'), NEW j \in 1..Len(wire'),
                        wire'[i] = wire'[j]
                 PROVE  i = j
      OBVIOUS
    <3>1. i + 1 = j + 1
      BY <2>1, <2>2 DEF EventInv, EventsOnce
    <3> QED BY <3>1
  <2>4. CASE queue' = queue
    <3>1. EventsOnce'
      BY <2>1, <2>2, <2>3, <2>4 DEF EventInv, EventsOnce
    <3>2. AllAnnounced'
      BY <1>a, <1>b, <2>1, <2>2, <2>4 DEF AllAnnounced
    <3> QED BY <3>1, <3>2
  <2>5. CASE queue' # queue
    <3>1. /\ Len(queue') = Len(queue) + 1 /\ queue'[Len(queue) + 1] = wire[1]
          /\ \A i \in 1..Len(queue) : queue'[i] = queue[i]
      BY <1>0, <1>3, <2>5, AfterShift
    <3>2. \A i \in 1..Len(queue') : i \in 1..Len(queue) \/ i = Len(queue) + 1
      BY <1>0, <3>1
    <3>3. AllAnnounced'
      BY <1>a, <1>b, <2>1, <2>2, <3>1, <3>2 DEF AllAnnounced
    <3>4. \A i \in 1..Len(wire') : wire'[i] # wire[1]
      BY <2>1, <2>2 DEF EventInv, EventsOnce
    <3>5. \A i \in 1..Len(queue) : queue[i] # wire[1]
      BY <2>1 DEF EventInv, EventsOnce
    <3>6. \A i, j \in 1..Len(queue') : queue'[i] = queue'[j] => i = j
      BY <3>1, <3>2, <3>5 DEF EventInv, EventsOnce
    <3>7. \A i \in 1..Len(queue'), j \in 1..Len(wire') : queue'[i] # wire'[j]
      BY <2>1, <2>2, <3>1, <3>2, <3>4 DEF EventInv, EventsOnce
    <3> QED BY <2>3, <3>3, <3>6, <3>7 DEF EventsOnce
  <2> QED BY <2>4, <2>5
<1>4. CASE Cut
  <2>1. Len(wire') = 0
    BY <1>4 DEF Cut
  <2>2. CASE queue' = queue
    BY <1>a, <1>b, <2>1, <2>2 DEF EventInv, EventsOnce, AllAnnounced
  <2>3. ASSUME NEW n \in 0..Len(wire), queue' = queue \o SubSeq(wire, 1, n)
        PROVE  EventsOnce' /\ AllAnnounced'
    <3>1. \A i \in 1..Len(queue') :
            \/ i \in 1..Len(queue) /\ queue'[i] = queue[i]
            \/ /\ i > Len(queue) /\ i - Len(queue) \in 1..Len(wire)
               /\ queue'[i] = wire[i - Len(queue)]
      BY <1>0, <2>3, AfterCut
    <3>2. AllAnnounced'
      BY <1>a, <1>b, <2>1, <3>1, SMTT(30) DEF AllAnnounced
    <3>3. \A i, j \in 1..Len(queue') : queue'[i] = queue'[j] => i = j
      <4> SUFFICES ASSUME NEW i \in 1..Len(queue'), NEW j \in 1..Len(queue'),
                          queue'[i] = queue'[j]
                   PROVE  i = j
        OBVIOUS
      <4>1. CASE i \in 1..Len(queue) /\ j \in 1..Len(queue)
        BY <1>0, <3>1, <4>1 DEF EventInv, EventsOnce
      <4>2. CASE i > Len(queue) /\ j > Len(queue)
        <5>1. i - Len(queue) = j - Len(queue)
          BY <1>0, <3>1, <4>2 DEF EventInv, EventsOnce
        <5> QED BY <1>0, <5>1
      <4>3. CASE i \in 1..Len(queue) /\ j > Len(queue)
        BY <1>0, <3>1, <4>3 DEF EventInv, EventsOnce
      <4>4. CASE j \in 1..Len(queue) /\ i > Len(queue)
        BY <1>0, <3>1, <4>4 DEF EventInv, EventsOnce
      <4> QED BY <3>1, <4>1, <4>2, <4>3, <4>4
    <3> QED BY <2>1, <3>2, <3>3 DEF EventsOnce
  <2> QED BY <1>4, <2>2, <2>3 DEF Cut
<1> QED BY <1>1, <1>2, <1>3, <1>4, EventSteps

LEMMA EventsAlways == Spec => []EventInv
<1>1. EventInv /\ [Next]_vars => EventInv'
  BY NextRows, PublishAuthorized, EventsStayOnce DEF EventInv
<1> QED BY <1>1, InitEvents, PTL DEF Spec

(***************************************************************************)
(* Every event that is on the wire or in the queue announces a committed,  *)
(* authorized payment, and no two announce the same order                  *)
(* (authorize_payment.go:74, publisher.go:81), whatever is lost.           *)
(***************************************************************************)
THEOREM EventsAreBacked == Spec => []EventsBacked
<1>1. EventInv => EventsBacked
  <2> SUFFICES ASSUME EventInv PROVE EventsBacked
    OBVIOUS
  <2>1. /\ wire \in Seq(Calls) /\ queue \in Seq(Calls)
        /\ Len(wire) \in Nat /\ Len(queue) \in Nat
    BY DEF EventInv, RowInv, TypeInv, TypeOK
  <2>2. /\ Len(Events) = Len(queue) + Len(wire)
        /\ \A i \in 1..Len(Events) :
             \/ i \in 1..Len(queue) /\ Events[i] = queue[i]
             \/ /\ i > Len(queue) /\ i - Len(queue) \in 1..Len(wire)
                /\ Events[i] = wire[i - Len(queue)]
    BY <2>1, ConcatProperties DEF Events
  <2>3. \A i \in 1..Len(Events) : Events[i] \in Calls /\ Announced(Events[i])
    BY <2>1, <2>2, SMTT(30) DEF EventInv, AllAnnounced
  <2>4. \A i, j \in 1..Len(Events) : Events[i] = Events[j] => i = j
    <3> SUFFICES ASSUME NEW i \in 1..Len(Events), NEW j \in 1..Len(Events),
                        Events[i] = Events[j]
                 PROVE  i = j
      OBVIOUS
    <3>1. CASE i \in 1..Len(queue) /\ j \in 1..Len(queue)
      BY <2>1, <2>2, <3>1 DEF EventInv, EventsOnce
    <3>2. CASE i > Len(queue) /\ j > Len(queue)
      <4>1. i - Len(queue) = j - Len(queue)
        BY <2>1, <2>2, <3>2 DEF EventInv, EventsOnce
      <4> QED BY <2>1, <4>1
    <3>3. CASE i \in 1..Len(queue) /\ j > Len(queue)
      BY <2>1, <2>2, <3>3, SMTT(30) DEF EventInv, EventsOnce
    <3>4. CASE j \in 1..Len(queue) /\ i > Len(queue)
      BY <2>1, <2>2, <3>4 DEF EventInv, EventsOnce
    <3> QED BY <2>2, <3>1, <3>2, <3>3, <3>4
  <2>5. \A c \in Calls : Row(c).id = c /\ Row(c).order = arg[c].order
    BY DEF Row
  <2>6. \A c, d \in Calls :
          Announced(c) /\ Announced(d) /\ arg[c].order = arg[d].order => c = d
    BY <2>5 DEF EventInv, RowInv, OnePaymentPerOrder, Announced
  <2>7. \A i \in 1..Len(Events) :
          \E p \in payments : p.id = Events[i] /\ p.status = "Authorized"
    BY <2>3, <2>5 DEF Announced
  <2>8. \A i, j \in 1..Len(Events) :
          arg[Events[i]].order = arg[Events[j]].order => i = j
    BY <2>3, <2>4, <2>6
  <2> QED BY <2>7, <2>8 DEF EventsBacked
<1> QED BY <1>1, EventsAlways, PTL

-----------------------------------------------------------------------------
\* No handler outlives its process.
NobodyWhenDown == ~up => \A c \in Calls : pc[c] \notin Running

(***************************************************************************)
(* WaitersCovered counts.  It survives a restart, which opens a connection *)
(* with nothing on its way, only because nobody is waiting by then.        *)
(***************************************************************************)
WaitInv == TypeInv /\ NobodyWhenDown /\ WaitersCovered

LEMMA WaitingFinite == IsFiniteSet(Waiting) /\ Cardinality(Waiting) \in Nat
  BY PaymentAssumption, FS_Subset, FS_CardinalityType DEF Waiting

LEMMA OneMoreWaits ==
  ASSUME NEW S, NEW c, IsFiniteSet(S)
  PROVE  Cardinality(S \cup {c}) <= Cardinality(S) + 1
<1>1. Cardinality(S) \in Nat
  BY FS_CardinalityType
<1> QED BY <1>1, FS_AddElement

LEMMA OneLessWaits ==
  ASSUME NEW S, NEW c \in S, IsFiniteSet(S)
  PROVE  Cardinality(S \ {c}) = Cardinality(S) - 1
  BY FS_RemoveElement

LEMMA InitWait == Init => WaitInv
<1> SUFFICES ASSUME Init PROVE WaitInv
  OBVIOUS
<1>1. NobodyWhenDown
  BY DEF Init, NobodyWhenDown
<1>2. Waiting = {}
  BY DEF Init, Waiting
<1>3. Len(wire) = 0 /\ Len(confirms) = 0
  BY DEF Init
<1>4. WaitersCovered
  BY <1>2, <1>3, FS_EmptySet DEF WaitersCovered
<1> QED BY <1>1, <1>4, InitType DEF WaitInv

LEMMA NextDown ==
  ASSUME WaitInv, [Next]_vars
  PROVE  NobodyWhenDown'
<1> SUFFICES ASSUME ~up', NEW e \in Calls
             PROVE  pc'[e] \notin Running
  BY DEF NobodyWhenDown
<1> USE DEF Running
<1>0. pc \in [Calls -> {"idle", "done", "dead", "panic"} \cup Running]
  BY DEF WaitInv, TypeInv, TypeOK
<1>1. CASE Crash \/ \E c \in Calls, a \in GetArg : GetPaymentStatusPanics(c, a)
  BY <1>0, <1>1 DEF Crash, GetPaymentStatusPanics, Killed
<1>2. CASE ~Crash /\ ~\E c \in Calls, a \in GetArg : GetPaymentStatusPanics(c, a)
  <2>1. ~Restart
    BY DEF Restart
  <2>2. ~up
    BY <1>2, <2>1
    DEF Next, Handler, GetByOrderID, Save, SaveConflict, SaveFails, AuthorizePayment,
        GetPaymentStatus, PublishPaymentCompleted, AwaitConfirm, ConfirmsClosed, CtxDone,
        Broker, BrokerAck, BrokerNack, DeclareQueue, ConnectionLost, processVars, vars
  <2>3. \A c \in Calls : pc[c] \notin Running
    BY <2>2 DEF WaitInv, NobodyWhenDown
  <2>4. UNCHANGED pc
    BY <1>2, <2>1, <2>2, <2>3
    DEF Next, Handler, GetByOrderID, Save, SaveConflict, SaveFails, AuthorizePayment,
        GetPaymentStatus, PublishPaymentCompleted, AwaitConfirm, ConfirmsClosed, CtxDone,
        Broker, BrokerAck, BrokerNack, DeclareQueue, ConnectionLost, handlerVars, vars
  <2> QED BY <2>3, <2>4
<1> QED BY <1>1, <1>2

\* What can happen to the handlers that wait and to what they wait for, while
\* the connection is open.
LEMMA NextCovered ==
  ASSUME WaitInv, [Next]_vars, open'
  PROVE  Cardinality(Waiting') <= Len(wire') + Len(confirms')
<1>0. /\ wire \in Seq(Calls) /\ confirms \in Seq(Confirmation)
      /\ Len(wire) \in Nat /\ Len(confirms) \in Nat
      /\ pc \in [Calls -> {"idle", "done", "dead", "panic"} \cup Running]
  BY DEF WaitInv, TypeInv, TypeOK
<1>f. IsFiniteSet(Waiting) /\ Cardinality(Waiting) \in Nat
  BY WaitingFinite
<1>1. CASE Restart
  <2>1. Waiting' = {}
    BY <1>1 DEF Restart, WaitInv, NobodyWhenDown, Running, Waiting, handlerVars
  <2>2. UNCHANGED <<wire, confirms>>
    BY <1>1 DEF Restart
  <2> QED BY <1>0, <2>1, <2>2, FS_EmptySet
<1>2. CASE \/ Crash \/ ConnectionLost
           \/ \E c \in Calls, a \in GetArg : GetPaymentStatusPanics(c, a)
  BY <1>2 DEF Crash, ConnectionLost, GetPaymentStatusPanics, Disconnect
<1>o. CASE open
  <2>0. Cardinality(Waiting) <= Len(wire) + Len(confirms)
    BY <1>o DEF WaitInv, WaitersCovered
  <2>1. ASSUME NEW c \in Calls, PublishPaymentCompleted(c)
        PROVE  Cardinality(Waiting') <= Len(wire') + Len(confirms')
    <3>1. wire' = Append(wire, c) /\ pc' = [pc EXCEPT ![c] = "confirm"]
          /\ UNCHANGED confirms
      BY <1>o, <2>1, Zenon DEF PublishPaymentCompleted, Goto
    <3>2. Waiting' = Waiting \cup {c}
      BY <1>0, <3>1 DEF Waiting
    <3>3. Len(wire') = Len(wire) + 1
      BY <1>0, <3>1, AppendProperties
    <3>4. Cardinality(Waiting') <= Cardinality(Waiting) + 1
      BY <1>f, <3>2, OneMoreWaits
    <3>5. Cardinality(Waiting') \in Nat
      BY <1>f, <3>2, FS_AddElement, FS_CardinalityType
    <3> QED BY <1>0, <1>f, <2>0, <3>1, <3>3, <3>4, <3>5
  <2>2. ASSUME NEW c \in Calls, AwaitConfirm(c)
        PROVE  Cardinality(Waiting') <= Len(wire') + Len(confirms')
    <3>1. Waiting' = Waiting \ {c} /\ c \in Waiting
      BY <1>0, <2>2 DEF AwaitConfirm, Return, Waiting
    <3>2. Len(confirms') = Len(confirms) - 1 /\ wire' = wire
      BY <1>0, <2>2, HeadTailProperties DEF AwaitConfirm
    <3>3. Cardinality(Waiting') = Cardinality(Waiting) - 1
      BY <1>f, <3>1, OneLessWaits
    <3> QED BY <1>0, <1>f, <2>0, <3>2, <3>3
  <2>3. CASE BrokerAck \/ BrokerNack
    <3>1. Waiting' = Waiting
      BY <2>3 DEF BrokerAck, BrokerNack, handlerVars, Waiting
    <3>2. Len(wire') = Len(wire) - 1
      BY <1>0, <2>3, HeadTailProperties DEF BrokerAck, BrokerNack
    <3>3. Len(confirms') = Len(confirms) + 1
      <4>1. PICK ack \in BOOLEAN :
              confirms' = Append(confirms, [id |-> Head(wire), ack |-> ack])
        BY <2>3 DEF BrokerAck, BrokerNack
      <4>2. Head(wire) \in Calls
        BY <1>0, <2>3, HeadTailProperties DEF BrokerAck, BrokerNack
      <4>3. [id |-> Head(wire), ack |-> ack] \in Confirmation
        BY <4>2 DEF Confirmation
      <4> QED BY <1>0, <4>1, <4>3, AppendProperties
    <3> QED BY <1>0, <1>f, <2>0, <3>1, <3>2, <3>3
  <2>4. ASSUME Waiting' \subseteq Waiting, UNCHANGED <<wire, confirms>>
        PROVE  Cardinality(Waiting') <= Len(wire') + Len(confirms')
    <3>1. /\ Cardinality(Waiting') <= Cardinality(Waiting)
          /\ IsFiniteSet(Waiting')
      BY <1>f, <2>4, FS_Subset
    <3>2. Cardinality(Waiting') \in Nat
      BY <3>1, FS_CardinalityType
    <3> QED BY <1>0, <1>f, <2>0, <2>4, <3>1, <3>2
  <2>5. ASSUME NEW c \in Calls, Handler(c), ~AwaitConfirm(c), ~PublishPaymentCompleted(c)
        PROVE  Waiting' \subseteq Waiting /\ UNCHANGED <<wire, confirms>>
    BY <1>0, <2>5
    DEF Handler, GetByOrderID, Save, AfterSave, SaveConflict, SaveFails, ConfirmsClosed,
        CtxDone, Goto, Return, Waiting
  <2>6. ASSUME NEW c \in Calls, NEW a,
               AuthorizePayment(c, a) \/ GetPaymentStatus(c, a)
        PROVE  Waiting' \subseteq Waiting /\ UNCHANGED <<wire, confirms>>
    BY <1>0, <2>6 DEF AuthorizePayment, GetPaymentStatus, Goto, Return, Waiting
  <2>7. DeclareQueue \/ UNCHANGED vars
          => Waiting' \subseteq Waiting /\ UNCHANGED <<wire, confirms>>
    BY DEF DeclareQueue, vars, handlerVars, Waiting
  <2> QED BY <1>1, <1>2, <2>1, <2>2, <2>3, <2>4, <2>5, <2>6, <2>7 DEF Next, Broker
<1>3. CASE ~open /\ ~Restart
  BY <1>2, <1>3
  DEF Next, Handler, GetByOrderID, Save, SaveConflict, SaveFails, AuthorizePayment,
      GetPaymentStatus, PublishPaymentCompleted, AwaitConfirm, ConfirmsClosed, CtxDone,
      Broker, BrokerAck, BrokerNack, DeclareQueue, processVars, vars
<1> QED BY <1>1, <1>o, <1>3

(***************************************************************************)
(* On an open connection no handler waits for a confirmation that will not *)
(* come (publisher.go:101-104), although handlers take each other's        *)
(* confirmations and may give up: for any number of them.                  *)
(***************************************************************************)
THEOREM WaitersAreCovered == Spec => []WaitersCovered
<1>1. WaitInv /\ [Next]_vars => WaitInv'
  <2> SUFFICES ASSUME WaitInv, [Next]_vars PROVE WaitInv'
    OBVIOUS
  <2>1. TypeInv'
    BY NextType DEF WaitInv
  <2>2. WaitersCovered'
    BY NextCovered DEF WaitersCovered
  <2> QED BY <2>1, <2>2, NextDown DEF WaitInv
<1>2. WaitInv => WaitersCovered
  BY DEF WaitInv
<1> QED BY <1>1, <1>2, InitWait, PTL DEF Spec
=============================================================================

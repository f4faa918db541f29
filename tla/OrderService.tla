----------------------------- MODULE OrderService -----------------------------
(***************************************************************************)
(* order-service: the use cases CreateOrder, GetOrder and CancelOrder, the *)
(* tables orders and idempotency_keys, the Redis cache of orders, and the  *)
(* adapter that calls payment-service.  HTTP requests run concurrently;    *)
(* every statement that reads or writes a store or calls the other service *)
(* is a step of its own.  payment-service is what PaymentLedger says.      *)
(*                                                                         *)
(* A request is identified with the one call it makes to payment-service.  *)
(***************************************************************************)
EXTENDS Integers, Wire

CONSTANTS Reqs,      \* slots for HTTP requests in progress
          Orders,    \* the order ids that may be minted
          Keys,      \* the idempotency keys
          Amounts,   \* the amounts, in cents, that requests carry
          NoKey,     \* a request without an Idempotency-Key header
          NoOrder,   \* no order
          NoArg,     \* the argument of a call not yet made
          Adapter,   \* "grpc" (the one main wires) or "rest"
          HasCache   \* ORDER_REDIS_ADDR is set

ASSUME OrderAssumption ==
  /\ NoOrder \notin Orders
  /\ NoKey \notin Keys
  /\ Amounts \subseteq Int
  /\ Adapter \in {"grpc", "rest"}
  /\ HasCache \in BOOLEAN

VARIABLES
  orders,      \* order -> its status, or "None"
  amount,      \* order -> its amount, 0 when there is no order
  keys,        \* idempotency key -> its order, or NoOrder
  cache,       \* order -> the status cached for it, or "Miss"
  pc,          \* request -> the statement it is at
  key,         \* request -> its idempotency key
  ord,         \* request -> the order it works on
  seen,        \* request -> the status in its copy of the order
  target,      \* request -> the status it is about to write
  result,      \* request -> what the use case returns
  unanswered,  \* history: orders with a payment call that got no answer
  ledger, arg, st  \* the payment service, see PaymentLedger

storeVars == <<orders, amount, keys>>
paymentVars == <<ledger, arg, st>>
vars == <<orders, amount, keys, cache, pc, key, ord, seen, target, result,
          unanswered, ledger, arg, st>>

Payments == INSTANCE PaymentLedger WITH Calls <- Reqs, Blank <- NoOrder

-----------------------------------------------------------------------------
Terminal == {"Paid", "Failed", "Cancelled"}
Status == {"Pending"} \cup Terminal

Results == {"none", "ok", "invalid", "unavailable", "error", "notfound",
            "conflict", "lost"}

InProgress == {"authorize", "await", "reconcile", "update", "invalidate",
               "fresh", "load", "fill"}

\* repo.GetByID: the status in the row, no row, or an error.
GetByID(o) == {orders[o], "error"}

Goto(r, l) == pc' = [pc EXCEPT ![r] = l]

\* The use case returns; s is the status of the order in the response.
Reply(r, res, s) ==
  /\ Goto(r, "done")
  /\ result' = [result EXCEPT ![r] = res]
  /\ seen' = [seen EXCEPT ![r] = s]

-----------------------------------------------------------------------------
\* POST /orders with a body that the binding or the use case rejects.
RejectInput(r, a) ==
  /\ pc[r] = "idle"
  /\ a <= 0
  /\ Reply(r, "invalid", "None")
  /\ UNCHANGED <<storeVars, cache, key, ord, target, unanswered, paymentVars>>

\* The look-up has lost its WHERE clause and finds the order of any key.
LoadByKeyAny(r, k) ==
  \E l \in Keys :
    /\ pc[r] = "idle"
    /\ k \in Keys /\ keys[l] # NoOrder
    /\ key' = [key EXCEPT ![r] = k]
    /\ ord' = [ord EXCEPT ![r] = keys[l]]
    /\ seen' = [seen EXCEPT ![r] = orders[keys[l]]]
    /\ Goto(r, "authorize")
    /\ UNCHANGED <<storeVars, cache, target, result, unanswered, paymentVars>>

\* CreatePendingWithIdempotency when the key is known: the stored order,
\* whatever the body says.  A terminal order is returned at once.
LoadByKey(r, k) ==
  /\ pc[r] = "idle"
  /\ k \in Keys /\ keys[k] # NoOrder
  /\ key' = [key EXCEPT ![r] = k]
  /\ ord' = [ord EXCEPT ![r] = keys[k]]
  /\ IF orders[keys[k]] \in Terminal
     THEN Reply(r, "ok", orders[keys[k]])
     ELSE /\ Goto(r, "authorize")
          /\ seen' = [seen EXCEPT ![r] = orders[keys[k]]]
          /\ UNCHANGED result
  /\ UNCHANGED <<storeVars, cache, target, unanswered, paymentVars>>

\* The committed transaction that mints order o.
Insert(k, a, o) ==
  /\ orders[o] = "None"
  /\ orders' = [orders EXCEPT ![o] = "Pending"]
  /\ amount' = [amount EXCEPT ![o] = a]
  /\ keys' = IF k = NoKey THEN keys ELSE [keys EXCEPT ![k] = o]

Unknown(k) == k \in Keys => keys[k] = NoOrder

\* CreatePendingWithIdempotency when there is no key or it is new.  The
\* advisory lock makes lookup and insert one step for a key.
InsertPending(r, k, a, o) ==
  /\ pc[r] = "idle"
  /\ a > 0
  /\ Unknown(k)
  /\ Insert(k, a, o)
  /\ key' = [key EXCEPT ![r] = k]
  /\ ord' = [ord EXCEPT ![r] = o]
  /\ seen' = [seen EXCEPT ![r] = "Pending"]
  /\ Goto(r, "authorize")
  /\ UNCHANGED <<cache, target, result, unanswered, paymentVars>>

\* The transaction fails, or its commit is not acknowledged.
CreateFails(r, k, a, o) ==
  /\ pc[r] = "idle"
  /\ a > 0
  /\ \/ UNCHANGED storeVars
     \/ Unknown(k) /\ Insert(k, a, o)
  /\ Reply(r, "error", "None")
  /\ UNCHANGED <<cache, key, ord, target, unanswered, paymentVars>>

-----------------------------------------------------------------------------
RequestZero == [order_id |-> NoOrder, amount |-> 0, customer_email |-> FALSE]
ResponseZero == [status |-> ""]

\* The client's half of the call: the request is put on the wire.  Of the
\* address it matters only that it is not blank, which was checked.
SendRequest(o, a) ==
  Marshal(IF Adapter = "rest" THEN RestClientBody ELSE OrderServiceRequest,
          RequestZero, [order_id |-> o, amount |-> a, customer_email |-> TRUE])

\* payment-service's half: what its handler finds in the request.
ReceiveRequest(w) ==
  Unmarshal(IF Adapter = "rest" THEN createPaymentRequest ELSE PaymentServiceRequest,
            RequestZero, w)

\* The argument that a call for order o and amount a has in payment-service.
CallArg(o, a) ==
  LET req == ReceiveRequest(SendRequest(o, a))
  IN [kind |-> "authorize", order |-> req.order_id, amount |-> req.amount,
      email |-> req.customer_email]

\* The status in the response to a successful call, as the adapter finds it.
Received(status) ==
  LET w == Marshal(IF Adapter = "rest" THEN createPaymentResponse
                   ELSE PaymentServiceResponse, ResponseZero, [status |-> status])
      resp == Unmarshal(IF Adapter = "rest" THEN paymentAPIResponse
                        ELSE OrderServiceResponse, ResponseZero, w)
  IN resp.status

\* The amount in the body of the request is charged, not the order's.
AuthorizeBodyAmount(r) ==
  /\ pc[r] = "authorize"
  /\ \E a \in {b \in Amounts : b > 0} : Payments!Send(r, CallArg(ord[r], a))
  /\ Goto(r, "await")
  /\ UNCHANGED <<storeVars, cache, key, ord, seen, target, result, unanswered>>

\* The adapter makes the call.
Authorize(r) ==
  /\ pc[r] = "authorize"
  /\ Payments!Send(r, CallArg(ord[r], amount[ord[r]]))
  /\ Goto(r, "await")
  /\ UNCHANGED <<storeVars, cache, key, ord, seen, target, result, unanswered>>

\* A payment that exists is taken for one that was authorized.
TranslateExistsAsPaid(answer) ==
  CASE answer \in Payments!PaymentStatus -> answer
    [] answer = "invalid" -> "invalid"
    [] answer = "exists" -> "Authorized"
    [] OTHER -> "unavailable"

\* Every failure of the call ends as an error that fails the order.
TranslateFailureAsOther(answer) ==
  CASE answer \in Payments!PaymentStatus -> answer
    [] answer = "invalid" -> "invalid"
    [] OTHER -> "other"

\* REST reports a conflict like any other failure.
TranslateConflictHidden(answer) ==
  CASE answer \in Payments!PaymentStatus -> answer
    [] answer = "invalid" -> "invalid"
    [] OTHER -> "unavailable"

\* What the adapter makes of an answer.  Over gRPC "payment already
\* exists" is codes.Internal, like any other failure; over REST it is 409.
Translate(answer) ==
  CASE answer \in Payments!PaymentStatus -> Received(answer)
    [] answer = "invalid" -> "invalid"
    [] answer = "exists" -> IF Adapter = "rest" THEN "recorded" ELSE "unavailable"
    [] OTHER -> "unavailable"

\* The error it makes of none: a deadline, a refused or a broken connection.
\* gRPC always has a status code for it, and none of these is Internal.
NoAnswer == IF Adapter = "rest" THEN {"unavailable", "other"} ELSE {"other"}

NewStatus(payStatus) == IF payStatus = "Authorized" THEN "Paid" ELSE "Failed"

Write(r, s) ==
  /\ target' = [target EXCEPT ![r] = s]
  /\ Goto(r, "update")

\* What CreateOrder does with the outcome of the call.
Continue(r, e) ==
  CASE e \in Payments!PaymentStatus ->
         Write(r, NewStatus(e)) /\ UNCHANGED <<seen, result>>
    [] e = "invalid" -> Reply(r, "invalid", "None") /\ UNCHANGED target
    [] e = "recorded" -> Goto(r, "reconcile") /\ UNCHANGED <<seen, target, result>>
    [] e = "unavailable" ->
         /\ Goto(r, "fresh")
         /\ result' = [result EXCEPT ![r] = "unavailable"]
         /\ UNCHANGED <<seen, target>>
    [] OTHER ->
         /\ Write(r, "Failed")
         /\ result' = [result EXCEPT ![r] = "error"]
         /\ UNCHANGED seen

Authorized(r) ==
  /\ pc[r] = "await"
  /\ st[r] \in Payments!Answers \ {"lost"}
  /\ Continue(r, Translate(st[r]))
  /\ UNCHANGED <<storeVars, cache, key, ord, unanswered, paymentVars>>

\* The gRPC call is made without a deadline: only a dead service ends the wait.
UnansweredNoDeadline(r) ==
  /\ pc[r] = "await"
  /\ st[r] = "lost"
  /\ \E e \in NoAnswer : Continue(r, e)
  /\ unanswered' = unanswered \cup {ord[r]}
  /\ UNCHANGED <<storeVars, cache, key, ord, paymentVars>>

\* The connection breaks, the client of the request goes away or, over gRPC, the
\* deadline of five seconds passes, wherever the call is: payment-service may
\* still carry it out.
Unanswered(r) ==
  /\ pc[r] = "await"
  /\ \E e \in NoAnswer : Continue(r, e)
  /\ unanswered' = unanswered \cup {ord[r]}
  /\ UNCHANGED <<storeVars, cache, key, ord, paymentVars>>

\* The order that payment-service is asked about: over REST the one in the path.
AskedAbout(o) ==
  LET zero == [order_id |-> NoOrder]
      w == Marshal(OrderServiceStatusRequest, zero, [order_id |-> o])
  IN IF Adapter = "rest" THEN o
     ELSE Unmarshal(PaymentServiceStatusRequest, zero, w).order_id

\* The status in its answer, as the adapter finds it.
StatusIn(status) ==
  LET w == Marshal(IF Adapter = "rest" THEN getPaymentResponse
                   ELSE PaymentServiceStatusResponse, ResponseZero, [status |-> status])
      resp == Unmarshal(IF Adapter = "rest" THEN RestClientStatus
                        ELSE OrderServiceStatusResponse, ResponseZero, w)
  IN resp.status

\* The adapter's GetStatus: the status of the payment, a service that is not
\* available, or an error, a payment that is not found among them.
GetStatus(o) ==
  {"unavailable", "error"}
    \cup {StatusIn(s) : s \in {ledger[AskedAbout(o)]} \ {"None"}}

\* reconcileFromPaymentService.
Reconcile(r) ==
  /\ pc[r] = "reconcile"
  /\ \E e \in GetStatus(ord[r]) :
       IF e = "error"
       THEN Reply(r, "error", "None") /\ UNCHANGED target
       ELSE Continue(r, e)
  /\ UNCHANGED <<storeVars, cache, key, ord, unanswered, paymentVars>>

-----------------------------------------------------------------------------
SetStatus(r) == orders' = [orders EXCEPT ![ord[r]] = target[r]]

\* repo.UpdateStatus writes whatever the row holds by now.
UpdateStatus(r) ==
  /\ pc[r] = "update"
  /\ SetStatus(r)
  /\ Goto(r, "invalidate")
  /\ UNCHANGED <<amount, keys, cache, key, ord, seen, target, result,
                 unanswered, paymentVars>>

\* The update fails, or is cancelled with the row written.  The error path of
\* CreateOrder, which has its error already, goes on regardless.
UpdateFails(r) ==
  /\ pc[r] = "update"
  /\ SetStatus(r) \/ UNCHANGED orders
  /\ IF result[r] = "error"
     THEN Goto(r, "invalidate") /\ UNCHANGED <<seen, result>>
     ELSE Reply(r, "error", "None")
  /\ UNCHANGED <<amount, keys, cache, key, ord, target, unanswered, paymentVars>>

\* The cache: each of its operations may fail.
Get(o) == {cache[o], "Miss"}
Set(o, s) == cache' \in {cache, [cache EXCEPT ![o] = s]}
Delete(o) == cache' \in {cache, [cache EXCEPT ![o] = "Miss"]}

\* cache.Delete, whose error is ignored.
Invalidate(r) ==
  /\ pc[r] = "invalidate"
  /\ Delete(ord[r])
  /\ IF result[r] = "error"
     THEN Goto(r, "fresh") /\ UNCHANGED <<seen, result>>
     ELSE Reply(r, "ok", target[r])
  /\ UNCHANGED <<storeVars, key, ord, target, unanswered, paymentVars>>

\* The order is read again for the response; a failed read is ignored.
Fresh(r) ==
  /\ pc[r] = "fresh"
  /\ \E s \in GetByID(ord[r]) :
       Reply(r, result[r], CASE s # "error" -> s
                             [] result[r] = "error" -> "Failed"
                             [] OTHER -> seen[r])
  /\ UNCHANGED <<storeVars, cache, key, ord, target, unanswered, paymentVars>>

-----------------------------------------------------------------------------
\* GET /orders/:id: a hit is returned; a miss or a Redis error goes on.
GetOrder(r, o) ==
  /\ pc[r] = "idle"
  /\ ord' = [ord EXCEPT ![r] = o]
  /\ \E s \in Get(o) :
       IF s # "Miss"
       THEN Reply(r, "ok", s)
       ELSE Goto(r, "load") /\ UNCHANGED <<seen, result>>
  /\ UNCHANGED <<storeVars, cache, key, target, unanswered, paymentVars>>

\* The missing row is not noticed and goes into the cache.
LoadMissing(r) ==
  /\ pc[r] = "load"
  /\ Goto(r, "fill")
  /\ seen' = [seen EXCEPT ![r] = orders[ord[r]]]
  /\ UNCHANGED result
  /\ UNCHANGED <<storeVars, cache, key, ord, target, unanswered, paymentVars>>

Load(r) ==
  /\ pc[r] = "load"
  /\ \E s \in GetByID(ord[r]) :
       CASE s = "error" -> Reply(r, "error", "None")
         [] s = "None" -> Reply(r, "notfound", "None")
         [] s \in Status /\ ~HasCache -> Reply(r, "ok", s)
         [] OTHER -> /\ Goto(r, "fill")
                     /\ seen' = [seen EXCEPT ![r] = s]
                     /\ UNCHANGED result
  /\ UNCHANGED <<storeVars, cache, key, ord, target, unanswered, paymentVars>>

\* cache.Set of the copy read by Load, whose error is ignored.
Fill(r) ==
  /\ pc[r] = "fill"
  /\ Set(ord[r], seen[r])
  /\ Reply(r, "ok", seen[r])
  /\ UNCHANGED <<storeVars, key, ord, target, unanswered, paymentVars>>

\* The check of the status is left out.
CancelOrderUnchecked(r, o) ==
  /\ pc[r] = "idle"
  /\ ord' = [ord EXCEPT ![r] = o]
  /\ orders[o] # "None"
  /\ Write(r, "Cancelled")
  /\ seen' = [seen EXCEPT ![r] = orders[o]]
  /\ UNCHANGED <<storeVars, cache, key, result, unanswered, paymentVars>>

\* PATCH /orders/:id/cancel, up to the update.
CancelOrder(r, o) ==
  /\ pc[r] = "idle"
  /\ ord' = [ord EXCEPT ![r] = o]
  /\ \E s \in GetByID(o) :
       CASE s = "error" -> Reply(r, "error", "None") /\ UNCHANGED target
         [] s = "None" -> Reply(r, "notfound", "None") /\ UNCHANGED target
         [] s \in Terminal -> Reply(r, "conflict", "None") /\ UNCHANGED target
         [] OTHER -> /\ Write(r, "Cancelled")
                     /\ seen' = [seen EXCEPT ![r] = s]
                     /\ UNCHANGED result
  /\ UNCHANGED <<storeVars, cache, key, unanswered, paymentVars>>

-----------------------------------------------------------------------------
\* Keys are set without a TTL.
ExpireNever(o) == cache[o] # "Miss" /\ FALSE /\ UNCHANGED vars

\* Redis drops a key whose TTL has passed.
Expire(o) ==
  /\ cache[o] # "Miss"
  /\ cache' = [cache EXCEPT ![o] = "Miss"]
  /\ UNCHANGED <<storeVars, pc, key, ord, seen, target, result, unanswered,
                 paymentVars>>

\* order-service ends with requests in progress.
Crash ==
  /\ \E r \in Reqs : pc[r] \in InProgress
  /\ pc' = [r \in Reqs |-> IF pc[r] \in InProgress THEN "done" ELSE pc[r]]
  /\ result' = [r \in Reqs |-> IF pc[r] \in InProgress THEN "lost" ELSE result[r]]
  /\ UNCHANGED <<storeVars, cache, key, ord, seen, target, unanswered, paymentVars>>

\* A response is delivered and its slot is free for another request, a retry
\* among them, once payment-service is not working for it any more.
Retire(r) ==
  /\ pc[r] = "done"
  /\ st[r] \notin {"sent", "recorded"}
  /\ Goto(r, "idle")
  /\ key' = [key EXCEPT ![r] = NoKey]
  /\ ord' = [ord EXCEPT ![r] = NoOrder]
  /\ seen' = [seen EXCEPT ![r] = "None"]
  /\ target' = [target EXCEPT ![r] = "None"]
  /\ result' = [result EXCEPT ![r] = "none"]
  /\ arg' = [arg EXCEPT ![r] = NoArg]
  /\ st' = [st EXCEPT ![r] = "idle"]
  /\ UNCHANGED <<storeVars, cache, unanswered, ledger>>

orderVars == <<orders, amount, keys, cache, pc, key, ord, seen, target, result,
               unanswered>>

\* payment-service works on a call, or goes down.
PaymentStep(r) ==
  /\ Payments!Record(r) \/ Payments!Finish(r) \/ Payments!Refuse(r)
  /\ UNCHANGED orderVars

PaymentDies ==
  /\ \E r \in Reqs : st[r] \in {"sent", "recorded"}
  /\ Payments!Die
  /\ UNCHANGED orderVars

-----------------------------------------------------------------------------
Init ==
  /\ orders = [o \in Orders |-> "None"]
  /\ amount = [o \in Orders |-> 0]
  /\ keys = [k \in Keys |-> NoOrder]
  /\ cache = [o \in Orders |-> "Miss"]
  /\ pc = [r \in Reqs |-> "idle"]
  /\ key = [r \in Reqs |-> NoKey]
  /\ ord = [r \in Reqs |-> NoOrder]
  /\ seen = [r \in Reqs |-> "None"]
  /\ target = [r \in Reqs |-> "None"]
  /\ result = [r \in Reqs |-> "none"]
  /\ unanswered = {}
  /\ Payments!LedgerInit

\* A request arrives.
Arrive(r) ==
  \/ \E a \in Amounts : RejectInput(r, a)
  \/ \E k \in Keys : LoadByKey(r, k)
  \/ \E k \in Keys \cup {NoKey}, a \in Amounts, o \in Orders :
       InsertPending(r, k, a, o) \/ CreateFails(r, k, a, o)
  \/ \E o \in Orders : GetOrder(r, o) \/ CancelOrder(r, o)

\* A request in progress takes its next step: one that is up to order-service
\* and its stores, or the end of a wait for payment-service.
Proceed(r) ==
  \/ Authorize(r) \/ Authorized(r)
  \/ UpdateStatus(r) \/ UpdateFails(r) \/ Invalidate(r) \/ Fresh(r)
  \/ Load(r) \/ Fill(r)

WaitEnds(r) == Unanswered(r) \/ Reconcile(r)

Step(r) == Proceed(r) \/ WaitEnds(r)

Next ==
  \/ \E r \in Reqs : Arrive(r) \/ Step(r) \/ Retire(r) \/ PaymentStep(r)
  \/ \E o \in Orders : Expire(o)
  \/ Crash
  \/ PaymentDies

Spec == Init /\ [][Next]_vars

\* What bounds a wait: the gRPC adapter gives both its calls five seconds, the
\* REST adapter gives them no deadline.  Either learns of a service that died.
Bounded(r) == Adapter = "grpc" \/ st[r] = "lost"

\* Goroutines are scheduled, statements end, and so does a wait that is bounded;
\* Redis drops expired keys.
FairSpec ==
  /\ Spec
  /\ \A r \in Reqs : WF_vars(Proceed(r)) /\ WF_vars(WaitEnds(r) /\ Bounded(r))
  /\ \A o \in Orders : WF_vars(Expire(o))

\* A client that repeats its request until it has an answer, and services
\* that do not fail every time: payment-service works on its calls and now and
\* then tells in time that a payment exists, and a request gets through each
\* of its steps at one of its attempts.
Retrying(r) ==
  /\ WF_vars(Retire(r))
  /\ WF_vars(PaymentStep(r))
  /\ \A k \in Keys : SF_vars(LoadByKey(r, k))
  /\ SF_vars(PaymentStep(r) /\ pc[r] = "await" /\ st'[r] = "exists")
  /\ SF_vars(Authorize(r))
  /\ SF_vars(Authorized(r) /\ st[r] = "exists")
  /\ SF_vars(Reconcile(r) /\ pc'[r] = "update")
  /\ SF_vars(UpdateStatus(r))

-----------------------------------------------------------------------------
TypeOK ==
  /\ orders \in [Orders -> Status \cup {"None"}]
  /\ amount \in [Orders -> Amounts \cup {0}]
  /\ keys \in [Keys -> Orders \cup {NoOrder}]
  /\ cache \in [Orders -> Status \cup {"Miss"}]
  /\ pc \in [Reqs -> {"idle", "done"} \cup InProgress]
  /\ key \in [Reqs -> Keys \cup {NoKey}]
  /\ ord \in [Reqs -> Orders \cup {NoOrder}]
  /\ seen \in [Reqs -> Status \cup {"None"}]
  /\ target \in [Reqs -> Terminal \cup {"None"}]
  /\ result \in [Reqs -> Results]
  /\ unanswered \subseteq Orders
  /\ ledger \in [Orders -> Payments!PaymentStatus \cup {"None"}]
  /\ arg \in [Reqs -> Payments!AuthorizeArg \cup {NoArg}]
  /\ st \in [Reqs -> {"idle", "sent", "recorded"} \cup Payments!Answers]

(***************************************************************************)
(* Wherever an order is called paid - in its row, in the cache, in a       *)
(* response, in an update about to be written - payment-service holds an   *)
(* authorized payment for that very order (create_order.go:92-103 and      *)
(* :124-135), however calls, timeouts, retries and cancellations mix.      *)
(***************************************************************************)
PaidIsAuthorized ==
  /\ \A o \in Orders :
       orders[o] = "Paid" \/ cache[o] = "Paid" => ledger[o] = "Authorized"
  /\ \A r \in Reqs :
       seen[r] = "Paid" \/ target[r] = "Paid" => ledger[ord[r]] = "Authorized"

(***************************************************************************)
(* A payment belongs to an order that exists and was decided on the amount *)
(* stored with it, also when a retry carries the key with another amount   *)
(* (order_repo.go:77, create_order.go:64).                                 *)
(***************************************************************************)
ChargeMatchesOrder ==
  \A o \in Orders :
    ledger[o] # "None" => /\ orders[o] # "None"
                          /\ ledger[o] = Payments!Decide(amount[o])

(***************************************************************************)
(* Concurrent and repeated requests with one Idempotency-Key work on one   *)
(* order, and two keys never share one (order_repo.go:71-119).             *)
(***************************************************************************)
OneOrderPerKey ==
  /\ \A r \in Reqs : key[r] # NoKey => ord[r] = keys[key[r]]
  /\ \A k, l \in Keys : keys[k] # NoOrder /\ keys[k] = keys[l] => k = l

(***************************************************************************)
(* A failed order was declined, or one of its calls to payment-service     *)
(* went without an answer: an answer that is not a decline, "payment       *)
(* already exists" or "internal error", never fails an order               *)
(* (create_order.go:65-97, payment_client.go:50-61).                       *)
(***************************************************************************)
FailedHasCause ==
  \A o \in Orders :
    orders[o] = "Failed" => ledger[o] = "Declined" \/ o \in unanswered

(***************************************************************************)
(* A final status is overwritten only by a request that read the order     *)
(* while it was pending (create_order.go:58, cancel_order.go:27): one that *)
(* starts after the order was final leaves it alone.                       *)
(***************************************************************************)
OnlyStaleReadersOverwrite ==
  [][\A o \in Orders :
       orders[o] \in Terminal /\ orders'[o] # orders[o] =>
         \E r \in Reqs : pc[r] = "update" /\ ord[r] = o /\ seen[r] = "Pending"]_vars

(***************************************************************************)
(* Every request in progress ends, although nothing says that              *)
(* payment-service answers, and although other requests change the order   *)
(* under it: the gRPC adapter has a deadline (payment_client.go:40).  The  *)
(* REST adapter, which main does not wire, has none.                       *)
(***************************************************************************)
RequestsEnd ==
  \A r \in Reqs : pc[r] \in InProgress ~> pc[r] = "done"

(***************************************************************************)
(* A reader may put a status into the cache that the order no longer has   *)
(* (get_order.go:39-48), and a failed Delete may leave one there           *)
(* (create_order.go:39), but once the order keeps its status the cache     *)
(* ends up with nothing else: the TTL bounds what went wrong.              *)
(***************************************************************************)
CacheConverges ==
  \A o \in Orders, s \in Status :
    <>[](orders[o] = s) => <>[](cache[o] \in {"Miss", s})

(***************************************************************************)
(* create_order.go:63, of an order found pending by its key: "complete or  *)
(* reconcile payment".  An order whose payment was authorized does not     *)
(* stay pending while a client repeats the request (in one of the slots,   *)
(* which are interchangeable).                                             *)
(***************************************************************************)
PendingPaymentSettles ==
  Retrying(CHOOSE r \in Reqs : TRUE) =>
    \A k \in Keys, o \in Orders :
      keys[k] = o /\ orders[o] = "Pending" /\ ledger[o] = "Authorized"
        ~> orders[o] # "Pending"

(***************************************************************************)
(* create_order.go:73: "Leave order Pending: payment outcome is unknown    *)
(* (timeout / unreachable)."  An order is not failed while its payment is  *)
(* authorized.                                                             *)
(***************************************************************************)
FailedNotCharged ==
  \A o \in Orders : orders[o] = "Failed" => ledger[o] # "Authorized"
=============================================================================

-------------------------- MODULE OrderServiceProofs --------------------------
(***************************************************************************)
(* What OrderService guarantees for any number of requests, orders, keys   *)
(* and amounts, over either adapter, with or without a cache.              *)
(***************************************************************************)
EXTENDS OrderService, WireProofs

\* The order, its payment and its cache entry agree.
OrderOK(o) ==
  /\ orders[o] # "None" => amount[o] \in Amounts
  /\ ledger[o] # "None" => orders[o] # "None"
                           /\ ledger[o] = Payments!Decide(amount[o])
  /\ orders[o] = "Paid" \/ cache[o] = "Paid" => ledger[o] = "Authorized"
  /\ orders[o] = "Failed" => ledger[o] = "Declined" \/ o \in unanswered

KeysOK ==
  /\ \A k \in Keys : keys[k] # NoOrder => orders[keys[k]] # "None"
  /\ \A k, l \in Keys : keys[k] # NoOrder /\ keys[k] = keys[l] => k = l

StoreInv == (\A o \in Orders : OrderOK(o)) /\ KeysOK

\* The statements at which a request holds a copy of a pending order.
Paying == {"authorize", "await", "reconcile", "update"}

\* What a request knows of the order it works on.
PathOK(r) ==
  /\ pc[r] = "idle" => /\ st[r] = "idle" /\ key[r] = NoKey
                       /\ seen[r] = "None" /\ target[r] = "None"
  /\ pc[r] = "authorize" => st[r] = "idle"
  /\ pc[r] \in InProgress => ord[r] \in Orders
  /\ pc[r] \in Paying => seen[r] = "Pending" /\ orders[ord[r]] # "None"
  /\ pc[r] = "update" => target[r] # "None"
  /\ pc[r] = "fill" => seen[r] # "None"
  /\ key[r] # NoKey => keys[key[r]] # NoOrder /\ ord[r] = keys[key[r]]

\* A call is about a stored order and its amount, and what it was answered
\* is what payment-service holds.
CallOK(r) ==
  /\ st[r] # "idle" => /\ arg[r] \in Payments!AuthorizeArg
                       /\ arg[r].order \in Orders
                       /\ orders[arg[r].order] # "None"
                       /\ arg[r].amount = amount[arg[r].order]
  /\ pc[r] = "await" => st[r] # "idle" /\ arg[r].order = ord[r]
  /\ st[r] = "recorded" => ledger[arg[r].order] # "None"
  /\ st[r] \in Payments!PaymentStatus => ledger[arg[r].order] = st[r]

\* A status that is about to be written, cached or returned has its reason.
ReasonOK(r) ==
  /\ seen[r] = "Paid" \/ target[r] = "Paid" =>
       ord[r] \in Orders /\ ledger[ord[r]] = "Authorized"
  /\ target[r] = "Failed" =>
       ord[r] \in Orders /\ (ledger[ord[r]] = "Declined" \/ ord[r] \in unanswered)

ReqInv(r) == PathOK(r) /\ CallOK(r) /\ ReasonOK(r)

(***************************************************************************)
(* None of the properties is inductive by itself: a status is written some *)
(* steps after the answer it follows from was received, so the requests in *)
(* between carry the reason (ReasonOK), which rests on the answer being    *)
(* about their own order (CallOK, PathOK) and on payments being final.     *)
(***************************************************************************)
OrderInv == TypeOK /\ StoreInv /\ \A r \in Reqs : ReqInv(r)

-----------------------------------------------------------------------------
\* What no step takes back: orders and their amounts, payments, keys.
Grows ==
  /\ \A o \in Orders : orders[o] # "None" =>
                         orders'[o] # "None" /\ amount'[o] = amount[o]
  /\ \A o \in Orders : ledger[o] # "None" => ledger'[o] = ledger[o]
  /\ \A k \in Keys : keys[k] # NoOrder => keys'[k] = keys[k]
  /\ unanswered \subseteq unanswered'

\* The step does not change request r.
Same(r) ==
  /\ pc'[r] = pc[r] /\ key'[r] = key[r] /\ ord'[r] = ord[r]
  /\ seen'[r] = seen[r] /\ target'[r] = target[r]
  /\ arg'[r] = arg[r] /\ st'[r] = st[r]

LEMMA SameKeeps ==
  ASSUME OrderInv, Grows, NEW r \in Reqs, Same(r)
  PROVE  ReqInv(r)'
<1>0. /\ key[r] \in Keys \cup {NoKey} /\ NoKey \notin Keys
      /\ keys \in [Keys -> Orders \cup {NoOrder}]
  BY OrderAssumption DEF OrderInv, TypeOK
<1>1. PathOK(r)'
  BY <1>0 DEF OrderInv, ReqInv, PathOK, Grows, Same, Paying, InProgress
<1>2. CallOK(r)'
  BY DEF OrderInv, ReqInv, CallOK, Grows, Same, Payments!PaymentStatus,
         Payments!AuthorizeArg
<1>3. ReasonOK(r)'
  BY DEF OrderInv, ReqInv, ReasonOK, Grows, Same
<1> QED BY <1>1, <1>2, <1>3 DEF ReqInv

\* A step of one request keeps the invariant if it does so for that request
\* and the stores.
LEMMA OneRequest ==
  ASSUME OrderInv, TypeOK', StoreInv', Grows, NEW r \in Reqs, ReqInv(r)',
         \A q \in Reqs \ {r} : Same(q)
  PROVE  OrderInv'
  BY SameKeeps DEF OrderInv

\* Without a change of the stores the stores stay in order.
LEMMA StoresUnchanged ==
  ASSUME OrderInv, UNCHANGED <<orders, amount, keys, cache, ledger>>,
         unanswered \subseteq unanswered'
  PROVE  StoreInv' /\ Grows
  BY DEF OrderInv, StoreInv, OrderOK, KeysOK, Grows, Payments!Decide,
         Payments!MaxAuthorizedAmountCents

-----------------------------------------------------------------------------
LEMMA InitInv == Init => OrderInv
<1> SUFFICES ASSUME Init PROVE OrderInv
  OBVIOUS
<1> USE DEF Init, Payments!LedgerInit
<1>1. TypeOK
  BY DEF TypeOK, Status, Terminal, Results
<1>2. StoreInv
  BY DEF StoreInv, OrderOK, KeysOK
<1>3. \A r \in Reqs : ReqInv(r)
  BY DEF ReqInv, PathOK, CallOK, ReasonOK, InProgress, Paying,
         Payments!PaymentStatus
<1> QED BY <1>1, <1>2, <1>3 DEF OrderInv

\* Minting an order disturbs neither the stores nor what requests rely on.
LEMMA InsertKeeps ==
  ASSUME OrderInv, NEW k \in Keys \cup {NoKey}, NEW a \in Amounts, NEW o \in Orders,
         Unknown(k), Insert(k, a, o), UNCHANGED <<cache, ledger, unanswered>>
  PROVE  /\ StoreInv' /\ Grows
         /\ orders'[o] = "Pending" /\ (k # NoKey => keys'[k] = o)
         /\ orders' \in [Orders -> Status \cup {"None"}]
         /\ amount' \in [Orders -> Amounts \cup {0}]
         /\ keys' \in [Keys -> Orders \cup {NoOrder}]
<1> USE OrderAssumption DEF OrderInv, TypeOK, Insert, Unknown, Status, Terminal
<1>1. /\ orders' \in [Orders -> Status \cup {"None"}]
      /\ amount' \in [Orders -> Amounts \cup {0}]
      /\ keys' \in [Keys -> Orders \cup {NoOrder}]
  OBVIOUS
<1>2. Grows
  BY DEF Grows
<1>3. \A p \in Orders : OrderOK(p)'
  BY DEF StoreInv, OrderOK, Payments!Decide, Payments!MaxAuthorizedAmountCents
<1>4. KeysOK'
  BY <1>1 DEF StoreInv, KeysOK
<1> QED BY <1>1, <1>2, <1>3, <1>4 DEF StoreInv

LEMMA ArriveInv ==
  ASSUME OrderInv, NEW r \in Reqs, Arrive(r)
  PROVE  OrderInv'
<1> USE OrderAssumption
        DEF Goto, Reply, Write, storeVars, paymentVars, Status, Terminal, Results,
            InProgress
<1>1. ASSUME NEW a \in Amounts, RejectInput(r, a)
      PROVE  OrderInv'
  <2> USE <1>1 DEF RejectInput
  <2>1. TypeOK'
    BY DEF OrderInv, TypeOK
  <2>2. StoreInv' /\ Grows
    BY StoresUnchanged
  <2>3. \A q \in Reqs \ {r} : Same(q)
    BY DEF Same, OrderInv, TypeOK
  <2>4. ReqInv(r)'
    BY DEF OrderInv, TypeOK, ReqInv, PathOK, CallOK, ReasonOK, Paying,
           Payments!PaymentStatus
  <2> QED BY <2>1, <2>2, <2>3, <2>4, OneRequest
<1>2. ASSUME NEW k \in Keys, LoadByKey(r, k)
      PROVE  OrderInv'
  <2> USE <1>2 DEF LoadByKey
  <2>1. TypeOK'
    BY DEF OrderInv, TypeOK
  <2>2. StoreInv' /\ Grows
    BY StoresUnchanged
  <2>3. \A q \in Reqs \ {r} : Same(q)
    BY DEF Same, OrderInv, TypeOK
  <2>4. ReqInv(r)'
    BY DEF OrderInv, TypeOK, StoreInv, OrderOK, KeysOK, ReqInv, PathOK, CallOK,
           ReasonOK, Paying, Payments!PaymentStatus
  <2> QED BY <2>1, <2>2, <2>3, <2>4, OneRequest
<1>3. ASSUME NEW k \in Keys \cup {NoKey}, NEW a \in Amounts, NEW o \in Orders,
             InsertPending(r, k, a, o)
      PROVE  OrderInv'
  <2> USE <1>3 DEF InsertPending
  <2>1. TypeOK'
    BY InsertKeeps DEF OrderInv, TypeOK
  <2>2. StoreInv' /\ Grows
    BY InsertKeeps
  <2>3. \A q \in Reqs \ {r} : Same(q)
    BY DEF Same, OrderInv, TypeOK
  <2>4. ReqInv(r)'
    <3>1. orders'[o] = "Pending" /\ (k # NoKey => keys'[k] = o) /\ NoOrder # o
      BY InsertKeeps
    <3>2. PathOK(r)'
      BY <3>1 DEF OrderInv, TypeOK, ReqInv, PathOK, Paying
    <3>3. CallOK(r)' /\ ReasonOK(r)'
      BY DEF OrderInv, TypeOK, ReqInv, PathOK, CallOK, ReasonOK,
             Payments!PaymentStatus
    <3> QED BY <3>2, <3>3 DEF ReqInv
  <2> QED BY <2>1, <2>2, <2>3, <2>4, OneRequest
<1>4. ASSUME NEW k \in Keys \cup {NoKey}, NEW a \in Amounts, NEW o \in Orders,
             CreateFails(r, k, a, o)
      PROVE  OrderInv'
  <2> USE <1>4 DEF CreateFails
  <2>1. /\ orders' \in [Orders -> Status \cup {"None"}]
        /\ amount' \in [Orders -> Amounts \cup {0}]
        /\ keys' \in [Keys -> Orders \cup {NoOrder}]
        /\ StoreInv' /\ Grows
    <3>1. CASE UNCHANGED storeVars
      BY <3>1, StoresUnchanged DEF OrderInv, TypeOK
    <3>2. CASE Unknown(k) /\ Insert(k, a, o)
      BY <3>2, InsertKeeps
    <3> QED BY <3>1, <3>2
  <2>2. TypeOK'
    BY <2>1 DEF OrderInv, TypeOK
  <2>3. \A q \in Reqs \ {r} : Same(q)
    BY DEF Same, OrderInv, TypeOK
  <2>4. ReqInv(r)'
    BY DEF OrderInv, TypeOK, ReqInv, PathOK, CallOK, ReasonOK, Paying,
           Payments!PaymentStatus
  <2> QED BY <2>1, <2>2, <2>3, <2>4, OneRequest
<1>5. ASSUME NEW o \in Orders, GetOrder(r, o)
      PROVE  OrderInv'
  <2> USE <1>5 DEF GetOrder, Get
  <2>1. TypeOK'
    BY DEF OrderInv, TypeOK
  <2>2. StoreInv' /\ Grows
    BY StoresUnchanged
  <2>3. \A q \in Reqs \ {r} : Same(q)
    BY DEF Same, OrderInv, TypeOK
  <2>4. ReqInv(r)'
    BY DEF OrderInv, TypeOK, StoreInv, OrderOK, ReqInv, PathOK, CallOK, ReasonOK,
           Paying, Payments!PaymentStatus
  <2> QED BY <2>1, <2>2, <2>3, <2>4, OneRequest
<1>6. ASSUME NEW o \in Orders, CancelOrder(r, o)
      PROVE  OrderInv'
  <2> USE <1>6 DEF CancelOrder, GetByID
  <2>1. TypeOK'
    BY DEF OrderInv, TypeOK
  <2>2. StoreInv' /\ Grows
    BY StoresUnchanged
  <2>3. \A q \in Reqs \ {r} : Same(q)
    BY DEF Same, OrderInv, TypeOK
  <2>4. ReqInv(r)'
    BY DEF OrderInv, TypeOK, ReqInv, PathOK, CallOK, ReasonOK, Paying,
           Payments!PaymentStatus
  <2> QED BY <2>1, <2>2, <2>3, <2>4, OneRequest
<1> QED BY <1>1, <1>2, <1>3, <1>4, <1>5, <1>6 DEF Arrive

-----------------------------------------------------------------------------
\* Whatever the call or the reconciliation came to, the request goes on with
\* a reason for what it is about to write.
LEMMA ContinueInv ==
  ASSUME OrderInv, NEW r \in Reqs, pc[r] \in {"await", "reconcile"},
         NEW e \in {"Authorized", "Declined", "invalid", "recorded",
                    "unavailable", "other"},
         e \in {"Authorized", "Declined"} => ledger[ord[r]] = e,
         Continue(r, e), UNCHANGED <<storeVars, cache, key, ord, paymentVars>>,
         unanswered' \in {unanswered, unanswered \cup {ord[r]}},
         e = "other" => ord[r] \in unanswered'
  PROVE  OrderInv'
<1> USE OrderAssumption
        DEF Goto, Reply, Write, storeVars, paymentVars, Status, Terminal, Results,
            InProgress, Paying
<1>0. ord[r] \in Orders /\ seen[r] = "Pending" /\ orders[ord[r]] # "None"
  BY DEF OrderInv, ReqInv, PathOK
<1>1. /\ pc' = [pc EXCEPT ![r] = pc'[r]]
      /\ seen' = [seen EXCEPT ![r] = seen'[r]]
      /\ target' = [target EXCEPT ![r] = target'[r]]
      /\ result' = [result EXCEPT ![r] = result'[r]]
      /\ pc'[r] \in {"update", "done", "reconcile", "fresh"}
      /\ seen'[r] \in {seen[r], "None"}
      /\ pc'[r] # "done" => seen'[r] = seen[r]
      /\ target'[r] \in {target[r], "Paid", "Failed"}
      /\ pc'[r] = "update" => target'[r] \in {"Paid", "Failed"}
      /\ target'[r] = "Paid" => target[r] = "Paid" \/ e = "Authorized"
      /\ target'[r] = "Failed" => target[r] = "Failed" \/ e \in {"Declined", "other"}
      /\ result'[r] \in Results
  BY DEF OrderInv, TypeOK, Continue, NewStatus, Payments!PaymentStatus
<1>2. TypeOK'
  BY <1>0, <1>1 DEF OrderInv, TypeOK
<1>3. StoreInv' /\ Grows
  BY StoresUnchanged
<1>4. \A q \in Reqs \ {r} : Same(q)
  BY <1>1 DEF Same, OrderInv, TypeOK
<1>5. PathOK(r)'
  BY <1>0, <1>1 DEF OrderInv, TypeOK, ReqInv, PathOK
<1>6. CallOK(r)'
  BY <1>1 DEF OrderInv, TypeOK, ReqInv, CallOK, Payments!PaymentStatus
<1>7. ReasonOK(r)'
  BY <1>0, <1>1 DEF OrderInv, TypeOK, ReqInv, ReasonOK
<1> QED BY <1>2, <1>3, <1>4, <1>5, <1>6, <1>7, OneRequest DEF ReqInv

-----------------------------------------------------------------------------
\* A call reaches payment-service with the order and the amount it was made
\* with, over either adapter.
LEMMA CallArgArrives ==
  ASSUME NEW o, NEW a
  PROVE  CallArg(o, a) = [kind |-> "authorize", order |-> o, amount |-> a,
                          email |-> TRUE]
<1> DEFINE from == IF Adapter = "rest" THEN RestClientBody ELSE OrderServiceRequest
           to == IF Adapter = "rest" THEN createPaymentRequest
                 ELSE PaymentServiceRequest
           m == [order_id |-> o, amount |-> a, customer_email |-> TRUE]
<1>1. DOMAIN RequestZero = {"order_id", "amount", "customer_email"}
  BY DEF RequestZero
<1>2. /\ from["order_id"] # from["amount"]
      /\ from["order_id"] # from["customer_email"]
      /\ from["amount"] # from["customer_email"]
  BY DEF RestClientBody, OrderServiceRequest
<1>3. \A f \in DOMAIN RequestZero : f \in DOMAIN to /\ to[f] = from[f]
  BY <1>1 DEF RestClientBody, OrderServiceRequest, createPaymentRequest,
              PaymentServiceRequest
<1>4. ReceiveRequest(SendRequest(o, a)) = [f \in DOMAIN RequestZero |-> m[f]]
  <2> HIDE DEF from, to, m
  <2>1. Unmarshal(to, RequestZero, Marshal(from, RequestZero, m))
          = [f \in DOMAIN RequestZero |-> m[f]]
    BY <1>1, <1>2, <1>3, RoundTrip
  <2> QED BY <2>1 DEF from, to, m, ReceiveRequest, SendRequest
<1>5. /\ ReceiveRequest(SendRequest(o, a)).order_id = o
      /\ ReceiveRequest(SendRequest(o, a)).amount = a
      /\ ReceiveRequest(SendRequest(o, a)).customer_email = TRUE
  BY <1>1, <1>4
<1> QED BY <1>5 DEF CallArg

\* The adapter finds the status that payment-service answered with.
LEMMA StatusArrives ==
  ASSUME NEW s
  PROVE  Received(s) = s
<1> DEFINE from == IF Adapter = "rest" THEN createPaymentResponse
                   ELSE PaymentServiceResponse
           to == IF Adapter = "rest" THEN paymentAPIResponse
                 ELSE OrderServiceResponse
           m == [status |-> s]
<1>1. DOMAIN ResponseZero = {"status"}
  BY DEF ResponseZero
<1>2. "status" \in DOMAIN to /\ to["status"] = from["status"]
  BY DEF createPaymentResponse, PaymentServiceResponse, paymentAPIResponse,
         OrderServiceResponse
<1>3. Unmarshal(to, ResponseZero, Marshal(from, ResponseZero, m))
        = [f \in DOMAIN ResponseZero |-> m[f]]
  <2> HIDE DEF from, to, m
  <2> QED BY <1>1, <1>2, RoundTrip
<1>4. m.status = s
  OBVIOUS
<1>5. Unmarshal(to, ResponseZero, Marshal(from, ResponseZero, m)).status = s
  BY <1>1, <1>3, <1>4
<1> QED BY <1>5 DEF Received

\* A query is about the order it is made for, and tells its payment's status.
LEMMA StatusQueried ==
  ASSUME NEW o, NEW s
  PROVE  AskedAbout(o) = o /\ StatusIn(s) = s
<1>1. AskedAbout(o) = o
  <2> DEFINE zero == [order_id |-> NoOrder]
             m == [order_id |-> o]
  <2>1. DOMAIN zero = {"order_id"}
    OBVIOUS
  <2>2. /\ "order_id" \in DOMAIN PaymentServiceStatusRequest
        /\ PaymentServiceStatusRequest["order_id"]
             = OrderServiceStatusRequest["order_id"]
    BY DEF PaymentServiceStatusRequest, OrderServiceStatusRequest
  <2>3. Unmarshal(PaymentServiceStatusRequest, zero,
                  Marshal(OrderServiceStatusRequest, zero, m))
          = [f \in DOMAIN zero |-> m[f]]
    <3> HIDE DEF zero, m
    <3> QED BY <2>1, <2>2, RoundTrip
  <2>4. Unmarshal(PaymentServiceStatusRequest, zero,
                  Marshal(OrderServiceStatusRequest, zero, m)).order_id = o
    BY <2>3
  <2> QED BY <2>4 DEF AskedAbout
<1>2. StatusIn(s) = s
  <2> DEFINE from == IF Adapter = "rest" THEN getPaymentResponse
                     ELSE PaymentServiceStatusResponse
             to == IF Adapter = "rest" THEN RestClientStatus
                   ELSE OrderServiceStatusResponse
             m == [status |-> s]
  <2>1. DOMAIN ResponseZero = {"status"}
    BY DEF ResponseZero
  <2>2. "status" \in DOMAIN to /\ to["status"] = from["status"]
    BY DEF getPaymentResponse, PaymentServiceStatusResponse, RestClientStatus,
           OrderServiceStatusResponse
  <2>3. Unmarshal(to, ResponseZero, Marshal(from, ResponseZero, m))
          = [f \in DOMAIN ResponseZero |-> m[f]]
    <3> HIDE DEF from, to, m
    <3> QED BY <2>1, <2>2, RoundTrip
  <2>4. Unmarshal(to, ResponseZero, Marshal(from, ResponseZero, m)).status = s
    BY <2>1, <2>3
  <2> QED BY <2>4 DEF StatusIn
<1> QED BY <1>1, <1>2

LEMMA CallInv ==
  ASSUME OrderInv, NEW r \in Reqs,
         Authorize(r) \/ Authorized(r) \/ Unanswered(r) \/ Reconcile(r)
  PROVE  OrderInv'
<1> USE OrderAssumption
        DEF Goto, Reply, storeVars, paymentVars, Status, Terminal, Results,
            InProgress, Paying
<1>1. CASE Authorize(r)
  <2> DEFINE a == [kind |-> "authorize", order |-> ord[r],
                   amount |-> amount[ord[r]], email |-> TRUE]
  <2>1. /\ ord[r] \in Orders /\ orders[ord[r]] # "None"
        /\ a \in Payments!AuthorizeArg
    BY <1>1 DEF Authorize, OrderInv, ReqInv, PathOK, StoreInv, OrderOK,
                Payments!AuthorizeArg
  <2>2. PICK v \in {"sent", "invalid"} :
          /\ st' = [st EXCEPT ![r] = v]
          /\ arg' = [arg EXCEPT ![r] = a]
          /\ UNCHANGED ledger
    BY <1>1, CallArgArrives DEF Authorize, Payments!Send, Payments!Answer
  <2> HIDE DEF a
  <2>3. TypeOK'
    BY <1>1, <2>1, <2>2 DEF Authorize, OrderInv, TypeOK, Payments!Answers
  <2>4. StoreInv' /\ Grows
    BY <1>1, <2>2, StoresUnchanged DEF Authorize
  <2>5. \A q \in Reqs \ {r} : Same(q)
    BY <1>1, <2>2 DEF Authorize, Same, OrderInv, TypeOK
  <2>6. PathOK(r)' /\ ReasonOK(r)'
    BY <1>1, <2>2 DEF Authorize, OrderInv, TypeOK, ReqInv, PathOK, ReasonOK
  <2>7. CallOK(r)'
    BY <1>1, <2>1, <2>2
    DEF a, Authorize, OrderInv, TypeOK, ReqInv, PathOK, CallOK,
        Payments!PaymentStatus
  <2> QED BY <2>3, <2>4, <2>5, <2>6, <2>7, OneRequest DEF ReqInv
<1>2. CASE Authorized(r)
  <2>1. /\ Translate(st[r]) \in {"Authorized", "Declined", "invalid", "recorded",
                                 "unavailable"}
        /\ Translate(st[r]) \in {"Authorized", "Declined"} => Translate(st[r]) = st[r]
    BY <1>2, StatusArrives
    DEF Authorized, Translate, Payments!Answers, Payments!PaymentStatus
  <2>2. st[r] \in {"Authorized", "Declined"} => ledger[ord[r]] = st[r]
    BY <1>2 DEF Authorized, OrderInv, ReqInv, CallOK, Payments!PaymentStatus
  <2> QED BY <1>2, <2>1, <2>2, ContinueInv DEF Authorized
<1>3. CASE Unanswered(r)
  <2>1. PICK e \in NoAnswer : Continue(r, e)
    BY <1>3 DEF Unanswered
  <2>2. e \in {"unavailable", "other"}
    BY DEF NoAnswer
  <2> QED BY <1>3, <2>1, <2>2, ContinueInv DEF Unanswered
<1>4. CASE Reconcile(r)
  <2>0. ord[r] \in Orders
    BY <1>4 DEF Reconcile, OrderInv, ReqInv, PathOK
  <2>1. PICK e \in GetStatus(ord[r]) :
          IF e = "error" THEN Reply(r, "error", "None") /\ UNCHANGED target
                         ELSE Continue(r, e)
    BY <1>4 DEF Reconcile
  <2>2. CASE e # "error"
    <3>1. /\ e \in {"Authorized", "Declined", "unavailable"}
          /\ e \in {"Authorized", "Declined"} => ledger[ord[r]] = e
      BY <2>0, <2>2, StatusQueried DEF GetStatus, OrderInv, TypeOK, Payments!PaymentStatus
    <3> QED BY <1>4, <2>1, <2>2, <3>1, ContinueInv DEF Reconcile
  <2>3. CASE e = "error"
    <3>1. TypeOK'
      BY <1>4, <2>1, <2>3 DEF Reconcile, OrderInv, TypeOK
    <3>2. StoreInv' /\ Grows
      BY <1>4, StoresUnchanged DEF Reconcile
    <3>3. \A q \in Reqs \ {r} : Same(q)
      BY <1>4, <2>1, <2>3 DEF Reconcile, Same, OrderInv, TypeOK
    <3>4. ReqInv(r)'
      BY <1>4, <2>1, <2>3 DEF Reconcile, OrderInv, TypeOK, ReqInv, PathOK, CallOK,
                        ReasonOK, Payments!PaymentStatus
    <3> QED BY <3>1, <3>2, <3>3, <3>4, OneRequest
  <2> QED BY <2>2, <2>3
<1> QED BY <1>1, <1>2, <1>3, <1>4

-----------------------------------------------------------------------------
\* Writing the status that a request has a reason for.
LEMMA SetStatusKeeps ==
  ASSUME OrderInv, NEW r \in Reqs, pc[r] = "update", SetStatus(r),
         UNCHANGED <<amount, keys, cache, ledger, unanswered>>
  PROVE  /\ orders' \in [Orders -> Status \cup {"None"}]
         /\ StoreInv' /\ Grows
<1> USE DEF OrderInv, TypeOK, SetStatus, Status, Terminal
<1>1. ord[r] \in Orders /\ target[r] \in Terminal /\ orders[ord[r]] # "None"
  BY DEF ReqInv, PathOK, InProgress, Paying
<1>2. Grows
  BY <1>1 DEF Grows
<1>3. \A o \in Orders : OrderOK(o)'
  BY <1>1 DEF StoreInv, OrderOK, ReqInv, ReasonOK, Payments!Decide,
              Payments!MaxAuthorizedAmountCents
<1>4. KeysOK'
  BY <1>1 DEF StoreInv, KeysOK
<1> QED BY <1>1, <1>2, <1>3, <1>4 DEF StoreInv

\* A step that at most changes the cache entry of an order to a status that
\* is not "Paid" without a payment.
LEMMA CacheKeeps ==
  ASSUME OrderInv, NEW o \in Orders, NEW s \in Status \cup {"Miss"},
         s = "Paid" => ledger[o] = "Authorized",
         cache' \in {cache, [cache EXCEPT ![o] = s]},
         UNCHANGED <<orders, amount, keys, ledger, unanswered>>
  PROVE  /\ cache' \in [Orders -> Status \cup {"Miss"}]
         /\ StoreInv' /\ Grows
<1> USE DEF OrderInv, TypeOK, Status, Terminal
<1>1. cache' \in [Orders -> Status \cup {"Miss"}]
  OBVIOUS
<1>2. \A p \in Orders : OrderOK(p)'
  BY DEF StoreInv, OrderOK, Payments!Decide, Payments!MaxAuthorizedAmountCents
<1>3. KeysOK' /\ Grows
  BY DEF StoreInv, KeysOK, Grows
<1> QED BY <1>1, <1>2, <1>3 DEF StoreInv

LEMMA WriteInv ==
  ASSUME OrderInv, NEW r \in Reqs,
         \/ UpdateStatus(r) \/ UpdateFails(r) \/ Invalidate(r) \/ Fresh(r)
         \/ Load(r) \/ Fill(r)
  PROVE  OrderInv'
<1> USE OrderAssumption
        DEF Goto, Reply, storeVars, paymentVars, Status, Terminal, Results,
            InProgress, Paying
<1>0. pc[r] \in InProgress => ord[r] \in Orders
  BY DEF OrderInv, ReqInv, PathOK
<1>1. CASE UpdateStatus(r)
  <2> USE <1>1 DEF UpdateStatus
  <2>1. StoreInv' /\ Grows /\ orders' \in [Orders -> Status \cup {"None"}]
    BY SetStatusKeeps
  <2>2. TypeOK'
    BY <2>1 DEF OrderInv, TypeOK
  <2>3. \A q \in Reqs \ {r} : Same(q)
    BY DEF Same, OrderInv, TypeOK
  <2>4. ReqInv(r)'
    BY <2>1 DEF OrderInv, TypeOK, ReqInv, PathOK, CallOK, ReasonOK, Grows,
                Payments!PaymentStatus
  <2> QED BY <2>1, <2>2, <2>3, <2>4, OneRequest
<1>2. CASE UpdateFails(r)
  <2> USE <1>2 DEF UpdateFails
  <2>1. StoreInv' /\ Grows /\ orders' \in [Orders -> Status \cup {"None"}]
    <3>1. CASE SetStatus(r)
      BY <3>1, SetStatusKeeps
    <3>2. CASE UNCHANGED orders
      BY <3>2, StoresUnchanged DEF OrderInv, TypeOK
    <3> QED BY <3>1, <3>2
  <2>2. TypeOK'
    BY <2>1 DEF OrderInv, TypeOK
  <2>3. \A q \in Reqs \ {r} : Same(q)
    BY DEF Same, OrderInv, TypeOK
  <2>4. ReqInv(r)'
    BY <2>1 DEF OrderInv, TypeOK, ReqInv, PathOK, CallOK, ReasonOK, Grows,
                Payments!PaymentStatus
  <2> QED BY <2>1, <2>2, <2>3, <2>4, OneRequest
<1>3. CASE Invalidate(r)
  <2> USE <1>3 DEF Invalidate, Delete
  <2>1. StoreInv' /\ Grows /\ cache' \in [Orders -> Status \cup {"Miss"}]
    BY <1>0, CacheKeeps
  <2>2. TypeOK'
    BY <2>1 DEF OrderInv, TypeOK
  <2>3. \A q \in Reqs \ {r} : Same(q)
    BY DEF Same, OrderInv, TypeOK
  <2>4. ReqInv(r)'
    BY DEF OrderInv, TypeOK, ReqInv, PathOK, CallOK, ReasonOK,
           Payments!PaymentStatus
  <2> QED BY <2>1, <2>2, <2>3, <2>4, OneRequest
<1>4. CASE Fresh(r)
  <2> USE <1>4 DEF Fresh
  <2>1. PICK s \in {orders[ord[r]], "Failed", seen[r]} : Reply(r, result[r], s)
    BY DEF GetByID
  <2>2. s \in Status \cup {"None"} /\ (s = "Paid" => ledger[ord[r]] = "Authorized")
    BY <1>0 DEF OrderInv, TypeOK, StoreInv, OrderOK, ReqInv, ReasonOK
  <2>3. TypeOK'
    BY <2>1, <2>2 DEF OrderInv, TypeOK
  <2>4. StoreInv' /\ Grows
    BY StoresUnchanged
  <2>5. \A q \in Reqs \ {r} : Same(q)
    BY <2>1 DEF Same, OrderInv, TypeOK
  <2>6. ReqInv(r)'
    BY <1>0, <2>1, <2>2
    DEF OrderInv, TypeOK, ReqInv, PathOK, CallOK, ReasonOK, Payments!PaymentStatus
  <2> QED BY <2>3, <2>4, <2>5, <2>6, OneRequest
<1>5. CASE Load(r)
  <2> USE <1>5 DEF Load, GetByID
  <2>1. TypeOK'
    BY <1>0 DEF OrderInv, TypeOK
  <2>2. StoreInv' /\ Grows
    BY StoresUnchanged
  <2>3. \A q \in Reqs \ {r} : Same(q)
    BY DEF Same, OrderInv, TypeOK
  <2>4. ReqInv(r)'
    BY <1>0 DEF OrderInv, TypeOK, StoreInv, OrderOK, ReqInv, PathOK, CallOK,
                ReasonOK, Payments!PaymentStatus
  <2> QED BY <2>1, <2>2, <2>3, <2>4, OneRequest
<1>6. CASE Fill(r)
  <2> USE <1>6 DEF Fill, Set
  <2>1. StoreInv' /\ Grows /\ cache' \in [Orders -> Status \cup {"Miss"}]
    BY <1>0, CacheKeeps DEF OrderInv, ReqInv, PathOK, ReasonOK, TypeOK
  <2>2. TypeOK'
    BY <2>1 DEF OrderInv, TypeOK
  <2>3. \A q \in Reqs \ {r} : Same(q)
    BY DEF Same, OrderInv, TypeOK
  <2>4. ReqInv(r)'
    BY DEF OrderInv, TypeOK, ReqInv, PathOK, CallOK, ReasonOK,
           Payments!PaymentStatus
  <2> QED BY <2>1, <2>2, <2>3, <2>4, OneRequest
<1> QED BY <1>1, <1>2, <1>3, <1>4, <1>5, <1>6

-----------------------------------------------------------------------------
\* payment-service works on the call of request r.
LEMMA PaymentInv ==
  ASSUME OrderInv, NEW r \in Reqs, PaymentStep(r)
  PROVE  OrderInv'
<1> USE DEF PaymentStep, orderVars, Payments!Answer, Payments!PaymentStatus
<1>0. PICK v \in {"recorded", "Authorized", "Declined", "failed", "exists", "invalid"} :
        /\ st' = [st EXCEPT ![r] = v]
        /\ UNCHANGED arg
        /\ st[r] \in {"sent", "recorded"}
  BY DEF Payments!Record, Payments!Finish, Payments!Refuse, Payments!Decide,
         OrderInv, TypeOK, ReqInv, CallOK
<1>1. /\ arg[r].order \in Orders /\ orders[arg[r].order] # "None"
      /\ arg[r].amount = amount[arg[r].order]
  BY <1>0 DEF OrderInv, ReqInv, CallOK
<1>2. /\ ledger' \in [Orders -> Payments!PaymentStatus \cup {"None"}]
      /\ \A o \in Orders : /\ ledger[o] # "None" => ledger'[o] = ledger[o]
                           /\ ledger'[o] # ledger[o] =>
                                /\ o = arg[r].order
                                /\ ledger'[o] = Payments!Decide(amount[o])
      /\ st'[r] = "recorded" => ledger'[arg[r].order] # "None"
      /\ st'[r] \in Payments!PaymentStatus => ledger'[arg[r].order] = st'[r]
  <2>1. CASE Payments!Record(r)
    BY <1>1, <2>1 DEF Payments!Record, Payments!Decide, OrderInv, TypeOK
  <2>2. CASE Payments!Finish(r)
    BY <1>1, <2>2 DEF Payments!Finish, OrderInv, TypeOK
  <2>3. CASE Payments!Refuse(r)
    BY <1>1, <2>3 DEF Payments!Refuse, OrderInv, TypeOK
  <2> QED BY <2>1, <2>2, <2>3
<1>3. TypeOK'
  BY <1>0, <1>2 DEF OrderInv, TypeOK, Payments!Answers
<1>4. Grows
  BY <1>2 DEF Grows
<1>5. StoreInv'
  <2>1. \A o \in Orders : OrderOK(o)'
    BY <1>1, <1>2 DEF OrderInv, StoreInv, OrderOK, Payments!Decide,
                      Payments!MaxAuthorizedAmountCents
  <2>2. KeysOK'
    BY DEF OrderInv, StoreInv, KeysOK
  <2> QED BY <2>1, <2>2 DEF StoreInv
<1>6. \A q \in Reqs \ {r} : Same(q)
  BY <1>0 DEF Same, OrderInv, TypeOK
<1>7. PathOK(r)'
  BY <1>0 DEF OrderInv, TypeOK, ReqInv, PathOK
<1>8. CallOK(r)'
  BY <1>0, <1>1, <1>2 DEF OrderInv, TypeOK, ReqInv, CallOK
<1>9. ReasonOK(r)'
  BY <1>2 DEF OrderInv, TypeOK, ReqInv, ReasonOK
<1> QED BY <1>3, <1>4, <1>5, <1>6, <1>7, <1>8, <1>9, OneRequest DEF ReqInv

\* Either service goes down.
LEMMA EndInv ==
  ASSUME OrderInv, Crash \/ PaymentDies
  PROVE  OrderInv'
<1> USE DEF storeVars, paymentVars, orderVars, Status, Terminal, Results,
            InProgress, Paying, Payments!PaymentStatus
<1>1. CASE Crash
  <2> USE <1>1 DEF Crash
  <2>1. TypeOK'
    BY DEF OrderInv, TypeOK
  <2>2. StoreInv'
    BY StoresUnchanged
  <2>3. \A r \in Reqs : ReqInv(r)'
    BY DEF OrderInv, TypeOK, ReqInv, PathOK, CallOK, ReasonOK
  <2> QED BY <2>1, <2>2, <2>3 DEF OrderInv
<1>2. CASE PaymentDies
  <2> USE <1>2 DEF PaymentDies, Payments!Die, Payments!Stopped
  <2>1. TypeOK'
    BY DEF OrderInv, TypeOK, Payments!Answers
  <2>2. StoreInv'
    BY StoresUnchanged
  <2>3. \A r \in Reqs : ReqInv(r)'
    BY DEF OrderInv, TypeOK, ReqInv, PathOK, CallOK, ReasonOK
  <2> QED BY <2>1, <2>2, <2>3 DEF OrderInv
<1> QED BY <1>1, <1>2

LEMMA NextInv ==
  ASSUME OrderInv, [Next]_vars
  PROVE  OrderInv'
<1> USE OrderAssumption DEF storeVars, paymentVars, Status, Terminal
<1>1. ASSUME NEW r \in Reqs, Step(r)
      PROVE  OrderInv'
  BY <1>1, CallInv, WriteInv DEF Step, Proceed, WaitEnds
<1>2. ASSUME NEW r \in Reqs, Retire(r)
      PROVE  OrderInv'
  <2> USE <1>2 DEF Retire, Goto
  <2>1. TypeOK'
    BY DEF OrderInv, TypeOK, Results
  <2>2. StoreInv' /\ Grows
    BY StoresUnchanged
  <2>3. \A q \in Reqs \ {r} : Same(q)
    BY DEF Same, OrderInv, TypeOK
  <2>4. ReqInv(r)'
    BY DEF OrderInv, TypeOK, ReqInv, PathOK, CallOK, ReasonOK, InProgress, Paying,
           Payments!PaymentStatus
  <2> QED BY <2>1, <2>2, <2>3, <2>4, OneRequest
<1>3. ASSUME NEW o \in Orders, Expire(o)
      PROVE  OrderInv'
  <2> USE <1>3 DEF Expire
  <2>1. StoreInv' /\ Grows /\ cache' \in [Orders -> Status \cup {"Miss"}]
    BY CacheKeeps
  <2>2. TypeOK'
    BY <2>1 DEF OrderInv, TypeOK
  <2>3. \A r \in Reqs : Same(r)
    BY DEF Same
  <2> QED BY <2>1, <2>2, <2>3, SameKeeps DEF OrderInv
<1>4. CASE UNCHANGED vars
  <2> USE <1>4 DEF vars
  <2>1. TypeOK'
    BY DEF OrderInv, TypeOK
  <2>2. StoreInv' /\ Grows
    BY StoresUnchanged
  <2>3. \A r \in Reqs : Same(r)
    BY DEF Same
  <2> QED BY <2>1, <2>2, <2>3, SameKeeps DEF OrderInv
<1> QED BY <1>1, <1>2, <1>3, <1>4, ArriveInv, PaymentInv, EndInv DEF Next

-----------------------------------------------------------------------------
LEMMA OrderInvAlways == Spec => []OrderInv
<1>1. Init => OrderInv
  BY InitInv
<1>2. OrderInv /\ [Next]_vars => OrderInv'
  BY NextInv
<1> QED BY <1>1, <1>2, PTL DEF Spec

(***************************************************************************)
(* The stores, the requests and the calls keep to their types.             *)
(***************************************************************************)
THEOREM OrderTypeCorrect == Spec => []TypeOK
<1>1. OrderInv => TypeOK
  BY DEF OrderInv
<1> QED BY <1>1, OrderInvAlways, PTL

(***************************************************************************)
(* An order that is called paid, in its row, in the cache or in a          *)
(* response, has an authorized payment (create_order.go:92-103, :124-135). *)
(***************************************************************************)
THEOREM PaidOrdersAreAuthorized == Spec => []PaidIsAuthorized
<1>1. OrderInv => PaidIsAuthorized
  BY DEF OrderInv, StoreInv, OrderOK, ReqInv, ReasonOK, PaidIsAuthorized
<1> QED BY <1>1, OrderInvAlways, PTL

(***************************************************************************)
(* A payment is for an order that exists, decided on the amount stored     *)
(* with it (create_order.go:64, order_repo.go:77).                         *)
(***************************************************************************)
THEOREM ChargesMatchOrders == Spec => []ChargeMatchesOrder
<1>1. OrderInv => ChargeMatchesOrder
  BY DEF OrderInv, StoreInv, OrderOK, ChargeMatchesOrder
<1> QED BY <1>1, OrderInvAlways, PTL

(***************************************************************************)
(* Requests with one Idempotency-Key work on one order, and two keys never *)
(* share one (order_repo.go:71-119).                                       *)
(***************************************************************************)
THEOREM KeysNameOneOrder == Spec => []OneOrderPerKey
<1>1. OrderInv => OneOrderPerKey
  BY DEF OrderInv, StoreInv, KeysOK, ReqInv, PathOK, OneOrderPerKey
<1> QED BY <1>1, OrderInvAlways, PTL

(***************************************************************************)
(* A failed order was declined or has an unanswered call                   *)
(* (create_order.go:65-97, payment_client.go:50-61).                       *)
(***************************************************************************)
THEOREM FailuresHaveCauses == Spec => []FailedHasCause
<1>1. OrderInv => FailedHasCause
  BY DEF OrderInv, StoreInv, OrderOK, FailedHasCause
<1> QED BY <1>1, OrderInvAlways, PTL

\* Only an update changes the status of an order that has one, and the
\* request that makes it read the order as pending.
LEMMA OnlyUpdatesOverwrite ==
  ASSUME OrderInv, [Next]_vars, NEW o \in Orders,
         orders[o] \in Terminal, orders'[o] # orders[o]
  PROVE  \E r \in Reqs : pc[r] = "update" /\ ord[r] = o /\ seen[r] = "Pending"
<1> USE DEF storeVars, orderVars, vars, Terminal
<1>1. ASSUME NEW r \in Reqs, UpdateStatus(r) \/ UpdateFails(r)
      PROVE  pc[r] = "update" /\ ord[r] = o /\ seen[r] = "Pending"
  <2>1. pc[r] = "update" /\ SetStatus(r)
    BY <1>1 DEF UpdateStatus, UpdateFails
  <2>2. ord[r] = o
    BY <2>1 DEF SetStatus, OrderInv, TypeOK
  <2> QED BY <2>1, <2>2 DEF OrderInv, ReqInv, PathOK, Paying
<1>2. ASSUME NEW r \in Reqs, NEW k, NEW a, NEW p,
             InsertPending(r, k, a, p) \/ CreateFails(r, k, a, p)
      PROVE  FALSE
  BY <1>2 DEF InsertPending, CreateFails, Insert, OrderInv, TypeOK
<1>3. ASSUME NEW r \in Reqs, Step(r)
      PROVE  UpdateStatus(r) \/ UpdateFails(r)
  BY <1>3 DEF Step, Proceed, WaitEnds, Authorize, Authorized, Unanswered, Reconcile, Invalidate, Fresh,
              Load, Fill
<1>4. ASSUME NEW r \in Reqs, Arrive(r)
      PROVE  FALSE
  BY <1>2, <1>4 DEF Arrive, RejectInput, LoadByKey, GetOrder, CancelOrder
<1>5. ASSUME NEW r \in Reqs, Retire(r) \/ PaymentStep(r)
      PROVE  FALSE
  BY <1>5 DEF Retire, PaymentStep
<1>6. ~Crash /\ ~PaymentDies /\ ~UNCHANGED vars /\ \A p \in Orders : ~Expire(p)
  BY DEF Crash, PaymentDies, Expire
<1> QED BY <1>1, <1>3, <1>4, <1>5, <1>6 DEF Next

(***************************************************************************)
(* A final status is overwritten only by a request that read the order     *)
(* while it was pending (create_order.go:58, cancel_order.go:27).          *)
(***************************************************************************)
THEOREM FinalStatusesHold == Spec => OnlyStaleReadersOverwrite
<1>1. OrderInv /\ [Next]_vars =>
        [\A o \in Orders :
           orders[o] \in Terminal /\ orders'[o] # orders[o] =>
             \E r \in Reqs : pc[r] = "update" /\ ord[r] = o
                             /\ seen[r] = "Pending"]_vars
  BY OnlyUpdatesOverwrite
<1> QED BY <1>1, OrderInvAlways, PTL DEF Spec, OnlyStaleReadersOverwrite
=============================================================================

-------------------------------- MODULE Wire --------------------------------
(***************************************************************************)
(* What becomes of a message between two programs.  The programs do not    *)
(* share generated code: each has a copy of its own, and a field is known  *)
(* on the wire by the number its copy gives it (protobuf) or by the name   *)
(* in its tag (JSON).  A field the model does not tell apart is left out   *)
(* of the messages; the tables have all fields.                            *)
(***************************************************************************)
EXTENDS Integers

\* proto.Marshal: a field that has its zero value is not written.  The zero
\* value of every field of the message is given by zero.
Marshal(tag, zero, m) ==
  LET written == {f \in DOMAIN zero : m[f] # zero[f]}
  IN [t \in {tag[f] : f \in written} |-> m[CHOOSE f \in written : tag[f] = t]]

\* proto.Unmarshal, json.Unmarshal: a field that is not on the wire has its
\* zero value, one that the receiver does not know is skipped.
Unmarshal(tag, zero, w) ==
  [f \in DOMAIN zero |->
     IF f \in DOMAIN tag /\ tag[f] \in DOMAIN w THEN w[tag[f]] ELSE zero[f]]

-----------------------------------------------------------------------------
\* AuthorizePaymentRequest and AuthorizePaymentResponse, in the copies of
\* order-service and of payment-service.
OrderServiceRequest == [order_id |-> 1, amount |-> 2, customer_email |-> 3]

PaymentServiceRequest == [order_id |-> 1, amount |-> 2, customer_email |-> 3]

\* The copy was regenerated with two fields in another order.
OrderServiceResponseSwapped ==
  [payment_id |-> 1, transaction_id |-> 3, status |-> 2, amount |-> 4,
   created_at |-> 5]

OrderServiceResponse ==
  [payment_id |-> 1, transaction_id |-> 2, status |-> 3, amount |-> 4,
   created_at |-> 5]

PaymentServiceResponse ==
  [payment_id |-> 1, transaction_id |-> 2, status |-> 3, amount |-> 4,
   created_at |-> 5]

\* The same in JSON: the REST adapter keeps two fields of the response.
RestClientBody ==
  [order_id |-> "order_id", amount |-> "amount",
   customer_email |-> "customer_email"]

createPaymentRequest ==
  [order_id |-> "order_id", amount |-> "amount",
   customer_email |-> "customer_email"]

createPaymentResponse ==
  [payment_id |-> "payment_id", transaction_id |-> "transaction_id",
   status |-> "status", amount |-> "amount", created_at |-> "created_at"]

paymentAPIResponse == [transaction_id |-> "transaction_id", status |-> "status"]

-----------------------------------------------------------------------------
\* GetPaymentStatusRequest and GetPaymentStatusResponse.
OrderServiceStatusRequest == [order_id |-> 1]

PaymentServiceStatusRequest == [order_id |-> 1]

OrderServiceStatusResponse ==
  [payment_id |-> 1, transaction_id |-> 2, status |-> 3, amount |-> 4,
   created_at |-> 5]

PaymentServiceStatusResponse ==
  [payment_id |-> 1, transaction_id |-> 2, status |-> 3, amount |-> 4,
   created_at |-> 5]

\* The same in JSON, where the order id is part of the path: the REST adapter
\* reads the status and nothing else.
getPaymentResponse ==
  [payment_id |-> "payment_id", order_id |-> "order_id",
   transaction_id |-> "transaction_id", amount |-> "amount",
   status |-> "status", created_at |-> "created_at"]

RestClientStatus == [status |-> "status"]

-----------------------------------------------------------------------------
\* OrderRequest and OrderStatusUpdate, in the copies of the stream client and
\* of order-service.
ClientOrderRequest == [order_id |-> 1]

OrderServiceOrderRequest == [order_id |-> 1]

ClientStatusUpdate ==
  [order_id |-> 1, customer_id |-> 2, item_name |-> 3, amount |-> 4,
   status |-> 5, updated_at |-> 6]

OrderServiceStatusUpdate ==
  [order_id |-> 1, customer_id |-> 2, item_name |-> 3, amount |-> 4,
   status |-> 5, updated_at |-> 6]
=============================================================================

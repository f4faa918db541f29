-------------------------- MODULE IdempotencyStore --------------------------
(***************************************************************************)
(* What CreatePendingWithIdempotency promises CreateOrder: a call with a   *)
(* key that has an order gets that order, any other call gets a new one,   *)
(* in one step with its key, and a call that fails may leave its order     *)
(* behind, found by its key.  OrderService is built on these steps.        *)
(***************************************************************************)
CONSTANTS Calls,     \* the calls; the order a call inserts has its name
          Keys,      \* the idempotency keys
          NoKey,     \* a call without a key
          NoOrder    \* no order

VARIABLES rows,      \* the orders in the table
          keys,      \* key -> its order, or NoOrder
          asked,     \* call -> the key it carries
          answer     \* call -> what it was told

storeVars == <<rows, keys, asked, answer>>

StoreInit ==
  /\ rows = {}
  /\ keys = [k \in Keys |-> NoOrder]
  /\ asked = [c \in Calls |-> NoKey]
  /\ answer = [c \in Calls |-> "idle"]

Ask(c, k) ==
  /\ answer[c] = "idle"
  /\ answer' = [answer EXCEPT ![c] = "pending"]
  /\ asked' = [asked EXCEPT ![c] = k]
  /\ UNCHANGED <<rows, keys>>

Tell(c, a) ==
  /\ answer[c] = "pending"
  /\ answer' = [answer EXCEPT ![c] = a]
  /\ UNCHANGED asked

\* The order and its key, both or neither.
Insert(c) ==
  /\ asked[c] \in Keys => keys[asked[c]] = NoOrder
  /\ c \notin rows
  /\ rows' = rows \cup {c}
  /\ keys' = IF asked[c] \in Keys THEN [keys EXCEPT ![asked[c]] = c] ELSE keys

Created(c) == Tell(c, "created") /\ Insert(c)
Existing(c) == /\ asked[c] \in Keys /\ keys[asked[c]] # NoOrder
               /\ Tell(c, "existing") /\ UNCHANGED <<rows, keys>>
Failed(c) == Tell(c, "failed") /\ UNCHANGED <<rows, keys>>
Late(c) == answer[c] = "failed" /\ Insert(c) /\ UNCHANGED <<asked, answer>>

StoreNext ==
  \E c \in Calls : \/ \E k \in Keys \cup {NoKey} : Ask(c, k)
                   \/ Created(c) \/ Existing(c) \/ Failed(c) \/ Late(c)

StoreSpec == StoreInit /\ [][StoreNext]_storeVars
=============================================================================

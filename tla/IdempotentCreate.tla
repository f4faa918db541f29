-------------------------- MODULE IdempotentCreate --------------------------
(***************************************************************************)
(* OrderRepository.CreatePendingWithIdempotency, statement by statement:   *)
(* a transaction (read committed) that takes an advisory lock on the hash  *)
(* of the key, looks the key up, and loads its order or inserts a new one. *)
(* Statements fail, connections break with the transaction open, and a     *)
(* commit may be carried out that nobody hears of.                         *)
(***************************************************************************)
EXTENDS Integers

CONSTANTS Calls,     \* the calls; the order a call inserts has its name
          Keys,      \* the idempotency keys
          NoKey,     \* a call without an Idempotency-Key header
          NoOrder,   \* no order, and nobody
          Hash       \* key -> hashtext(key), an integer of 32 bits

\* The bounds of an int4.
MaxInt == 2147483647
MinInt == -MaxInt - 1

ASSUME IdempotencyAssumption ==
  /\ NoOrder \notin Calls
  /\ NoKey \notin Keys
  /\ Hash \in [Keys -> MinInt..MaxInt]

VARIABLES
  pc,      \* call -> the statement it is at, or what became of its transaction
  key,     \* call -> its key
  found,   \* call -> the order it has found by its key, or NoOrder
  answer,  \* call -> what it returned
  rows,    \* the committed rows of table orders
  keys,    \* the committed rows of table idempotency_keys
  holder   \* lock -> the call whose transaction holds it, or NoOrder

tableVars == <<rows, keys>>
vars == <<pc, key, found, answer, rows, keys, holder>>

Running == {"lock", "lookup", "load", "order", "key", "commit"}

\* abs(int4): out of range for MinInt, which is an error of the statement, so
\* that such a key has no lock.
LockId(k) == IF Hash[k] < 0 THEN -Hash[k] ELSE Hash[k]
HasLock(k) == Hash[k] # MinInt
LockIds == {LockId(k) : k \in {j \in Keys : HasLock(j)}}

Goto(c, l) == pc' = [pc EXCEPT ![c] = l]
Answer(c, a) == answer' = [answer EXCEPT ![c] = a]

\* The end of a transaction releases its advisory lock.
Release(c) == holder' = [l \in LockIds |-> IF holder[l] = c THEN NoOrder ELSE holder[l]]

\* The lock is one of the session (pg_advisory_lock), which outlives the
\* transaction.
RollbackKeepsLock(c) ==
  /\ Goto(c, "done")
  /\ Answer(c, "failed")
  /\ UNCHANGED <<key, found, tableVars, holder>>

\* Return with an error: the deferred Rollback.
Rollback(c) ==
  /\ Goto(c, "done")
  /\ Answer(c, "failed")
  /\ Release(c)
  /\ UNCHANGED <<key, found, tableVars>>

-----------------------------------------------------------------------------
BeginTx(c, k) ==
  /\ pc[c] = "idle"
  /\ key' = [key EXCEPT ![c] = k]
  /\ Goto(c, IF k = NoKey THEN "order" ELSE "lock")
  /\ Answer(c, "pending")
  /\ UNCHANGED <<found, tableVars, holder>>

\* The lock is shared by those who want it.
AdvisoryLockShared(c) ==
  /\ pc[c] = "lock"
  /\ HasLock(key[c])
  /\ holder' = [holder EXCEPT ![LockId(key[c])] = c]
  /\ Goto(c, "lookup")
  /\ UNCHANGED <<key, found, answer, tableVars>>

\* pg_advisory_xact_lock waits for the transaction that holds the lock.
AdvisoryLock(c) ==
  /\ pc[c] = "lock"
  /\ HasLock(key[c])
  /\ holder[LockId(key[c])] = NoOrder
  /\ holder' = [holder EXCEPT ![LockId(key[c])] = c]
  /\ Goto(c, "lookup")
  /\ UNCHANGED <<key, found, answer, tableVars>>

\* The wrong column is read.
LookupKeyColumn(c) ==
  /\ pc[c] = "lookup"
  /\ IF keys[key[c]] = NoOrder
     THEN Goto(c, "order") /\ UNCHANGED found
     ELSE Goto(c, "load") /\ found' = [found EXCEPT ![c] = key[c]]
  /\ UNCHANGED <<key, answer, tableVars, holder>>

LookupKey(c) ==
  /\ pc[c] = "lookup"
  /\ found' = [found EXCEPT ![c] = keys[key[c]]]
  /\ Goto(c, IF keys[key[c]] = NoOrder THEN "order" ELSE "load")
  /\ UNCHANGED <<key, answer, tableVars, holder>>

LoadOrder(c) ==
  /\ pc[c] = "load"
  /\ found[c] \in rows
  /\ Goto(c, "commit")
  /\ UNCHANGED <<key, found, answer, tableVars, holder>>

InsertOrder(c) ==
  /\ pc[c] = "order"
  /\ Goto(c, IF key[c] = NoKey THEN "commit" ELSE "key")
  /\ UNCHANGED <<key, found, answer, tableVars, holder>>

\* Transactions that have inserted the key and are neither committed nor
\* rolled back: the primary key makes another insert wait for them.
Inserters(k) == {c \in Calls : /\ key[c] = k /\ found[c] = NoOrder
                               /\ pc[c] \in {"commit", "committing"}}

InsertKey(c) ==
  /\ pc[c] = "key"
  /\ Inserters(key[c]) = {}
  /\ IF keys[key[c]] = NoOrder
     THEN Goto(c, "commit") /\ UNCHANGED <<key, found, answer, tableVars, holder>>
     ELSE Rollback(c)

\* The key is inserted in a transaction of its own, which is still to come.
WritesOrderOnly(c) ==
  /\ rows' = IF found[c] = NoOrder THEN rows \cup {c} ELSE rows
  /\ UNCHANGED keys

\* What the commit makes visible.
Writes(c) ==
  IF found[c] = NoOrder
  THEN /\ rows' = rows \cup {c}
       /\ keys' = IF key[c] = NoKey THEN keys ELSE [keys EXCEPT ![key[c]] = c]
  ELSE UNCHANGED tableVars

\* The order that was found is reported as new.
CommitAsCreated(c) ==
  /\ pc[c] = "commit"
  /\ Writes(c)
  /\ Goto(c, "done")
  /\ Answer(c, "created")
  /\ Release(c)
  /\ UNCHANGED <<key, found>>

Commit(c) ==
  /\ pc[c] = "commit"
  /\ Writes(c)
  /\ Goto(c, "done")
  /\ Answer(c, IF found[c] = NoOrder THEN "created" ELSE "existing")
  /\ Release(c)
  /\ UNCHANGED <<key, found>>

\* A statement fails, for a key whose hash has no absolute value always.
StatementFails(c) == pc[c] \in Running /\ Rollback(c)

\* The connection breaks or the process ends: the call is over, and the
\* server keeps the transaction, with its lock, until it notices.
ConnectionLost(c) ==
  /\ pc[c] \in Running
  /\ Goto(c, IF pc[c] = "commit" THEN "committing" ELSE "orphan")
  /\ Answer(c, "failed")
  /\ UNCHANGED <<key, found, tableVars, holder>>

\* PostgreSQL ends an abandoned transaction; a commit that it has received is
\* carried out.
Resolve(c) ==
  /\ \/ pc[c] \in {"orphan", "committing"} /\ UNCHANGED tableVars
     \/ pc[c] = "committing" /\ Writes(c)
  /\ Goto(c, "done")
  /\ Release(c)
  /\ UNCHANGED <<key, found, answer>>

-----------------------------------------------------------------------------
Init ==
  /\ pc = [c \in Calls |-> "idle"]
  /\ key = [c \in Calls |-> NoKey]
  /\ found = [c \in Calls |-> NoOrder]
  /\ answer = [c \in Calls |-> "idle"]
  /\ rows = {}
  /\ keys = [k \in Keys |-> NoOrder]
  /\ holder = [l \in LockIds |-> NoOrder]

Statement(c) ==
  \/ AdvisoryLock(c) \/ LookupKey(c) \/ LoadOrder(c)
  \/ InsertOrder(c) \/ InsertKey(c) \/ Commit(c)
  \/ StatementFails(c)

Next ==
  \E c \in Calls : \/ \E k \in Keys \cup {NoKey} : BeginTx(c, k)
                   \/ Statement(c) \/ ConnectionLost(c) \/ Resolve(c)

Spec == Init /\ [][Next]_vars

\* A statement that can be carried out is; one whose key has no lock fails;
\* abandoned transactions are ended.  Nobody promises that a statement that
\* has to wait fails.
MustWait(c) ==
  IF pc[c] = "lock" /\ HasLock(key[c]) THEN holder[LockId(key[c])] # NoOrder ELSE FALSE

Fairness ==
  \A c \in Calls : /\ WF_vars(~MustWait(c) /\ Statement(c))
                   /\ SF_vars(AdvisoryLock(c))
                   /\ WF_vars(Resolve(c))

FairSpec == Spec /\ Fairness

-----------------------------------------------------------------------------
TypeOK ==
  /\ pc \in [Calls -> Running \cup {"idle", "orphan", "committing", "done"}]
  /\ key \in [Calls -> Keys \cup {NoKey}]
  /\ found \in [Calls -> Calls \cup {NoOrder}]
  /\ answer \in [Calls -> {"idle", "pending", "created", "existing", "failed"}]
  /\ rows \subseteq Calls
  /\ keys \in [Keys -> Calls \cup {NoOrder}]
  /\ holder \in [LockIds -> Calls \cup {NoOrder}]

(***************************************************************************)
(* The lock does what it is there for (order_repo.go:72): a call that has  *)
(* found no order for its key does not run into one when it inserts the    *)
(* key, so no call fails because a concurrent one with its key was faster, *)
(* abandoned transactions and keys that share a lock included.             *)
(***************************************************************************)
NoKeyConflict ==
  \A c \in Calls : pc[c] = "key" => /\ keys[key[c]] = NoOrder
                                    /\ Inserters(key[c]) = {}

(***************************************************************************)
(* An order that was created for a key is found by that key, also after a  *)
(* lost commit or a failed call (order_repo.go:108-121): a retry never     *)
(* makes a second one, and a key never names an order that is not there.   *)
(***************************************************************************)
KeyedOrdersFound ==
  /\ \A c \in rows : key[c] # NoKey => keys[key[c]] = c
  /\ \A k \in Keys : keys[k] # NoOrder => keys[k] \in rows

(***************************************************************************)
(* Every call ends: the wait for the lock (order_repo.go:72) is over when  *)
(* the transactions before it have ended, and there is no circle of them.  *)
(***************************************************************************)
CallsEnd ==
  \A c \in Calls : answer[c] = "pending" ~> answer[c] # "pending"

Store == INSTANCE IdempotencyStore WITH asked <- key

(***************************************************************************)
(* The transaction implements the single step that OrderService makes of   *)
(* it (LoadByKey, InsertPending, CreateFails there).                       *)
(***************************************************************************)
ImplementsStore == Store!StoreSpec
=============================================================================

----------------------- MODULE IdempotentCreateProofs -----------------------
(***************************************************************************)
(* What the transaction of CreatePendingWithIdempotency guarantees for any *)
(* number of calls and keys and any hash, and that it implements the       *)
(* single step that OrderService makes of it.                              *)
(***************************************************************************)
EXTENDS IdempotentCreate, TLAPS

\* The transactions that the server has begun and not ended.
Begun == Running \cup {"orphan", "committing"}

\* The callers' view: a call is pending until its transaction has ended or is
\* out of its hands.
AnswerOK ==
  \A c \in Calls :
    /\ pc[c] = "idle" <=> answer[c] = "idle"
    /\ pc[c] \in Running <=> answer[c] = "pending"
    /\ pc[c] \in {"orphan", "committing"} => answer[c] = "failed"

\* Only a call with a key asks for its lock and looks its order up.
PathOK ==
  \A c \in Calls :
    /\ pc[c] \in {"lock", "lookup", "load", "key"} => key[c] # NoKey
    /\ pc[c] \in {"idle", "lock", "lookup", "order", "key"} => found[c] = NoOrder
    /\ pc[c] = "load" => found[c] # NoOrder

\* From its look-up to the end of its commit, a call with a key has the lock.
HoldsLock ==
  \A c \in Calls :
    pc[c] \in {"lookup", "load", "order", "key", "commit", "committing"}
      /\ key[c] # NoKey
        => HasLock(key[c]) /\ holder[LockId(key[c])] = c

\* What it has found, or not found, under the lock is still so.
FoundOK ==
  \A c \in Calls :
    pc[c] \in {"load", "order", "key", "commit", "committing"} /\ key[c] # NoKey
      => keys[key[c]] = found[c]

FoundHasKey == \A c \in Calls : found[c] # NoOrder => key[c] # NoKey

\* An order is in the table only when the call that inserts it has committed,
\* and a key names an order that was inserted for it.
RowsOK ==
  /\ \A c \in rows : /\ pc[c] = "done"
                     /\ key[c] # NoKey => keys[key[c]] = c
  /\ \A k \in Keys : keys[k] # NoOrder => keys[k] \in rows /\ key[keys[k]] = k

(***************************************************************************)
(* NoKeyConflict is not inductive: that a call finds no order for its key  *)
(* says nothing about the moment at which it inserts the key, unless it    *)
(* has held the lock all the while (HoldsLock) and what it read under it   *)
(* is still true (FoundOK).                                                *)
(***************************************************************************)
StoreInv ==
  /\ TypeOK
  /\ AnswerOK
  /\ PathOK
  /\ HoldsLock
  /\ FoundOK
  /\ FoundHasKey
  /\ RowsOK

-----------------------------------------------------------------------------
LEMMA LocksExist == \A k \in Keys : HasLock(k) => LockId(k) \in LockIds
  BY DEF LockIds

LEMMA InitStore == Init => StoreInv
  BY DEF Init, StoreInv, TypeOK, AnswerOK, PathOK, HoldsLock, FoundOK, FoundHasKey,
         RowsOK, Running

\* Two calls that are both between their look-up and the end of their commit
\* have different keys.
LEMMA Exclusive ==
  ASSUME StoreInv, NEW c \in Calls, NEW d \in Calls, key[c] # NoKey, key[d] = key[c],
         pc[c] \in {"lookup", "load", "order", "key", "commit", "committing"},
         pc[d] \in {"lookup", "load", "order", "key", "commit", "committing"}
  PROVE  c = d
  BY DEF StoreInv, HoldsLock

\* A step of call c inside its transaction: nothing is visible to others yet.
LEMMA StatementKeeps ==
  ASSUME StoreInv, NEW c \in Calls, UNCHANGED <<key, answer, rows, keys, holder>>,
         pc[c] \in Running,
         NEW l \in {"load", "order", "key", "commit"}, pc' = [pc EXCEPT ![c] = l],
         NEW o \in Calls \cup {NoOrder}, found' = [found EXCEPT ![c] = o],
         pc[c] # "lock",
         l \in {"load", "key"} => key[c] # NoKey,
         l \in {"order", "key"} => o = NoOrder,
         l = "load" => o # NoOrder,
         o # NoOrder => key[c] # NoKey,
         key[c] # NoKey => keys[key[c]] = o
  PROVE  StoreInv'
<1> USE DEF StoreInv, TypeOK, Running
<1>1. TypeOK'
  OBVIOUS
<1>2. AnswerOK'
  BY DEF AnswerOK
<1>3. PathOK'
  BY DEF PathOK
<1>4. HoldsLock'
  BY DEF HoldsLock
<1>5. FoundOK'
  BY DEF FoundOK
<1>6. FoundHasKey'
  BY DEF FoundHasKey
<1>7. RowsOK'
  BY DEF RowsOK
<1> QED BY <1>1, <1>2, <1>3, <1>4, <1>5, <1>6, <1>7

\* The end of a transaction that leaves nothing behind but its answer.
LEMMA EndKeeps ==
  ASSUME StoreInv, NEW c \in Calls, UNCHANGED <<key, found, rows, keys>>,
         pc[c] \in Begun, pc' = [pc EXCEPT ![c] = "done"], Release(c),
         NEW a \in {"created", "existing", "failed"}, answer' = [answer EXCEPT ![c] = a]
  PROVE  StoreInv'
<1> USE DEF StoreInv, TypeOK, Running, Begun
<1>1. TypeOK'
  BY DEF Release
<1>2. AnswerOK'
  BY DEF AnswerOK
<1>3. PathOK'
  BY DEF PathOK
<1>4. HoldsLock'
  BY LocksExist, IdempotencyAssumption DEF HoldsLock, Release
<1>5. FoundOK'
  BY DEF FoundOK
<1>6. FoundHasKey'
  BY DEF FoundHasKey
<1>7. RowsOK'
  BY DEF RowsOK
<1> QED BY <1>1, <1>2, <1>3, <1>4, <1>5, <1>6, <1>7

\* The end of a transaction that makes a new order visible, with its key.
LEMMA InsertKeeps ==
  ASSUME StoreInv, NEW c \in Calls, UNCHANGED <<key, found>>,
         pc[c] \in {"commit", "committing"}, found[c] = NoOrder, Writes(c),
         pc' = [pc EXCEPT ![c] = "done"], Release(c),
         NEW a \in {"created", "failed"}, answer' = [answer EXCEPT ![c] = a]
  PROVE  StoreInv'
<1> USE IdempotencyAssumption DEF StoreInv, TypeOK, Running
<1>0. /\ rows' = rows \cup {c}
      /\ keys' = IF key[c] = NoKey THEN keys ELSE [keys EXCEPT ![key[c]] = c]
      /\ key[c] # NoKey => keys[key[c]] = NoOrder
  BY DEF Writes, FoundOK
<1>1. TypeOK'
  BY <1>0 DEF Release
<1>2. AnswerOK'
  BY DEF AnswerOK
<1>3. PathOK'
  BY DEF PathOK
<1>4. HoldsLock'
  BY LocksExist DEF HoldsLock, Release
<1>5. FoundOK'
  <2> SUFFICES ASSUME NEW d \in Calls, key[d] # NoKey, d # c,
                      pc[d] \in {"load", "order", "key", "commit", "committing"}
               PROVE  keys'[key[d]] = found[d]
    BY DEF FoundOK
  <2>1. key[d] # key[c]
    BY Exclusive
  <2> QED BY <1>0, <2>1 DEF FoundOK
<1>6. FoundHasKey'
  BY DEF FoundHasKey
<1>7. RowsOK'
  BY <1>0 DEF RowsOK
<1> QED BY <1>1, <1>2, <1>3, <1>4, <1>5, <1>6, <1>7

LEMMA RollbackKeeps ==
  ASSUME StoreInv, NEW c \in Calls, pc[c] \in Begun, Rollback(c)
  PROVE  StoreInv'
  BY EndKeeps DEF Rollback, Goto, Answer, tableVars

LEMMA NextStore ==
  ASSUME StoreInv, [Next]_vars
  PROVE  StoreInv'
<1> USE DEF Goto, Answer, tableVars
<1>1. ASSUME NEW c \in Calls, NEW k \in Keys \cup {NoKey}, BeginTx(c, k)
      PROVE  StoreInv'
  <2> USE <1>1, IdempotencyAssumption DEF BeginTx, StoreInv, TypeOK, Running
  <2>1. TypeOK'
    OBVIOUS
  <2>2. AnswerOK'
    BY DEF AnswerOK
  <2>3. PathOK'
    BY DEF PathOK
  <2>4. HoldsLock'
    BY DEF HoldsLock
  <2>5. FoundOK'
    BY DEF FoundOK
  <2>6. FoundHasKey'
    BY DEF FoundHasKey, PathOK
  <2>7. RowsOK'
    BY DEF RowsOK
  <2> QED BY <2>1, <2>2, <2>3, <2>4, <2>5, <2>6, <2>7
<1>2. ASSUME NEW c \in Calls, AdvisoryLock(c)
      PROVE  StoreInv'
  <2> USE <1>2, IdempotencyAssumption DEF AdvisoryLock, StoreInv, TypeOK, Running
  <2>0. key[c] \in Keys /\ LockId(key[c]) \in LockIds
    BY LocksExist DEF PathOK
  <2>1. TypeOK'
    OBVIOUS
  <2>2. AnswerOK'
    BY DEF AnswerOK
  <2>3. PathOK'
    BY DEF PathOK
  <2>4. HoldsLock'
    BY <2>0, LocksExist DEF HoldsLock
  <2>5. FoundOK'
    BY DEF FoundOK
  <2>6. FoundHasKey'
    BY DEF FoundHasKey
  <2>7. RowsOK'
    BY DEF RowsOK
  <2> QED BY <2>1, <2>2, <2>3, <2>4, <2>5, <2>6, <2>7
<1>3. ASSUME NEW c \in Calls, LookupKey(c)
      PROVE  StoreInv'
  <2>1. key[c] \in Keys /\ keys[key[c]] \in Calls \cup {NoOrder}
    BY <1>3 DEF LookupKey, StoreInv, TypeOK, PathOK
  <2> QED BY <1>3, <2>1, StatementKeeps DEF LookupKey, Running, StoreInv, PathOK
<1>4. ASSUME NEW c \in Calls, LoadOrder(c)
      PROVE  StoreInv'
  <2>1. /\ found = [found EXCEPT ![c] = found[c]]
        /\ found[c] \in Calls \cup {NoOrder}
        /\ key[c] # NoKey => keys[key[c]] = found[c]
    BY <1>4 DEF LoadOrder, StoreInv, TypeOK, FoundOK
  <2> QED BY <1>4, <2>1, StatementKeeps DEF LoadOrder, Running, StoreInv, PathOK, FoundHasKey
<1>5. ASSUME NEW c \in Calls, InsertOrder(c)
      PROVE  StoreInv'
  <2>1. /\ found = [found EXCEPT ![c] = NoOrder]
        /\ key[c] # NoKey => keys[key[c]] = NoOrder
    BY <1>5 DEF InsertOrder, StoreInv, TypeOK, FoundOK, PathOK
  <2> QED BY <1>5, <2>1, StatementKeeps DEF InsertOrder, Running
<1>6. ASSUME NEW c \in Calls, InsertKey(c)
      PROVE  StoreInv'
  <2>1. /\ found = [found EXCEPT ![c] = NoOrder]
        /\ key[c] # NoKey => keys[key[c]] = NoOrder
    BY <1>6 DEF InsertKey, StoreInv, TypeOK, FoundOK, PathOK
  <2>2. CASE Rollback(c)
    BY <1>6, <2>2, RollbackKeeps DEF InsertKey, Begun, Running
  <2>3. CASE /\ pc' = [pc EXCEPT ![c] = "commit"]
             /\ UNCHANGED <<key, found, answer, tableVars, holder>>
    BY <1>6, <2>1, <2>3, StatementKeeps DEF InsertKey, Running
  <2> QED BY <1>6, <2>2, <2>3 DEF InsertKey
<1>7. ASSUME NEW c \in Calls, Commit(c)
      PROVE  StoreInv'
  <2>1. CASE found[c] = NoOrder
    BY <1>7, <2>1, InsertKeeps DEF Commit
  <2>2. CASE found[c] # NoOrder
    BY <1>7, <2>2, EndKeeps DEF Commit, Writes, Begun, Running
  <2> QED BY <2>1, <2>2
<1>8. ASSUME NEW c \in Calls, StatementFails(c)
      PROVE  StoreInv'
  BY <1>8, RollbackKeeps DEF StatementFails, Begun
<1>9. ASSUME NEW c \in Calls, ConnectionLost(c)
      PROVE  StoreInv'
  <2> USE <1>9 DEF ConnectionLost, StoreInv, TypeOK, Running
  <2>1. TypeOK'
    OBVIOUS
  <2>2. AnswerOK'
    BY DEF AnswerOK
  <2>3. PathOK'
    BY DEF PathOK
  <2>4. HoldsLock'
    BY DEF HoldsLock
  <2>5. FoundOK'
    BY DEF FoundOK
  <2>6. FoundHasKey'
    BY DEF FoundHasKey
  <2>7. RowsOK'
    BY DEF RowsOK
  <2> QED BY <2>1, <2>2, <2>3, <2>4, <2>5, <2>6, <2>7
<1>10. ASSUME NEW c \in Calls, Resolve(c)
       PROVE  StoreInv'
  <2>1. answer[c] = "failed" /\ answer = [answer EXCEPT ![c] = "failed"]
    BY <1>10 DEF Resolve, StoreInv, TypeOK, AnswerOK
  <2>2. CASE UNCHANGED tableVars
    BY <1>10, <2>1, <2>2, EndKeeps DEF Resolve, Begun
  <2>3. CASE pc[c] = "committing" /\ Writes(c) /\ found[c] = NoOrder
    BY <1>10, <2>1, <2>3, InsertKeeps DEF Resolve
  <2>4. CASE pc[c] = "committing" /\ Writes(c) /\ found[c] # NoOrder
    BY <2>2, <2>4 DEF Writes
  <2> QED BY <1>10, <2>2, <2>3, <2>4 DEF Resolve
<1>11. CASE UNCHANGED vars
  BY <1>11 DEF vars, StoreInv, TypeOK, AnswerOK, PathOK, HoldsLock, FoundOK,
               FoundHasKey, RowsOK
<1> QED BY <1>1, <1>2, <1>3, <1>4, <1>5, <1>6, <1>7, <1>8, <1>9, <1>10, <1>11
        DEF Next, Statement

LEMMA StoreAlways == Spec => []StoreInv
<1>1. Init => StoreInv
  BY InitStore
<1>2. StoreInv /\ [Next]_vars => StoreInv'
  BY NextStore
<1> QED BY <1>1, <1>2, PTL DEF Spec

(***************************************************************************)
(* The transaction keeps to its types, whatever fails or is abandoned.     *)
(***************************************************************************)
THEOREM IdempotencyTypeCorrect == Spec => []TypeOK
<1>1. StoreInv => TypeOK
  BY DEF StoreInv
<1> QED BY <1>1, StoreAlways, PTL

(***************************************************************************)
(* A call that has found no order for its key does not run into one when   *)
(* it inserts the key (order_repo.go:72-119), for any number of calls, any *)
(* hash, abandoned transactions and keys that share a lock.                *)
(***************************************************************************)
THEOREM KeysNeverConflict == Spec => []NoKeyConflict
<1>1. StoreInv => NoKeyConflict
  <2> SUFFICES ASSUME StoreInv, NEW c \in Calls, pc[c] = "key"
               PROVE  keys[key[c]] = NoOrder /\ Inserters(key[c]) = {}
    BY DEF NoKeyConflict
  <2>1. key[c] # NoKey /\ keys[key[c]] = NoOrder
    BY DEF StoreInv, PathOK, FoundOK
  <2>2. ASSUME NEW d \in Inserters(key[c]) PROVE FALSE
    <3>1. d = c
      BY <2>1, <2>2, Exclusive DEF Inserters
    <3> QED BY <2>2, <3>1 DEF Inserters
  <2> QED BY <2>1, <2>2
<1> QED BY <1>1, StoreAlways, PTL

(***************************************************************************)
(* An order that was created for a key is found by it, and a key names no  *)
(* order that is not there, lost commits included (order_repo.go:108-121). *)
(***************************************************************************)
THEOREM OrdersFoundByKey == Spec => []KeyedOrdersFound
<1>1. StoreInv => KeyedOrdersFound
  BY DEF StoreInv, RowsOK, KeyedOrdersFound
<1> QED BY <1>1, StoreAlways, PTL

-----------------------------------------------------------------------------
\* Every step of the transaction is a step of the store, or none that a caller
\* or another transaction could see.
LEMMA StepRefines ==
  ASSUME StoreInv, [Next]_vars
  PROVE  [Store!StoreNext]_<<rows, keys, key, answer>>
<1> USE DEF Goto, Answer, tableVars, StoreInv, TypeOK
<1>1. ASSUME NEW c \in Calls, NEW k \in Keys \cup {NoKey}, BeginTx(c, k)
      PROVE  Store!Ask(c, k)
  BY <1>1 DEF BeginTx, Store!Ask, AnswerOK
<1>2. ASSUME NEW c \in Calls,
             AdvisoryLock(c) \/ LookupKey(c) \/ LoadOrder(c) \/ InsertOrder(c)
      PROVE  UNCHANGED <<rows, keys, key, answer>>
  BY <1>2 DEF AdvisoryLock, LookupKey, LoadOrder, InsertOrder
<1>3. ASSUME NEW c \in Calls, pc[c] \in Running, Rollback(c)
      PROVE  Store!Failed(c)
  BY <1>3 DEF Rollback, AnswerOK, Store!Failed, Store!Tell
<1>4. ASSUME NEW c \in Calls, InsertKey(c)
      PROVE  Store!Failed(c) \/ UNCHANGED <<rows, keys, key, answer>>
  BY <1>3, <1>4 DEF InsertKey, Running
\* The commit of a new order finds its key free, because the call has held the
\* lock since it looked the key up.
<1>5. ASSUME NEW c \in Calls, pc[c] \in {"commit", "committing"}, found[c] = NoOrder,
             Writes(c), UNCHANGED key
      PROVE  Store!Insert(c)
  <2>1. key[c] # NoKey => keys[key[c]] = NoOrder
    BY <1>5 DEF FoundOK
  <2>2. c \notin rows
    BY <1>5 DEF RowsOK
  <2>3. key[c] \in Keys <=> key[c] # NoKey
    BY IdempotencyAssumption
  <2> QED BY <1>5, <2>1, <2>2, <2>3 DEF Writes, Store!Insert
<1>6. ASSUME NEW c \in Calls, Commit(c)
      PROVE  Store!Created(c) \/ Store!Existing(c)
  <2>1. answer[c] = "pending"
    BY <1>6 DEF Commit, AnswerOK, Running
  <2>2. CASE found[c] = NoOrder
    BY <1>5, <1>6, <2>1, <2>2 DEF Commit, Store!Created, Store!Tell
  <2>3. CASE found[c] # NoOrder
    <3>1. key[c] \in Keys /\ keys[key[c]] # NoOrder
      BY <1>6, <2>3 DEF Commit, FoundOK, FoundHasKey
    <3> QED BY <1>6, <2>1, <2>3, <3>1 DEF Commit, Writes, Store!Existing, Store!Tell
  <2> QED BY <2>2, <2>3
<1>7. ASSUME NEW c \in Calls, ConnectionLost(c)
      PROVE  Store!Failed(c)
  BY <1>7 DEF ConnectionLost, AnswerOK, Store!Failed, Store!Tell
<1>8. ASSUME NEW c \in Calls, Resolve(c)
      PROVE  Store!Late(c) \/ UNCHANGED <<rows, keys, key, answer>>
  <2>1. CASE UNCHANGED tableVars
    BY <1>8, <2>1 DEF Resolve
  <2>2. CASE pc[c] = "committing" /\ Writes(c) /\ found[c] = NoOrder
    BY <1>5, <1>8, <2>2 DEF Resolve, AnswerOK, Store!Late
  <2>3. CASE pc[c] = "committing" /\ Writes(c) /\ found[c] # NoOrder
    BY <1>8, <2>3 DEF Resolve, Writes
  <2> QED BY <1>8, <2>1, <2>2, <2>3 DEF Resolve
<1>9. CASE UNCHANGED vars
  BY <1>9 DEF vars
<1> QED BY <1>1, <1>2, <1>3, <1>4, <1>6, <1>7, <1>8, <1>9
        DEF Next, Statement, StatementFails, Store!StoreNext

(***************************************************************************)
(* The transaction of CreatePendingWithIdempotency (order_repo.go:58-125)  *)
(* implements the single step that OrderService is built on, for any       *)
(* number of concurrent calls and whatever fails.                          *)
(***************************************************************************)
THEOREM TransactionImplementsStep == Spec => ImplementsStore
<1>1. Init => Store!StoreInit
  BY DEF Init, Store!StoreInit
<1>2. StoreInv /\ [Next]_vars => [Store!StoreNext]_<<rows, keys, key, answer>>
  BY StepRefines
<1> QED BY <1>1, <1>2, StoreAlways, PTL
        DEF Spec, ImplementsStore, Store!StoreSpec, Store!storeVars
=============================================================================

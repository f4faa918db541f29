# Orders, payments, notifications: a TLA+ development

This directory holds a formal model of the system in `src/`: three Go services
that take orders, authorize their payments and tell customers about it. The
modules are written from the Go sources; `PROJECT.json` records for every
definition which lines it stands for.

## 1. Inventory

| part | state it keeps | operations | what makes it hard |
|---|---|---|---|
| **payment-service** use cases (`usecase/authorize_payment.go`) | none of their own | `AuthorizePayment`: validate, look up the order's payment, decide by the ceiling of 100000 cents, save, publish; `GetPaymentByOrder` | look-up and save are two statements; the row is committed before the event is published, and every later step may fail |
| payment repository (`repository/postgres/payment_repo.go`) | table `payments`, unique on `order_id` | `Save`, `GetByOrderID` | an INSERT cancelled by its context may have been committed |
| publisher (`infrastructure/rabbitmq/publisher.go`) | one AMQP channel, one Go channel of 8 confirmations, shared by all handlers | `PublishPaymentCompleted` | handlers receive each other's confirmations; the connection is dialled once; a confirmation stays behind when its handler gives up |
| payment transports (`transport/grpc`, `transport/http`) | none | input checks, translation of errors | "payment already exists" becomes `codes.Internal`; a missing payment is a nil pointer in `GetPaymentStatus` |
| **order-service** use cases (`usecase/create_order.go`, `get_order.go`, `cancel_order.go`) | none of their own | `CreateOrder`, `reconcileFromPaymentService`, `GetOrder`, `CancelOrder` | reads, remote call and write are separate steps of concurrent requests; the outcome of a timed-out call is unknown |
| order repository (`repository/postgres/order_repo.go`) | tables `orders`, `idempotency_keys` | `CreatePendingWithIdempotency` (one transaction under an advisory lock), `GetByID`, `UpdateStatus` | the update has no condition on the status it replaces |
| order cache (`infrastructure/rediscache/order_cache.go`) | one Redis key per order, with a TTL | `Get`, `Set`, `Delete` | errors are ignored; a slow reader can store an old copy |
| payment adapters (`adapter/grpc/payment_client.go`, `adapter/payment/rest_client.go`) | none | `AuthorizePayment` with a deadline, `GetStatus` | the two map failures to different errors, and the use case acts on them |
| order stream (`transport/grpc/server.go`) | `subs` and `lastStatuses` per order, a monitor goroutine | subscribe, poll, notify, remove, stop | one goroutine per send, a slice changed while it is iterated over, `close` of a channel, handlers that a graceful stop waits for |
| stream client (`client/stream_client.go`) | the stream | subscribe, print updates until the end | a signal that `Recv` does not see |
| **notification-service** (`notify/processor.go`, `postgres`, `redisnotify`, `email`, `cmd/.../main.go`) | table `processed_events`, marks in Redis, the queue and its dead letters | consume, check twice, send with retries, record, mark, answer | at-least-once delivery, crashes between send and record, requeueing, shutdown with a message in hand |
| generated code (`*.pb.go`) | none | encoding and decoding | every program has a copy of its own |
| SQL scripts, interceptors | none | | |

order-service calls payment-service synchronously (gRPC as wired by `main`; a
REST adapter exists too). payment-service publishes one event per authorized
payment to RabbitMQ; notification-service declares the queue and consumes it.
The services share no database.

What each part has to get right:

* payment-service: one payment per order, whatever races and fails; replies
  that agree with the table; no event without a payment; no handler waiting for
  ever.
* order-service: an order is `Paid` only if its payment was authorized; the
  amount charged is the order's; a key names one order; a failure has a cause; a
  final status stays; requests end; the cache ends up right; an order whose
  payment went through does not stay pending.
* the idempotent insert: concurrent and repeated calls with one key end with one
  order, and no call waits for ever.
* notification-service: no event is lost; nothing is sent after it was recorded;
  a second email has a known cause; every event is settled.
* order stream: the registry is right, changes are noticed and handed out,
  broken streams go away, a stop ends.

`hazards` in `PROJECT.json` lists the places where these can go wrong, each with
the properties that would notice.

## 2. Modules

| module | models |
|---|---|
| `PaymentLedger` | abstract specification of payment-service for its callers: one final payment per order, calls answered at most once, truthfully, with a failure, or not at all |
| `PaymentService` | the service in detail; implements `PaymentLedger` |
| `Wire` | encoding and decoding of the messages between the programs, with the field tables of each program's copy |
| `OrderService` | order-service, composed with `PaymentLedger` through `INSTANCE`; its calls go through `Wire` |
| `IdempotencyStore` | abstract specification of `CreatePendingWithIdempotency`: one step, which `OrderService` is built on |
| `IdempotentCreate` | its transaction, statement by statement; implements `IdempotencyStore` |
| `NotificationDelivery` | abstract specification of notification-service: an event is emailed before it is acknowledged, and settled |
| `NotificationService` | the consumer and its stores; implements `NotificationDelivery` |
| `OrderStream` | the streaming server of order-service and its clients, through `Wire` |
| `MCPaymentService`, `MCOrderService`, `MCIdempotentCreate`, `MCNotificationService`, `MCOrderStream` | values of constants and symmetries for TLC |
| `PaymentServiceProofs`, `PaymentEventsProofs`, `PaymentLedgerProofs` | theorems on payment-service: its table and replies, its events and confirmations, the refinement |
| `OrderServiceProofs`, `WireProofs`, `IdempotentCreateProofs`, `NotificationServiceProofs`, `OrderStreamProofs` | theorems on the other modules |

### PaymentService

`Calls` are the gRPC and HTTP calls, each with a goroutine (`pc`, `arg`,
`outcome`). A call mints at most one payment id, so the call stands for the id
and for the event. `payments` is the table. `wire`, `confirms` and `acked` are
the AMQP connection: events published and unconfirmed, the Go channel
`p.confirms`, and (history) the events the broker accepted. `queue` and `bound`
are the broker's durable queue. `up`, `open` and `faults` describe the process.

| action | code |
|---|---|
| `AuthorizePayment`, `GetPaymentStatus`, `GetPaymentStatusPanics` | the handlers; over gRPC a missing payment is dereferenced and ends the process |
| `GetByOrderID`, `Save`, `SaveConflict`, `SaveFails` | the statements of the use case; `SaveFails` with and without the row committed; `AfterSave` holds what follows a commit, the missing address included |
| `PublishPaymentCompleted`, `AwaitConfirm`, `ConfirmsClosed`, `CtxDone` | the publish and the three ways its `select` ends |
| `BrokerAck`, `BrokerNack`, `DeclareQueue` | RabbitMQ and amqp091, external, as the publisher uses them |
| `ConnectionLost`, `Crash`, `Restart` | faults; nothing dials again except a new process |

Names, currencies and message bodies are left out; the customer's address is
present or not, which is all the code looks at. A shutdown is a `Crash`: the
HTTP server is not drained, and the gRPC server's drain only removes behaviours.

### PaymentLedger and the refinement

`ledger` maps an order to the status of its payment. `Record` writes it once;
`Finish` and `Refuse` answer; `Die` loses the calls in progress. `PaymentService`
maps the table to `ledger` and `pc`/`outcome` to `st`; `ImplementsLedger` says
that every step maps to a step of the ledger or to a stutter. What is given up
is exactly what a caller cannot see: why a call failed and the event's fate.

### OrderService

`Reqs` are slots for HTTP requests: a request starts when its slot is `idle` and
`Retire` frees the slot, so behaviours are infinite and retries are new requests
with the same key. `orders`, `amount` and `keys` are the tables, `cache` is
Redis. Each request has `key`, `ord`, `seen` (the status in its copy of the order
or in its response), `target` (the status it is about to write) and `result`.
`unanswered` is history: orders with a call that got no answer.

| action | code |
|---|---|
| `RejectInput`, `LoadByKey`, `InsertPending`, `CreateFails` | `POST /orders` up to the end of the transaction |
| `Authorize`, `Authorized`, `Unanswered` | the call to payment-service, its answer (`Translate`) or the deadline or broken connection (`NoAnswer`); `Continue` is the `switch` of `CreateOrder` |
| `Reconcile` | `reconcileFromPaymentService` |
| `UpdateStatus`, `UpdateFails`, `Invalidate`, `Fresh` | the update, the deletion of the cache key, the read for the response |
| `GetOrder`, `Load`, `Fill` | `GET /orders/:id` |
| `CancelOrder` | `PATCH /orders/:id/cancel`, then the same update |
| `Expire`, `Crash`, `PaymentStep`, `PaymentDies` | TTL, process end, payment-service at work |

The transaction of `CreatePendingWithIdempotency` is one step here, which
`IdempotentCreate` justifies. A slot whose call payment-service is still working
on is not retired before that work has ended; with several slots this does not
prevent a retry from overtaking a late call.

### Wire

`Marshal` leaves out the fields that have their zero value and tags the others
with the number (protobuf) or name (JSON) the sender's copy gives them;
`Unmarshal` looks for the numbers of the receiver's copy, skips what it does not
know and puts zero values back. The tables are one per message and program.
`OrderService` sends the requests of `AuthorizePayment` and `GetPaymentStatus` and
reads the responses through them (`CallArg`, `Received`, `AskedAbout`,
`StatusIn`), `OrderStream` the request and the updates
(`Requested`, `Printed`). The zero amount is a real case: it is not on the wire,
and payment-service refuses it.

### IdempotentCreate and IdempotencyStore

A call goes through the statements of the transaction: lock, look-up, load or
two inserts, commit. The order a call inserts has the call's name. `holder` is
PostgreSQL's table of advisory locks; `Hash` is `hashtext`, and the lock is the
absolute value of a 32-bit integer, so that two keys may share one and one value
has none (`HasLock`). `StatementFails` is the deferred `Rollback`;
`ConnectionLost` leaves the transaction to the server, which ends it later
(`Resolve`) and, if it had received the commit, may carry it out. Inserts are
invisible to others until the commit; the insert of a key waits for a
transaction that has inserted the same key (`Inserters`).

`IdempotencyStore` has one step per outcome: `Created`, `Existing`, `Failed`, and
`Late` for the order of a call that was told of a failure.

### NotificationService and NotificationDelivery

`ready`, `unacked`, `dlq` and `acked` are the broker; `processed` and `marked` the
two stores; `pc`, `cur`, `attempt` and `expired` the one worker (the prefetch is
one); `signal` and `open` the process. `emails` counts what went out, `gaps` the
emails of which the service could leave no record.

| action | code |
|---|---|
| `Receive`, `WasProcessed`, `AlreadySent`, `CheckFails` | `Processor.Handle` up to the first attempt; unreadable messages, the demonstration order and a missing address are dead letters |
| `Send`, `SendFails`, `SendUncertain`, `Backoff` | an attempt, its failure with or without an email taken by the provider, the wait between attempts |
| `RecordProcessed`, `RecordFails`, `MarkSent`, `MarkFails` | the two records, each of which may be written and reported as failed |
| `Ack`, `Requeue`, `DeadLetter` | the answer of `handle`, lost without a connection |
| `Publish`, `Deliver`, `ReturnUnacked`, `ExpireMark` | RabbitMQ and Redis, external |
| `Timeout`, `Signal`, `CancelWorker`, `Exit`, `Crash`, `ConnectionLost`, `Start` | the 120 s, the shutdown in its two steps, the ends of the process and its start |

`NotificationDelivery` keeps a `fate` for each event. `ImplementsDelivery` maps
the queue, the emails and the dead letters to it.

### OrderStream

`subs[orderID]` is a Go slice, so the state has its backing array (`array`) and
its length (`len`). `Register` is `append`: it writes into the next cell, and
moves to a new array first when there is none. `RemoveSubscriber` shifts
the cells in place. `TakeSlice` is where `notifySubscribers` copies the slice
header and gives the lock up; `Spawn` then reads one cell after the other
(`Cell`), of an array that removals go on shifting, unless the registry has moved
on to another one (`Kept`). It moves on when a slice has reached one of the
`Capacities` that `append` gives (in Go 1, 2, 4, 8, ... for a slice of pointers that
grows by one); the theorems hold for any.

`sending` counts the goroutines that are about to send a status to a stream:
they run in any order. A send that fails closes the subscriber's `done`; the
second time that panics and the process is gone (`SendUpdateFails`). A handler
whose first send fails returns without removing its subscriber (`"leaked"`). An
interrupted client leaves its loop with the next message.

## 3. Runs

| run | instance | shows |
|---|---|---|
| `payment` | 2 calls, 2 orders, amounts 0, 100000, 100001, channel of 1, 3 faults; 142 k states | `TypeOK`, `OnePaymentPerOrder`, `EventsBacked`, `ReplyTruthful`, `WaitersCovered`, `ImplementsLedger`, `CallsReturn` |
| `order_grpc` | 2 requests, 1 order, 2 keys, gRPC, cache; 268 k | `TypeOK`, `PaidIsAuthorized`, `ChargeMatchesOrder`, `FailedHasCause`, `OneOrderPerKey`, `OnlyStaleReadersOverwrite`, `RequestsEnd` |
| `order_rest` | 2 requests, 1 order, 1 key, REST, cache; 95 k | `FailedHasCause`, `CacheConverges`, `PendingPaymentSettles` |
| `idempotent_create` | 3 calls, 3 keys: two that share a lock, one without a lock; 26 k | `TypeOK`, `NoKeyConflict`, `KeyedOrdersFound`, `CallsEnd`, `ImplementsStore` |
| `notification` | 2 receipts, 1 demonstration event, 1 malformed message, 2 attempts, 2 faults; 97 k | `TypeOK`, `OneEmailButForGaps`, `HeldOnce`, `NoEmailOnceRecorded`, `ImplementsDelivery` |
| `order_stream` | 3 streams, 1 order, 1 change, 2 that leave; 624 k | `TypeOK`, `RegistryExact`, `MissedAtMostLeavers`, `GivenUpOnlyIfBroken` |
| `order_stream_liveness` | 2 streams, 1 order, 2 changes, 1 that leaves; 376 k | `PollCatchesUp`, `UpdateReleasesBroken` |

Five runs check what the documentation says and the code does not do. Each ends
with the counterexample:

| run | documented | what happens |
|---|---|---|
| `payment_confirm` | the broker accepted the message before the call succeeds (`ARCHITECTURE.md:85`) | a handler takes another's confirmation |
| `order_settles_grpc` | a pending order is completed or reconciled (`create_order.go:63`) | "already exists" arrives as `Internal` and is taken for an unavailable service; the order stays pending |
| `order_failed_charged` | a timed-out payment leaves the order pending (`create_order.go:73`) | the gRPC adapter passes the timeout on as a plain error and the order fails, while the payment is authorized |
| `order_stream_lost` | changes are pushed to all subscribers (`ARCHITECTURE.md:187-189`) | a change before the first poll of the order is never sent |
| `order_stream_stop` | a graceful shutdown cleans up (`README.md:307`), a handler waits "for updates or disconnection" (`server.go:90`) | the handler waits for a failing send only, `Stop` has ended the monitor that starts the sends, and `GracefulStop` waits for the handler of a client that has gone for ever |

More disagreements are behaviours of the models without a run of their own:

* A cancellation that read the order as pending overwrites `Paid`: `CancelOrder`
  checks and then updates without a condition on the old status
  (`cancel_order.go:27`, `order_repo.go:43`), where `handlers.go:89` says "only
  pending orders can be cancelled". `OnlyStaleReadersOverwrite` is what holds
  instead: whoever overwrites a final status has read the order as pending.
* `GetPaymentStatus` for an order without a payment dereferences nil and ends
  payment-service (`GetPaymentStatusPanics`), where `ARCHITECTURE.md:200`
  promises `NotFound`. The ledger permits it as `QueryDies`, so
  `ImplementsLedger` does not flag it.
* A GET may return a stale copy after an update, when the `Delete` failed or a
  slow reader stores its copy after it, where `README.md:10` says it does not;
  `CacheConverges` is what is left of the promise.
* A handler whose first `Send` fails returns without removing its subscriber
  (`server.go:87`, `SendInitialFails`), where `ARCHITECTURE.md:193` says "Proper
  cleanup". `RegistryExact` counts these subscribers (`"leaked"`) as registered
  and shows that nobody else stays behind.
* Two failing sends to one subscriber close its `done` twice, which panics and
  ends order-service (`server.go:182`, `SendUpdateFails`), where
  `ARCHITECTURE.md:194` says "Stream error recovery". It takes two updates to one
  broken stream before its handler has removed it. The runs of the stream reach
  the panic; `GivenUpOnlyIfBroken` holds there too, and `UpdateReleasesBroken`
  promises nothing beyond it.
* When `MarkSent` fails after `RecordProcessed`, the message is redelivered, found
  in the table (`WasProcessed`) and acknowledged without a mark in Redis
  (`processor.go:111`), where `ARCHITECTURE.md:87` says that `Ack` comes only
  after the mark. The table alone keeps such an event from a second email, which
  is what `NoEmailOnceRecorded` is about.

**Bounds.** Races in payment-service are between a look-up and another call's
save, and between two receivers of confirmations; two calls, for one order or
for two, have both. The amounts are the ceiling, the next cent and a refused
value. A channel capacity of 1 is reached with two publishers; the code's 8
differs only in needing more of them. One fault suffices for each crash point, a
second one for a fault after a restart, the third for a connection lost as well.
In order-service the conflicts are between two requests (a checkout and its
repetition, a cancellation or a reader), and slots are used again, so that
further requests find what these leave; the theorems cover any number. One
order is enough for them: requests for different orders meet only in the table of
keys. Two keys are needed for `OneOrderPerKey`; that two requests with one new key
never mint two orders is checked by `idempotent_create`, whose three calls may each
mint one, and `KeysNameOneOrder` proves it for any number of orders and keys. Polling
is checked with one order too: two orders with two changes each are out of TLC's
reach here. In the transaction, three calls are one that
holds the lock, one that waits and one whose transaction was abandoned. Two
receipts are needed for a message to be in another's way; with two attempts
there is a first and a last; two faults are an email without a record and one
more fault while it is repeated. A shift under the range statement needs one
subscriber before and one after the one that leaves: three streams. Symmetry is
used in `order_stream` alone, which has no liveness property: streams appear nowhere
by name.

**Deadlock.** The order runs check for it. Elsewhere calls, events, streams and
changes are one-shot, and the system stops when they are used up.

**Fairness.** Each specification states it for what the code and its
surroundings do by themselves:

* `PaymentService!FairSpec`: weak fairness of each handler's statements
  (goroutines are scheduled, SQL statements end) and of the broker's
  confirmation. None on `CtxDone`: the server sets no deadline, so `CallsReturn`
  must not depend on one.
* `OrderService!FairSpec`: weak fairness of a request's own steps and of the TTL;
  none on payment-service. A wait for payment-service ends by itself where
  something bounds it (`Bounded`): the gRPC adapter gives its calls five seconds
  (`payment_client.go:40`), the REST adapter no deadline at all, and over either
  a broken connection is noticed. `RequestsEnd` is therefore checked over gRPC,
  the adapter that `main` wires; over REST a request may wait for ever.
  `PendingPaymentSettles` carries its own assumption,
  `Retrying`: a client that repeats its request and strong fairness of each step
  of a retry (stores and services do not fail at every attempt). The question is
  whether retrying helps at all: over REST it does, over gRPC it does not
  although everything is granted.
* `IdempotentCreate!FairSpec`: a statement that need not wait ends, in success or
  failure; a lock that is free again and again is granted (PostgreSQL queues
  waiters); abandoned transactions are ended. A wait is not assumed to be cut
  short.
* `NotificationService!FairSpec`: the worker and the broker are scheduled; an
  operator starts the service again when it has ended (`docker-compose.yml` has
  no restart policy); reads of the stores and sends fail again and again but not
  for ever (strong fairness). Nothing is assumed of the two writes beyond being
  scheduled: their failures are bounded by the fault budget.
* `OrderStream!FairSpec`: goroutines are scheduled, the ticker ticks, a client
  that has gone is noticed (TCP, gRPC keep-alive), and reading an order does not
  fail for ever. None on status changes: a handler may wait for ever.

## 4. Proofs

`WireProofs`

* `RoundTrip`: what is read equals what was sent, for every message whose sender
  numbers its fields apart and whose receiver numbers them the same. The
  theorems on order-service use it for the messages of both calls to
  payment-service over both adapters (`CallArgArrives`, `StatusArrives`,
  `StatusQueried`): the tables are part of what they rest on.

The theorems on the components hold for every value of the constants under the
named assumption of each module (`PaymentAssumption`, `OrderAssumption`,
`IdempotencyAssumption`, `NotificationAssumption`, `StreamAssumption`: sets of amounts
are integers, the special values are not orders, keys or events, the bounds and
the capacity of the channel are numbers, calls and streams are finitely many);
TLC evaluates them in every run.

`PaymentServiceProofs`

* `TypeCorrect`: `TypeOK`, with `ArgOK` (a running handler has an authorization
  for a real order and a positive amount) as the strengthening: `Row` is well typed only with it.
* `OnePayment`, `RepliesAreTruthful`: from `RowInv`. `ReplyTruthful` is not
  inductive: a handler that waits for a confirmation is about to report a
  success, so its row must be there already (`SavedFirst`); a row must remain the
  work of its call (`RowsOwned`), which is past its save and so cannot save
  twice; and an outcome is final (`OutcomeIsFinal`). Handler steps that leave the
  table alone share the lemma `StepKeepsRows`, the two that save `SaveKeepsRows`,
  the ends of the process `EndKeepsRows`.

`OrderServiceProofs`

* `OrderTypeCorrect`, `PaidOrdersAreAuthorized`, `ChargesMatchOrders`,
  `KeysNameOneOrder`, `FailuresHaveCauses`: from `OrderInv`. A status is written
  several steps after the answer it follows from, and other requests move in
  between; so the requests carry the reason for what they are about to write
  (`ReasonOK`), which rests on the call being about their own order and its stored
  amount (`CallOK`, `PathOK`), and on what no step takes back (`Grows`:
  payments, amounts, keys).
* `FinalStatusesHold`: the action property `OnlyStaleReadersOverwrite`. A
  cancellation may overwrite `Paid`, so nothing stronger holds.

`PaymentEventsProofs`

* `EventsAreBacked`: from `EventInv`. `EventsBacked` speaks of orders and the
  publisher of calls: the invariant is that a call's event is on the wire or in
  the queue at most once and only after the call has left `publish`
  (`AllAnnounced`, `EventsOnce`), that only authorized payments get there
  (`OnlyAuthorized`), and `RowInv`, which makes two calls' events be about two
  orders.
* `WaitersAreCovered`: a count of handlers against confirmations. It survives
  the new connection of a restart only because nobody is waiting in a process
  that is down (`NobodyWhenDown`).

`PaymentLedgerProofs`

* `ServiceImplementsLedger`: `Spec => ImplementsLedger`, one lemma per kind of
  step. `LedgerInv` is `RowInv` (the order's row is unique, so the mapped ledger
  is a function; a success is about the call's own row) and `FoundIsThere` (the
  answer to a query stays true).

`IdempotentCreateProofs`

* `IdempotencyTypeCorrect`, `KeysNeverConflict`, `OrdersFoundByKey`: from
  `StoreInv`. That a call has found no order for its key says nothing about the
  moment at which it inserts the key, unless it has held the lock all the while
  (`HoldsLock`) and what it read under the lock is still so (`FoundOK`);
  transactions that the client has lost keep their lock until they end.
* `TransactionImplementsStep`: `Spec => ImplementsStore`. The commit is the step;
  everything before it is a stutter. This is what entitles `OrderService` to take
  the transaction in one step.

`NotificationServiceProofs`

* `NotificationTypeCorrect`, `SecondEmailNeedsGap`, `MessageHeldOnce`: from
  `DeliveryInv`. Its centre is an equation (`Accounted`): the emails of an event
  are its gaps, plus one exactly while the event is recorded or about to be. It
  needs that an attempt is made only for an event not yet recorded
  (`RecordedWhen`) and that the worker's message is the one the broker waits for
  (`WorkerOK`).
* `RecordedIsSilent`: the action property `NoEmailOnceRecorded`.
* `ServiceImplementsDelivery`: `Spec` implements the safety part of
  `NotificationDelivery`, `DeliverySafety`. An event is acknowledged only after an
  email (`ReasonOK`, `RecordsOK`) and dead-lettered only when it could never have
  one.

`OrderStreamProofs`

* `StreamTypeCorrect`, `RegistryAlwaysExact`, `ConnectedNeverGivenUp`: from
  `RegistryInv`. `SliceExact` is `RegistryExact` position by position, on which
  the lemmas on `Registers`, `Removes` and `ShiftedCells` work. A handler that waits has
  sent a status before (`ShownOK`). That only broken
  streams are given up needs more than the slice: an update may be on its way to
  a stream in a shifted or left-over cell, or in an array that the registry has
  left, and all of those were registered once (`CellsServed`). `OverTheWire` brings
  in the field tables of both programs.
* `FewAreMissed`: from `RangeInv`, the statement for a range in progress.
  `Missed` are the subscribers that the range statement will not come to any
  more. A removal adds at most one of them, the subscriber in the cell that is
  read next, and adds one to those that left.

Every safety property of a passing run is proved. Only model-checked are the
liveness properties, which are out of the prover's reach (`CallsReturn`,
`RequestsEnd`, `CacheConverges`, `PendingPaymentSettles`, `CallsEnd`,
`PollCatchesUp`, `UpdateReleasesBroken`, and in `ImplementsDelivery` that an event
is settled in the end), and the five counterexamples of section 3, which are TLC's.

## 5. Plan

Done: all modules of section 2, their runs, and the proofs of section 4. Next:

1. What the liveness properties rest on and is not itself liveness: that a lock
   of `IdempotentCreate` is held by a transaction that has not ended, and that a
   transaction waits only for one that holds a lock and waits for none (no
   circle); that a handler of `OrderStream` in a stopped process has returned.
2. The composition: what a caller of `PaymentLedger` may conclude, stated for
   `OrderService` with `PaymentService` in the ledger's place.

## 6. Not modelled

* Configuration, logging interceptors and the wording of messages and emails:
  they change no state the properties speak of.
* Generated code: descriptors, getters and the copies no program imports
  (`src/proto/gen/go/payment.pb.go`, `src/client/proto/payment.pb.go` and the
  like).
* SQL scripts: the constraints the code relies on are in the actions of the
  repositories.
* The drain of payment-service's gRPC server on shutdown, which only removes
  behaviours of `Crash`.
* Two processes of one service: `docker-compose.yml` runs one of each.
* An event that is published before the queue is first declared is dropped
  (`DeclareQueue` in `PaymentService`); `NotificationService` starts from events
  that are in the queue.
* Two `Send`s on one gRPC stream at the same instant, which grpc-go forbids and
  the order stream does not exclude: a `Send` is one step of the model.

------------------------ MODULE NotificationService ------------------------
(***************************************************************************)
(* notification-service: the consumer loop of main, Processor.Handle, the  *)
(* two idempotency stores, and the queue payment.completed with its dead   *)
(* letters.  One worker handles one message at a time (prefetch 1); the    *)
(* broker redelivers what is not acknowledged; the provider of email may   *)
(* fail, and may send an email that it reports as failed.                  *)
(*                                                                         *)
(* The event id is the payment id (payment-service publishes one event for *)
(* a payment), and stands for the message that carries it.                 *)
(***************************************************************************)
EXTENDS Integers, Sequences, FiniteSets

CONSTANTS Events,       \* the messages, each with an event id of its own
          Kind,         \* event -> what its body holds
          None,         \* no message
          MaxAttempts,  \* NOTIFICATION_EMAIL_MAX_ATTEMPTS
          MaxFaults     \* bound on faults, see Fault below

Kinds == {"receipt", "invalid", "noemail", "demo"}

ASSUME NotificationAssumption ==
  /\ None \notin Events
  /\ Kind \in [Events -> Kinds]
  /\ MaxAttempts \in Nat \ {0}
  /\ MaxFaults \in Nat

VARIABLES
  published,  \* events that payment-service has published
  ready,      \* the queue payment.completed, without the message delivered
  unacked,    \* the message delivered and not yet acknowledged, or None
  acked,      \* history: messages the broker saw acknowledged
  dlq,        \* the queue payment.completed.dlq
  processed,  \* table processed_events
  marked,     \* payments marked SENT in Redis
  pc,         \* where the worker is; "down" without a process
  cur,        \* the message in the channel msgs or in the handler, or None
  attempt,    \* the attempts at sending it made so far
  expired,    \* the 120 s of the handler's context are over
  signal,     \* how far the shutdown goroutine is
  open,       \* the AMQP connection is open
  emails,     \* history: event -> emails that have gone out for it
  gaps,       \* history: event -> emails whose sending left no record
  faults      \* faults so far

brokerVars == <<published, ready, unacked, acked, dlq>>
storeVars == <<processed, marked>>
workerVars == <<pc, cur, attempt, expired>>
processVars == <<signal, open>>
historyVars == <<emails, gaps>>
vars == <<published, ready, unacked, acked, dlq, processed, marked, pc, cur,
          attempt, expired, signal, open, emails, gaps, faults>>

\* What becomes of the delivery when Handle has returned.
Answers == {"ack", "requeue", "deadletter"}
Handling == {"processed?", "sent?", "send", "backoff", "record", "mark"}

Fault == faults < MaxFaults /\ faults' = faults + 1

\* The handler's context derives from the worker's, which a shutdown cancels.
CtxDone == expired \/ signal = "cancelled"

Bump(f, e) == [f EXCEPT ![e] = @ + 1]

-----------------------------------------------------------------------------
\* The statements of Handle.  Each leaves the worker at the next statement, or
\* at the answer that handle gives to the broker.
At(l) == pc = l
Goto(l) == pc' = l /\ UNCHANGED <<cur, expired>>

\* json.Unmarshal and the check of event_id come first.
Receive ==
  /\ At("idle")
  /\ cur # None
  /\ pc' = IF Kind[cur] = "invalid" THEN "deadletter" ELSE "processed?"
  /\ attempt' = 0
  /\ expired' = FALSE
  /\ UNCHANGED <<brokerVars, storeVars, cur, processVars, historyVars, faults>>

\* The table is not asked.
WasProcessedNever ==
  /\ At("processed?")
  /\ Goto("sent?")
  /\ UNCHANGED <<brokerVars, storeVars, attempt, processVars, historyVars, faults>>

WasProcessed ==
  /\ At("processed?")
  /\ Goto(IF cur \in processed THEN "ack" ELSE "sent?")
  /\ UNCHANGED <<brokerVars, storeVars, attempt, processVars, historyVars, faults>>

\* The mark in Redis, the demonstration order, and the address.
AlreadySent ==
  /\ At("sent?")
  /\ Goto(CASE cur \in marked -> "ack"
            [] cur \notin marked /\ Kind[cur] = "receipt" -> "send"
            [] OTHER -> "deadletter")
  /\ UNCHANGED <<brokerVars, storeVars, attempt, processVars, historyVars, faults>>

\* A store cannot be read: ErrTransient.
CheckFails ==
  /\ At("processed?") \/ At("sent?")
  /\ Goto("requeue")
  /\ UNCHANGED <<brokerVars, storeVars, attempt, processVars, historyVars, faults>>

\* The loop goes on after an attempt that succeeded.
SendNoBreak ==
  /\ At("send")
  /\ emails' = Bump(emails, cur)
  /\ attempt' = attempt + 1
  /\ Goto(IF attempt + 1 < MaxAttempts THEN "backoff" ELSE "record")
  /\ UNCHANGED <<brokerVars, storeVars, processVars, gaps, faults>>

Send ==
  /\ At("send")
  /\ emails' = Bump(emails, cur)
  /\ Goto("record")
  /\ UNCHANGED <<brokerVars, storeVars, attempt, processVars, gaps, faults>>

\* The last error is forgotten when the attempts are used up.
RetryUnchecked ==
  IF attempt + 1 < MaxAttempts THEN Goto("backoff") ELSE Goto("record")

\* One attempt too many.
RetryOnceMore ==
  IF attempt + 1 <= MaxAttempts THEN Goto("backoff") ELSE Goto("requeue")

\* After the last attempt Handle gives up, with ErrTransient.
Retry ==
  IF attempt + 1 < MaxAttempts THEN Goto("backoff") ELSE Goto("requeue")

SendFails ==
  /\ At("send")
  /\ attempt' = attempt + 1
  /\ Retry
  /\ UNCHANGED <<brokerVars, storeVars, processVars, historyVars, faults>>

\* The provider has taken the email, and the request fails all the same.
SendUncertain ==
  /\ At("send")
  /\ Fault
  /\ emails' = Bump(emails, cur)
  /\ gaps' = Bump(gaps, cur)
  /\ attempt' = attempt + 1
  /\ Retry
  /\ UNCHANGED <<brokerVars, storeVars, processVars>>

\* The select between the delay and the context.
Backoff ==
  /\ At("backoff")
  /\ \/ Goto("send")
     \/ CtxDone /\ Goto("requeue")
  /\ UNCHANGED <<brokerVars, storeVars, attempt, processVars, historyVars, faults>>

RecordProcessed ==
  /\ At("record")
  /\ cur \notin processed
  /\ processed' = processed \cup {cur}
  /\ Goto("mark")
  /\ UNCHANGED <<brokerVars, marked, attempt, processVars, historyVars, faults>>

\* Failures that the model bounds: by themselves, unless it is the context
\* that ends the statement.
FailsOrEnded == Fault \/ (CtxDone /\ UNCHANGED faults)

\* The INSERT fails, or is committed and reported as failed.
RecordFails ==
  /\ At("record")
  /\ FailsOrEnded
  /\ \/ gaps' = Bump(gaps, cur) /\ UNCHANGED processed
     \/ processed' = processed \cup {cur} /\ UNCHANGED gaps
  /\ Goto("requeue")
  /\ UNCHANGED <<brokerVars, marked, attempt, processVars, emails>>

MarkSent ==
  /\ At("mark")
  /\ marked' = marked \cup {cur}
  /\ Goto("ack")
  /\ UNCHANGED <<brokerVars, processed, attempt, processVars, historyVars, faults>>

MarkFails ==
  /\ At("mark")
  /\ FailsOrEnded
  /\ marked' \in {marked, marked \cup {cur}}
  /\ Goto("requeue")
  /\ UNCHANGED <<brokerVars, processed, attempt, processVars, historyVars>>

\* context.WithTimeout(ctx, 120 s)
Timeout ==
  /\ pc \in Handling
  /\ ~expired
  /\ Fault
  /\ expired' = TRUE
  /\ UNCHANGED <<brokerVars, storeVars, pc, cur, attempt, processVars, historyVars>>

-----------------------------------------------------------------------------
\* The answer to the broker.  On a lost connection it fails and is only logged.
Answer(l) ==
  /\ At(l)
  /\ pc' = "idle"
  /\ cur' = None
  /\ unacked' = IF open THEN None ELSE unacked
  /\ UNCHANGED <<published, storeVars, attempt, expired, processVars,
                 historyVars, faults>>

Ack ==
  /\ Answer("ack")
  /\ acked' = IF open THEN acked \cup {cur} ELSE acked
  /\ UNCHANGED <<ready, dlq>>

\* RabbitMQ puts a requeued message back where it was: at the head.
Requeue ==
  /\ Answer("requeue")
  /\ ready' = IF open THEN <<cur>> \o ready ELSE ready
  /\ UNCHANGED <<acked, dlq>>

DeadLetter ==
  /\ Answer("deadletter")
  /\ dlq' = IF open THEN dlq \cup {cur} ELSE dlq
  /\ UNCHANGED <<ready, acked>>

-----------------------------------------------------------------------------
\* The broker.  Events arrive in the durable queue whether or not anybody
\* consumes it, and are handed to the registered consumer one at a time.
Publish(e) ==
  /\ e \notin published
  /\ published' = published \cup {e}
  /\ ready' = Append(ready, e)
  /\ UNCHANGED <<unacked, acked, dlq, storeVars, workerVars, processVars,
                 historyVars, faults>>

\* Consume with autoAck: the broker forgets what it delivers.
DeliverAutoAck ==
  /\ open
  /\ signal = "none"
  /\ cur = None
  /\ ready # <<>>
  /\ cur' = Head(ready)
  /\ ready' = Tail(ready)
  /\ UNCHANGED <<published, unacked, acked, dlq, storeVars, pc, attempt, expired,
                 processVars, historyVars, faults>>

Deliver ==
  /\ open
  /\ signal = "none"
  /\ unacked = None
  /\ ready # <<>>
  /\ unacked' = Head(ready)
  /\ cur' = Head(ready)
  /\ ready' = Tail(ready)
  /\ UNCHANGED <<published, acked, dlq, storeVars, pc, attempt, expired,
                 processVars, historyVars, faults>>

\* A channel closes: the broker puts back what was not acknowledged on it.
ReturnUnacked ==
  /\ unacked' = None
  /\ ready' = IF unacked = None THEN ready ELSE <<unacked>> \o ready

\* Redis drops the mark when its TTL is over.
ExpireMark(e) ==
  /\ e \in marked
  /\ marked' = marked \ {e}
  /\ UNCHANGED <<brokerVars, processed, workerVars, processVars, historyVars,
                 faults>>

\* The connection is lost; a handler goes on with the message it has.
ConnectionLost ==
  /\ open
  /\ Fault
  /\ open' = FALSE
  /\ ReturnUnacked
  /\ UNCHANGED <<published, acked, dlq, storeVars, workerVars, signal,
                 historyVars>>

-----------------------------------------------------------------------------
\* The shutdown goroutine cancels the consumer, then the workers' context.
Signal ==
  /\ ~At("down")
  /\ signal = "none"
  /\ Fault
  /\ signal' = "received"
  /\ UNCHANGED <<brokerVars, storeVars, workerVars, open, historyVars>>

CancelWorker ==
  /\ signal = "received"
  /\ signal' = "cancelled"
  /\ UNCHANGED <<brokerVars, storeVars, workerVars, open, historyVars, faults>>

\* The process is gone, and its connection with it.
End ==
  /\ pc' = "down"
  /\ cur' = None
  /\ attempt' = 0
  /\ expired' = FALSE
  /\ signal' = "none"
  /\ open' = FALSE
  /\ ReturnUnacked
  /\ UNCHANGED <<published, acked, dlq, storeVars, emails>>

\* main returns: the context is cancelled, or msgs is closed.  A message that
\* is still in msgs is dropped when the connection is lost or the select takes
\* the cancelled context.
Exit ==
  /\ At("idle")
  /\ \/ signal = "cancelled"
     \/ ~open
     \/ signal = "received" /\ cur = None
  /\ End
  /\ UNCHANGED <<gaps, faults>>

Crash ==
  /\ ~At("down")
  /\ Fault
  /\ gaps' = IF At("record") THEN Bump(gaps, cur) ELSE gaps
  /\ End

\* main: the stores are reachable, the topology is declared, the consumer is
\* registered.
Start ==
  /\ At("down")
  /\ pc' = "idle"
  /\ open' = TRUE
  /\ UNCHANGED <<brokerVars, storeVars, cur, attempt, expired, signal,
                 historyVars, faults>>

-----------------------------------------------------------------------------
Init ==
  /\ published = {} /\ ready = <<>> /\ unacked = None
  /\ acked = {} /\ dlq = {}
  /\ processed = {} /\ marked = {}
  /\ pc = "down" /\ cur = None /\ attempt = 0 /\ expired = FALSE
  /\ signal = "none" /\ open = FALSE
  /\ emails = [e \in Events |-> 0]
  /\ gaps = [e \in Events |-> 0]
  /\ faults = 0

\* The statements of the worker.
Worker ==
  \/ Receive \/ WasProcessed \/ AlreadySent \/ CheckFails
  \/ Send \/ SendFails \/ SendUncertain \/ Backoff
  \/ RecordProcessed \/ RecordFails \/ MarkSent \/ MarkFails
  \/ Ack \/ Requeue \/ DeadLetter
  \/ Exit

Next ==
  \/ Worker
  \/ Timeout
  \/ \E e \in Events : Publish(e) \/ ExpireMark(e)
  \/ Deliver \/ ConnectionLost
  \/ Signal \/ CancelWorker \/ Crash \/ Start

Spec == Init /\ [][Next]_vars

\* The worker is scheduled and the broker delivers; somebody starts the
\* service again when it has ended.  Stores and provider may fail again and
\* again, but not for ever.
Fairness ==
  /\ WF_vars(Worker) /\ WF_vars(Deliver)
  /\ WF_vars(CancelWorker) /\ WF_vars(Start)
  /\ SF_vars(WasProcessed) /\ SF_vars(AlreadySent) /\ SF_vars(Send)

FairSpec == Spec /\ Fairness

-----------------------------------------------------------------------------
TypeOK ==
  /\ published \subseteq Events /\ acked \subseteq Events /\ dlq \subseteq Events
  /\ ready \in Seq(Events)
  /\ unacked \in Events \cup {None} /\ cur \in Events \cup {None}
  /\ processed \subseteq Events /\ marked \subseteq Events
  /\ pc \in {"down", "idle"} \cup Handling \cup Answers
  /\ attempt \in 0..MaxAttempts
  /\ expired \in BOOLEAN /\ open \in BOOLEAN
  /\ signal \in {"none", "received", "cancelled"}
  /\ emails \in [Events -> Nat] /\ gaps \in [Events -> Nat]
  /\ faults \in 0..MaxFaults

(***************************************************************************)
(* README.md:36: "if already handled, it ACKs without sending again".  No  *)
(* email goes out for an event that is in processed_events, whatever was   *)
(* lost since it was recorded: the mark in Redis (processor.go:111), the   *)
(* acknowledgement (main.go:249), the connection or the process.           *)
(***************************************************************************)
NoEmailOnceRecorded ==
  [][\A e \in processed : emails'[e] = emails[e]]_vars

(***************************************************************************)
(* A second email for an event has one cause only: the provider reported   *)
(* an email it had taken as failed, or the worker was stopped or failed    *)
(* between the email and its record (processor.go:99 to :108).  Retries    *)
(* after failures, requeued and redelivered messages, lost marks, lost     *)
(* acknowledgements and timeouts elsewhere send nothing twice.             *)
(***************************************************************************)
OneEmailButForGaps == \A e \in Events : emails[e] <= gaps[e] + 1

(***************************************************************************)
(* The broker holds an event that was published in exactly one place until *)
(* it is settled: in the queue, once, or with the consumer (main.go:184,   *)
(* :194 and :249-263).  A message that is in the channel msgs at a         *)
(* shutdown, in the handler at a crash, or whose answer is lost with the   *)
(* connection, is neither lost nor doubled.                                *)
(***************************************************************************)
HeldOnce ==
  /\ \A e \in published : \/ e \in acked \cup dlq
                           \/ unacked = e
                           \/ \E i \in 1..Len(ready) : ready[i] = e
  /\ acked \cap dlq = {}
  /\ unacked # None => unacked \in published \ (acked \cup dlq)
  /\ \A i \in 1..Len(ready) : /\ ready[i] \in published \ (acked \cup dlq)
                              /\ ready[i] # unacked
  /\ \A i, j \in 1..Len(ready) : ready[i] = ready[j] => i = j

-----------------------------------------------------------------------------
FateOf(e) ==
  CASE e \in acked -> "acknowledged"
    [] e \in dlq -> "deadlettered"
    [] e \notin acked \cup dlq /\ emails[e] > 0 -> "emailed"
    [] e \notin acked \cup dlq /\ emails[e] = 0 /\ e \in published -> "queued"
    [] OTHER -> "unpublished"

Delivery == INSTANCE NotificationDelivery WITH
              Receipts <- {e \in Events : Kind[e] = "receipt"},
              fate <- [e \in Events |-> FateOf(e)]

(***************************************************************************)
(* The service keeps the promises of NotificationDelivery: nothing is      *)
(* acknowledged before its email went out (ARCHITECTURE.md:87), only       *)
(* messages that cannot be announced are dead-lettered, nothing is lost,   *)
(* and every message is settled, although a failing one is put back at the *)
(* head of a queue that is consumed one by one (main.go:263).              *)
(***************************************************************************)
ImplementsDelivery == Delivery!DeliverySpec
=============================================================================

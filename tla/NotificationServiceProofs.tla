---------------------- MODULE NotificationServiceProofs ----------------------
(***************************************************************************)
(* What notification-service guarantees for any events, any number of      *)
(* attempts and any number of faults.                                      *)
(***************************************************************************)
EXTENDS NotificationService, SequenceTheorems, TLAPS

Receipts == {e \in Events : Kind[e] = "receipt"}

\* A handler has a message, and the broker waits for the answer to it as long
\* as their connection lasts.
WorkerOK ==
  /\ pc \in Handling \cup Answers => cur # None
  /\ pc = "down" => cur = None /\ ~open
  /\ unacked = IF open THEN cur ELSE None
  /\ cur # None => cur \in published \ (acked \cup dlq)

AttemptsOK ==
  /\ pc \in {"processed?", "sent?"} => attempt = 0
  /\ pc \in {"send", "backoff"} => attempt < MaxAttempts

\* An event that gets as far as an attempt has not been recorded; one that is
\* being marked has.
RecordedWhen ==
  /\ pc \in {"sent?", "send", "backoff", "record"} => cur \notin processed
  /\ pc = "mark" => cur \in processed

\* Every email is on record, about to be recorded, or counted as a gap.
Accounted ==
  \A e \in Events :
    emails[e] = gaps[e] + (IF e \in processed \/ (pc = "record" /\ cur = e)
                           THEN 1 ELSE 0)

\* Why the worker does what it is about to do.
ReasonOK ==
  /\ pc \in {"send", "backoff", "record", "mark"} => Kind[cur] = "receipt"
  /\ pc \in {"record", "mark", "ack"} => emails[cur] > 0
  /\ pc = "deadletter" => Kind[cur] # "receipt"

\* What the stores and the broker remember is true.
RecordsOK ==
  /\ acked \subseteq published /\ dlq \subseteq published
  /\ marked \subseteq processed
  /\ \A e \in processed \cup acked : emails[e] > 0
  /\ \A e \in Events : emails[e] > 0 => e \in Receipts /\ e \in published
  /\ dlq \cap Receipts = {}

DeliveryInv ==
  /\ TypeOK
  /\ WorkerOK
  /\ AttemptsOK
  /\ RecordedWhen
  /\ Accounted
  /\ ReasonOK
  /\ RecordsOK
  /\ HeldOnce

-----------------------------------------------------------------------------
\* The moves of a message between the places where the broker keeps it.
LEMMA QueuePublished ==
  ASSUME TypeOK, HeldOnce, NEW e \in Events, e \notin published,
         acked \subseteq published, dlq \subseteq published,
         published' = published \cup {e}, ready' = Append(ready, e),
         UNCHANGED <<unacked, acked, dlq>>
  PROVE  HeldOnce'
<1>1. /\ ready \in Seq(Events) /\ Len(ready) \in Nat
      /\ Len(ready') = Len(ready) + 1
      /\ ready'[Len(ready) + 1] = e
      /\ \A i \in 1..Len(ready) : ready'[i] = ready[i]
  BY DEF TypeOK
<1>2. \A i \in 1..Len(ready') : i \in 1..Len(ready) \/ i = Len(ready) + 1
  BY <1>1
<1>3. \A i \in 1..Len(ready) : i \in 1..Len(ready')
  BY <1>1
<1>4. Len(ready) + 1 \in 1..Len(ready')
  BY <1>1
<1>5. \A d \in published' : \/ d \in acked' \cup dlq'
                             \/ unacked' = d
                             \/ \E i \in 1..Len(ready') : ready'[i] = d
  BY <1>1, <1>3, <1>4 DEF HeldOnce
<1>6. \A i \in 1..Len(ready') : /\ ready'[i] \in published' \ (acked' \cup dlq')
                                /\ ready'[i] # unacked'
  BY <1>1, <1>2, NotificationAssumption DEF HeldOnce, TypeOK
<1>7. \A i, j \in 1..Len(ready') : ready'[i] = ready'[j] => i = j
  BY <1>1, <1>2 DEF HeldOnce
<1> QED BY <1>5, <1>6, <1>7 DEF HeldOnce

LEMMA TakeHead ==
  ASSUME TypeOK, HeldOnce, unacked = None, ready # <<>>,
         unacked' = Head(ready), ready' = Tail(ready),
         UNCHANGED <<published, acked, dlq>>
  PROVE  /\ HeldOnce'
         /\ ready' \in Seq(Events)
         /\ unacked' \in Events /\ unacked' \in published \ (acked \cup dlq)
<1>1. /\ ready \in Seq(Events) /\ Len(ready) \in Nat \ {0}
      /\ ready' \in Seq(Events) /\ Len(ready') = Len(ready) - 1
      /\ unacked' = ready[1]
      /\ \A i \in 1..Len(ready') : ready'[i] = ready[i + 1]
  BY HeadTailProperties DEF TypeOK
<1>2. \A i \in 1..Len(ready') : i + 1 \in 1..Len(ready) /\ i + 1 # 1
  BY <1>1
<1>3. \A i \in 1..Len(ready) : i = 1 \/ (i - 1 \in 1..Len(ready') /\ (i - 1) + 1 = i)
  BY <1>1
<1>4. 1 \in 1..Len(ready)
  BY <1>1
<1>5. \A d \in published' : \/ d \in acked' \cup dlq'
                             \/ unacked' = d
                             \/ \E i \in 1..Len(ready') : ready'[i] = d
  <2> SUFFICES ASSUME NEW d \in published', d \notin acked' \cup dlq', unacked' # d
               PROVE  \E i \in 1..Len(ready') : ready'[i] = d
    BY <1>1
  <2>0. d \in published /\ d \notin acked \cup dlq /\ unacked # d
    BY NotificationAssumption DEF TypeOK
  <2>1. PICK i \in 1..Len(ready) : ready[i] = d
    BY <2>0 DEF HeldOnce
  <2>2. i - 1 \in 1..Len(ready') /\ (i - 1) + 1 = i
    BY <2>1, <1>3
  <2>3. ready'[i - 1] = ready[(i - 1) + 1]
    BY <2>2, <1>1
  <2> QED BY <2>1, <2>2, <2>3
<1>6. \A i \in 1..Len(ready') : /\ ready'[i] \in published' \ (acked' \cup dlq')
                                /\ ready'[i] # unacked'
  BY <1>1, <1>2, <1>4 DEF HeldOnce
<1>7. \A i, j \in 1..Len(ready') : ready'[i] = ready'[j] => i = j
  <2> SUFFICES ASSUME NEW i \in 1..Len(ready'), NEW j \in 1..Len(ready'),
                      ready'[i] = ready'[j]
               PROVE  i = j
    OBVIOUS
  <2>1. ready[i + 1] = ready[j + 1] /\ i + 1 \in 1..Len(ready) /\ j + 1 \in 1..Len(ready)
    BY <1>1, <1>2
  <2>2. i + 1 = j + 1
    BY <2>1 DEF HeldOnce
  <2> QED BY <2>2
<1>8. unacked' \in Events /\ unacked' \in published \ (acked \cup dlq)
  BY <1>1, <1>4 DEF HeldOnce
<1> QED BY <1>1, <1>5, <1>6, <1>7, <1>8 DEF HeldOnce

LEMMA PutBack ==
  ASSUME TypeOK, HeldOnce, unacked # None,
         unacked' = None, ready' = <<unacked>> \o ready,
         UNCHANGED <<published, acked, dlq>>
  PROVE  HeldOnce' /\ ready' \in Seq(Events)
<1>0. unacked \in Events /\ ready \in Seq(Events) /\ Len(ready) \in Nat
  BY DEF TypeOK
<1>1. /\ ready' \in Seq(Events) /\ Len(ready') = Len(ready) + 1
      /\ ready'[1] = unacked
      /\ \A i \in 1..Len(ready') : i # 1 => ready'[i] = ready[i - 1]
  BY <1>0
<1>2. \A i \in 1..Len(ready') : i # 1 => i - 1 \in 1..Len(ready)
  BY <1>0, <1>1
<1>3. \A i \in 1..Len(ready) :
        i + 1 \in 1..Len(ready') /\ i + 1 # 1 /\ (i + 1) - 1 = i
  BY <1>0, <1>1
<1>4. 1 \in 1..Len(ready')
  BY <1>0, <1>1
<1>5. \A d \in published' : \/ d \in acked' \cup dlq'
                             \/ unacked' = d
                             \/ \E i \in 1..Len(ready') : ready'[i] = d
  <2> SUFFICES ASSUME NEW d \in published', d \notin acked' \cup dlq', unacked # d
               PROVE  \E i \in 1..Len(ready') : ready'[i] = d
    BY <1>1, <1>4
  <2>1. PICK i \in 1..Len(ready) : ready[i] = d
    BY DEF HeldOnce
  <2>2. i + 1 \in 1..Len(ready') /\ ready'[i + 1] = ready[(i + 1) - 1]
        /\ (i + 1) - 1 = i
    BY <2>1, <1>1, <1>3
  <2> QED BY <2>1, <2>2
<1>6. \A i \in 1..Len(ready') : /\ ready'[i] \in published' \ (acked' \cup dlq')
                                /\ ready'[i] # unacked'
  BY <1>0, <1>1, <1>2, NotificationAssumption, SMTT(30) DEF HeldOnce, TypeOK
<1>7. \A i, j \in 1..Len(ready') : ready'[i] = ready'[j] => i = j
  <2> SUFFICES ASSUME NEW i \in 1..Len(ready'), NEW j \in 1..Len(ready'),
                      ready'[i] = ready'[j]
               PROVE  i = j
    OBVIOUS
  <2>1. CASE i = 1 /\ j = 1
    BY <2>1
  <2>2. CASE i # 1 /\ j # 1
    <3>1. i - 1 \in 1..Len(ready) /\ j - 1 \in 1..Len(ready)
          /\ ready[i - 1] = ready[j - 1]
      BY <2>2, <1>1, <1>2
    <3>2. i - 1 = j - 1
      BY <3>1 DEF HeldOnce
    <3> QED BY <3>2
  <2>3. CASE (i = 1 /\ j # 1) \/ (i # 1 /\ j = 1)
    BY <2>3, <1>1, <1>2 DEF HeldOnce
  <2> QED BY <2>1, <2>2, <2>3
<1> QED BY <1>1, <1>5, <1>6, <1>7 DEF HeldOnce

\* An acknowledgement, or a rejection to the dead letters.
LEMMA SettleHeld ==
  ASSUME TypeOK, HeldOnce, unacked # None, unacked' = None,
         \/ acked' = acked \cup {unacked} /\ dlq' = dlq
         \/ dlq' = dlq \cup {unacked} /\ acked' = acked,
         UNCHANGED <<published, ready>>
  PROVE  HeldOnce'
<1>1. \A i \in 1..Len(ready) : ready[i] # None
  BY NotificationAssumption DEF TypeOK, HeldOnce
<1> QED BY <1>1 DEF HeldOnce

-----------------------------------------------------------------------------
LEMMA InitDelivery == Init => DeliveryInv
<1> SUFFICES ASSUME Init PROVE DeliveryInv
  OBVIOUS
<1> USE NotificationAssumption DEF Init
<1>1. TypeOK
  <2>1. attempt \in 0..MaxAttempts /\ faults \in 0..MaxFaults
    OBVIOUS
  <2>2. ready \in Seq(Events) /\ emails \in [Events -> Nat] /\ gaps \in [Events -> Nat]
    OBVIOUS
  <2>3. expired \in BOOLEAN /\ open \in BOOLEAN
    OBVIOUS
  <2>4. signal \in {"none", "received", "cancelled"}
        /\ pc \in {"down", "idle"} \cup Handling \cup Answers
    OBVIOUS
  <2> QED BY <2>1, <2>2, <2>3, <2>4 DEF TypeOK
<1>2. WorkerOK /\ AttemptsOK /\ RecordedWhen /\ ReasonOK
  BY DEF WorkerOK, AttemptsOK, RecordedWhen, ReasonOK, Handling, Answers
<1>3. Accounted /\ RecordsOK
  BY DEF Accounted, RecordsOK
<1>4. HeldOnce
  BY DEF HeldOnce
<1> QED BY <1>1, <1>2, <1>3, <1>4 DEF DeliveryInv

\* A step that neither the broker nor the counters of emails take part in.
LEMMA QuietStep ==
  ASSUME DeliveryInv, UNCHANGED <<brokerVars, processed, cur, historyVars>>,
         TypeOK', WorkerOK', AttemptsOK', ReasonOK', RecordedWhen',
         marked' \subseteq processed, (pc = "record") <=> (pc' = "record")
  PROVE  DeliveryInv'
<1>1. Accounted'
  BY DEF DeliveryInv, Accounted, historyVars
<1>2. RecordsOK'
  BY DEF DeliveryInv, RecordsOK, historyVars, brokerVars
<1>3. HeldOnce'
  BY DEF DeliveryInv, HeldOnce, brokerVars
<1> QED BY <1>1, <1>2, <1>3 DEF DeliveryInv

\* The statements of Handle before the first attempt.
LEMMA LookupKeeps ==
  DeliveryInv /\ (Receive \/ WasProcessed \/ AlreadySent \/ CheckFails) => DeliveryInv'
<1> SUFFICES ASSUME DeliveryInv, Receive \/ WasProcessed \/ AlreadySent \/ CheckFails
             PROVE  DeliveryInv'
  OBVIOUS
<1> USE NotificationAssumption
    DEF DeliveryInv, TypeOK, WorkerOK, AttemptsOK, RecordedWhen, ReasonOK, RecordsOK,
        Handling, Answers, Receipts, At, Goto, brokerVars, storeVars, processVars,
        historyVars
<1>1. CASE Receive
  <2>1. TypeOK'
    <3>1. attempt' \in 0..MaxAttempts
      BY <1>1 DEF Receive
    <3>2. expired' \in BOOLEAN
      BY <1>1 DEF Receive
    <3>3. pc' \in Handling \cup Answers
      BY <1>1 DEF Receive
    <3> QED BY <1>1, <3>1, <3>2, <3>3 DEF Receive
  <2>2. WorkerOK' /\ AttemptsOK' /\ ReasonOK' /\ RecordedWhen'
    BY <1>1 DEF Receive
  <2> QED BY <1>1, <2>1, <2>2, QuietStep DEF Receive
<1>2. CASE WasProcessed
  BY <1>2, QuietStep DEF WasProcessed
<1>3. CASE AlreadySent
  BY <1>3, QuietStep DEF AlreadySent
<1>4. CASE CheckFails
  BY <1>4, QuietStep DEF CheckFails
<1> QED BY <1>1, <1>2, <1>3, <1>4

\* The attempts.
LEMMA AttemptKeeps ==
  DeliveryInv /\ (Send \/ SendFails \/ SendUncertain \/ Backoff) => DeliveryInv'
<1> SUFFICES ASSUME DeliveryInv, Send \/ SendFails \/ SendUncertain \/ Backoff
             PROVE  DeliveryInv'
  OBVIOUS
<1> USE NotificationAssumption
    DEF DeliveryInv, TypeOK, WorkerOK, AttemptsOK, RecordedWhen, ReasonOK, RecordsOK,
        Handling, Answers, Receipts, At, Goto, Retry, Bump, Fault, CtxDone, brokerVars,
        storeVars, processVars, historyVars
<1>0. pc \in {"send", "backoff"} => cur \in Events /\ attempt + 1 \in 0..MaxAttempts
  OBVIOUS
<1>1. CASE Send
  <2>1. TypeOK' /\ WorkerOK' /\ AttemptsOK' /\ RecordedWhen'
    BY <1>0, <1>1 DEF Send
  <2>2. Accounted'
    BY <1>0, <1>1 DEF Send, Accounted
  <2>3. ReasonOK' /\ RecordsOK'
    BY <1>0, <1>1 DEF Send
  <2>4. HeldOnce'
    BY <1>1 DEF Send, HeldOnce
  <2> QED BY <2>1, <2>2, <2>3, <2>4
<1>2. CASE SendFails
  <2>1. TypeOK'
    BY <1>0, <1>2 DEF SendFails
  <2>2. WorkerOK' /\ AttemptsOK' /\ ReasonOK' /\ RecordedWhen'
    BY <1>0, <1>2 DEF SendFails
  <2> QED BY <1>2, <2>1, <2>2, QuietStep DEF SendFails
<1>3. CASE SendUncertain
  <2>1. TypeOK'
    BY <1>0, <1>3 DEF SendUncertain
  <2>2. WorkerOK' /\ AttemptsOK' /\ RecordedWhen'
    BY <1>0, <1>3 DEF SendUncertain
  <2>3. Accounted'
    BY <1>0, <1>3 DEF SendUncertain, Accounted
  <2>4. ReasonOK' /\ RecordsOK'
    BY <1>0, <1>3 DEF SendUncertain
  <2>5. HeldOnce'
    BY <1>3 DEF SendUncertain, HeldOnce
  <2> QED BY <2>1, <2>2, <2>3, <2>4, <2>5
<1>4. CASE Backoff
  BY <1>4, QuietStep DEF Backoff
<1> QED BY <1>1, <1>2, <1>3, <1>4

\* What is remembered of an email that has gone out.
LEMMA RecordKeeps ==
  DeliveryInv /\ (RecordProcessed \/ RecordFails \/ MarkSent \/ MarkFails)
    => DeliveryInv'
<1> SUFFICES ASSUME DeliveryInv,
                    RecordProcessed \/ RecordFails \/ MarkSent \/ MarkFails
             PROVE  DeliveryInv'
  OBVIOUS
<1> USE NotificationAssumption
    DEF DeliveryInv, TypeOK, WorkerOK, AttemptsOK, RecordedWhen, ReasonOK, RecordsOK,
        Handling, Answers, Receipts, At, Goto, Bump, Fault, CtxDone, FailsOrEnded,
        brokerVars, storeVars, processVars, historyVars
<1>1. CASE RecordProcessed
  <2>1. TypeOK' /\ WorkerOK' /\ AttemptsOK' /\ RecordedWhen'
    BY <1>1 DEF RecordProcessed
  <2>2. Accounted'
    BY <1>1 DEF RecordProcessed, Accounted
  <2>3. ReasonOK' /\ RecordsOK'
    BY <1>1 DEF RecordProcessed
  <2>4. HeldOnce'
    BY <1>1 DEF RecordProcessed, HeldOnce
  <2> QED BY <2>1, <2>2, <2>3, <2>4
<1>2. CASE RecordFails
  <2>1. TypeOK'
    <3>1. cur \in Events /\ faults' \in 0..MaxFaults
      BY <1>2 DEF RecordFails
    <3>2. processed' \subseteq Events /\ gaps' \in [Events -> Nat]
      <4>1. CASE gaps' = Bump(gaps, cur) /\ UNCHANGED processed
        BY <3>1, <4>1
      <4>2. CASE processed' = processed \cup {cur} /\ UNCHANGED gaps
        BY <3>1, <4>2
      <4> QED BY <1>2, <4>1, <4>2 DEF RecordFails
    <3>3. pc' \in Answers
      BY <1>2 DEF RecordFails
    <3> QED BY <1>2, <3>1, <3>2, <3>3 DEF RecordFails
  <2>2. WorkerOK' /\ AttemptsOK' /\ RecordedWhen'
    BY <1>2 DEF RecordFails
  <2>3. Accounted'
    BY <1>2 DEF RecordFails, Accounted
  <2>4. ReasonOK' /\ RecordsOK'
    BY <1>2 DEF RecordFails
  <2>5. HeldOnce'
    BY <1>2 DEF RecordFails, HeldOnce
  <2> QED BY <2>1, <2>2, <2>3, <2>4, <2>5
<1>3. CASE MarkSent
  BY <1>3, QuietStep DEF MarkSent
<1>4. CASE MarkFails
  BY <1>4, QuietStep, SMTT(30) DEF MarkFails
<1> QED BY <1>1, <1>2, <1>3, <1>4

\* The answers.  One that is lost with the connection changes nothing but the
\* worker; the broker has put the message back already.
LEMMA AnswerKeeps ==
  DeliveryInv /\ (Ack \/ Requeue \/ DeadLetter) => DeliveryInv'
<1> SUFFICES ASSUME DeliveryInv, Ack \/ Requeue \/ DeadLetter
             PROVE  DeliveryInv'
  OBVIOUS
<1> USE NotificationAssumption
    DEF DeliveryInv, WorkerOK, AttemptsOK, RecordedWhen, ReasonOK, RecordsOK, Handling,
        Answers, Receipts, At, Answer, storeVars, processVars, historyVars
<1>0. cur \in Events /\ (open => unacked = cur)
  BY DEF Ack, Requeue, DeadLetter, TypeOK
<1>1. CASE ~open
  <2>1. TypeOK'
    BY <1>1 DEF Ack, Requeue, DeadLetter, TypeOK
  <2>2. WorkerOK' /\ AttemptsOK' /\ RecordedWhen' /\ ReasonOK' /\ RecordsOK'
    BY <1>1 DEF Ack, Requeue, DeadLetter
  <2>3. Accounted'
    BY <1>1 DEF Ack, Requeue, DeadLetter, Accounted
  <2>4. HeldOnce'
    BY <1>1 DEF Ack, Requeue, DeadLetter, HeldOnce
  <2> QED BY <2>1, <2>2, <2>3, <2>4
<1>2. CASE open /\ Ack
  <2>1. TypeOK'
    BY <1>0, <1>2 DEF Ack, TypeOK
  <2>2. WorkerOK' /\ AttemptsOK' /\ RecordedWhen' /\ ReasonOK' /\ RecordsOK'
    BY <1>0, <1>2 DEF Ack
  <2>3. Accounted'
    BY <1>2 DEF Ack, Accounted
  <2>4. HeldOnce'
    BY <1>0, <1>2, SettleHeld DEF Ack
  <2> QED BY <2>1, <2>2, <2>3, <2>4
<1>3. CASE open /\ Requeue
  <2>1. HeldOnce' /\ ready' \in Seq(Events)
    BY <1>0, <1>3, PutBack DEF Requeue
  <2>2. TypeOK'
    BY <1>0, <1>3, <2>1 DEF Requeue, TypeOK
  <2>3. WorkerOK' /\ AttemptsOK' /\ RecordedWhen' /\ ReasonOK' /\ RecordsOK'
    BY <1>0, <1>3 DEF Requeue
  <2>4. Accounted'
    BY <1>3 DEF Requeue, Accounted
  <2> QED BY <2>1, <2>2, <2>3, <2>4
<1>4. CASE open /\ DeadLetter
  <2>1. TypeOK'
    BY <1>0, <1>4 DEF DeadLetter, TypeOK
  <2>2. WorkerOK' /\ AttemptsOK' /\ RecordedWhen' /\ ReasonOK' /\ RecordsOK'
    BY <1>0, <1>4 DEF DeadLetter
  <2>3. Accounted'
    BY <1>4 DEF DeadLetter, Accounted
  <2>4. HeldOnce'
    BY <1>0, <1>4, SettleHeld DEF DeadLetter
  <2> QED BY <2>1, <2>2, <2>3, <2>4
<1> QED BY <1>1, <1>2, <1>3, <1>4

\* A connection ends: the broker has the message back, if it was waiting for an
\* answer to it.
LEMMA ReturnKeeps ==
  ASSUME TypeOK, HeldOnce, ReturnUnacked, UNCHANGED <<published, acked, dlq>>
  PROVE  HeldOnce' /\ ready' \in Seq(Events) /\ unacked' = None
<1>1. CASE unacked = None
  BY <1>1 DEF ReturnUnacked, HeldOnce, TypeOK
<1>2. CASE unacked # None
  BY <1>2, PutBack DEF ReturnUnacked
<1> QED BY <1>1, <1>2

\* The end of a process, in good order or not: an email that it has sent and
\* not recorded becomes a gap.
LEMMA EndKeeps ==
  ASSUME DeliveryInv, End, faults' \in 0..MaxFaults,
         gaps' = IF At("record") THEN Bump(gaps, cur) ELSE gaps
  PROVE  DeliveryInv'
<1> USE NotificationAssumption
    DEF DeliveryInv, Handling, Answers, Receipts, At, End, Bump, storeVars
<1>1. HeldOnce' /\ ready' \in Seq(Events) /\ unacked' = None
  BY ReturnKeeps
<1>2. pc = "record" => cur \in Events
  BY DEF WorkerOK, TypeOK
<1>3. TypeOK'
  <2>1. attempt' \in 0..MaxAttempts
    OBVIOUS
  <2>2. gaps' \in [Events -> Nat]
    BY <1>2 DEF TypeOK
  <2>3. expired' \in BOOLEAN /\ open' \in BOOLEAN
    OBVIOUS
  <2> QED BY <1>1, <2>1, <2>2, <2>3 DEF TypeOK
<1>4. WorkerOK' /\ AttemptsOK' /\ RecordedWhen' /\ ReasonOK' /\ RecordsOK'
  BY <1>1 DEF WorkerOK, AttemptsOK, RecordedWhen, ReasonOK, RecordsOK
<1>5. Accounted'
  BY <1>2 DEF Accounted, RecordedWhen, TypeOK
<1> QED BY <1>1, <1>3, <1>4, <1>5

\* The broker.
LEMMA BrokerKeeps ==
  DeliveryInv /\ (Deliver \/ ConnectionLost \/ \E e \in Events : Publish(e) \/ ExpireMark(e))
    => DeliveryInv'
<1> SUFFICES ASSUME DeliveryInv,
                    \/ Deliver \/ ConnectionLost
                    \/ \E e \in Events : Publish(e) \/ ExpireMark(e)
             PROVE  DeliveryInv'
  OBVIOUS
<1> USE NotificationAssumption
    DEF DeliveryInv, Handling, Answers, Receipts, storeVars, workerVars, processVars,
        historyVars, brokerVars, Fault
<1>1. CASE Deliver
  <2>1. /\ HeldOnce' /\ ready' \in Seq(Events)
        /\ cur' = unacked' /\ unacked' \in Events
        /\ unacked' \in published \ (acked \cup dlq)
    BY <1>1, TakeHead DEF Deliver
  <2>2. cur = None /\ pc = "idle"
    BY <1>1 DEF Deliver, WorkerOK, TypeOK
  <2>3. TypeOK'
    BY <1>1, <2>1 DEF Deliver, TypeOK
  <2>4. WorkerOK' /\ AttemptsOK' /\ RecordedWhen' /\ ReasonOK' /\ RecordsOK'
    BY <1>1, <2>1, <2>2
       DEF Deliver, WorkerOK, AttemptsOK, RecordedWhen, ReasonOK, RecordsOK
  <2>5. Accounted'
    BY <1>1, <2>2 DEF Deliver, Accounted
  <2> QED BY <2>1, <2>3, <2>4, <2>5
<1>2. CASE ConnectionLost
  <2>1. HeldOnce' /\ ready' \in Seq(Events) /\ unacked' = None
    BY <1>2, ReturnKeeps DEF ConnectionLost
  <2>2. TypeOK'
    <3>1. faults' \in 0..MaxFaults
      BY <1>2 DEF ConnectionLost, TypeOK
    <3>2. open' \in BOOLEAN
      BY <1>2 DEF ConnectionLost
    <3> QED BY <1>2, <2>1, <3>1, <3>2 DEF ConnectionLost, TypeOK
  <2>3. WorkerOK' /\ AttemptsOK' /\ RecordedWhen' /\ ReasonOK' /\ RecordsOK'
    BY <1>2, <2>1
       DEF ConnectionLost, WorkerOK, AttemptsOK, RecordedWhen, ReasonOK, RecordsOK
  <2>4. Accounted'
    BY <1>2 DEF ConnectionLost, Accounted
  <2> QED BY <2>1, <2>2, <2>3, <2>4
<1>3. ASSUME NEW e \in Events, Publish(e)
      PROVE  DeliveryInv'
  <2>1. HeldOnce'
    BY <1>3, QueuePublished DEF Publish, RecordsOK
  <2>2. TypeOK'
    BY <1>3 DEF Publish, TypeOK
  <2>3. WorkerOK' /\ AttemptsOK' /\ RecordedWhen' /\ ReasonOK' /\ RecordsOK'
    BY <1>3 DEF Publish, WorkerOK, AttemptsOK, RecordedWhen, ReasonOK, RecordsOK
  <2>4. Accounted'
    BY <1>3 DEF Publish, Accounted
  <2> QED BY <2>1, <2>2, <2>3, <2>4
<1>4. ASSUME NEW e \in Events, ExpireMark(e)
      PROVE  DeliveryInv'
  BY <1>4, QuietStep, SMTT(30)
     DEF ExpireMark, TypeOK, WorkerOK, AttemptsOK, RecordedWhen, ReasonOK, RecordsOK
<1> QED BY <1>1, <1>2, <1>3, <1>4

\* The rest of the life of a process.
LEMMA ProcessKeeps ==
  DeliveryInv /\ (Timeout \/ Signal \/ CancelWorker \/ Exit \/ Crash \/ Start)
    => DeliveryInv'
<1> SUFFICES ASSUME DeliveryInv,
                    Timeout \/ Signal \/ CancelWorker \/ Exit \/ Crash \/ Start
             PROVE  DeliveryInv'
  OBVIOUS
<1> USE NotificationAssumption
    DEF DeliveryInv, WorkerOK, AttemptsOK, RecordedWhen, ReasonOK, RecordsOK, Handling,
        Answers, At, Fault, storeVars, workerVars, processVars, historyVars, brokerVars
<1>1. CASE Timeout
  <2>1. TypeOK'
    BY <1>1 DEF Timeout, TypeOK
  <2> QED BY <1>1, <2>1, QuietStep DEF Timeout
<1>2. CASE Signal
  <2>1. TypeOK'
    BY <1>2 DEF Signal, TypeOK
  <2> QED BY <1>2, <2>1, QuietStep DEF Signal
<1>3. CASE CancelWorker
  <2>1. TypeOK'
    BY <1>3 DEF CancelWorker, TypeOK
  <2> QED BY <1>3, <2>1, QuietStep DEF CancelWorker
<1>4. CASE Start
  <2>1. TypeOK'
    BY <1>4 DEF Start, TypeOK
  <2> QED BY <1>4, <2>1, QuietStep DEF Start
<1>5. CASE Exit
  BY <1>5, EndKeeps DEF Exit, TypeOK
<1>6. CASE Crash
  <2>1. faults' \in 0..MaxFaults
    BY <1>6 DEF Crash, TypeOK
  <2> QED BY <1>6, <2>1, EndKeeps DEF Crash
<1> QED BY <1>1, <1>2, <1>3, <1>4, <1>5, <1>6

LEMMA NextDelivery == DeliveryInv /\ [Next]_vars => DeliveryInv'
<1> SUFFICES ASSUME DeliveryInv, [Next]_vars PROVE DeliveryInv'
  OBVIOUS
<1>1. CASE UNCHANGED vars
  BY <1>1 DEF vars, DeliveryInv, TypeOK, WorkerOK, AttemptsOK, RecordedWhen, Accounted,
              ReasonOK, RecordsOK, HeldOnce
<1>2. CASE Next
  BY <1>2, LookupKeeps, AttemptKeeps, RecordKeeps, AnswerKeeps, BrokerKeeps, ProcessKeeps
     DEF Next, Worker
<1> QED BY <1>1, <1>2

LEMMA DeliveryAlways == Spec => []DeliveryInv
  BY InitDelivery, NextDelivery, PTL DEF Spec

-----------------------------------------------------------------------------
(***************************************************************************)
(* The variables of the service stay in their sets: the counter of         *)
(* attempts never exceeds the configured number (processor.go:99), whatever*)
(* the worker, the stores, the provider, the broker and the operating      *)
(* system do in between.                                                   *)
(***************************************************************************)
THEOREM NotificationTypeCorrect == Spec => []TypeOK
<1>1. DeliveryInv => TypeOK
  BY DEF DeliveryInv
<1> QED BY <1>1, DeliveryAlways, PTL

(***************************************************************************)
(* A second email for an event needs a gap between an email and its record *)
(* (processor.go:99 to :108), for any number of events, attempts and       *)
(* faults.                                                                 *)
(***************************************************************************)
THEOREM SecondEmailNeedsGap == Spec => []OneEmailButForGaps
<1>1. DeliveryInv => OneEmailButForGaps
  <2> SUFFICES ASSUME DeliveryInv, NEW e \in Events PROVE emails[e] <= gaps[e] + 1
    BY DEF OneEmailButForGaps
  <2>1. gaps[e] \in Nat
    BY DEF DeliveryInv, TypeOK
  <2>2. emails[e] = gaps[e] \/ emails[e] = gaps[e] + 1
    BY <2>1 DEF DeliveryInv, Accounted
  <2> QED BY <2>1, <2>2
<1> QED BY <1>1, DeliveryAlways, PTL

(***************************************************************************)
(* The broker neither loses nor doubles a message that is not settled      *)
(* (main.go:184, :194 and :249-263), however processes and connections     *)
(* end.                                                                    *)
(***************************************************************************)
THEOREM MessageHeldOnce == Spec => []HeldOnce
<1>1. DeliveryInv => HeldOnce
  BY DEF DeliveryInv
<1> QED BY <1>1, DeliveryAlways, PTL

\* Only an attempt sends an email, and only for an event that is not recorded.
LEMMA EmailsOf ==
  ASSUME DeliveryInv, Next
  PROVE  \/ emails' = emails
         \/ /\ Send \/ SendUncertain
            /\ cur \in Events /\ cur \notin processed
            /\ emails' = Bump(emails, cur)
<1>1. CASE Send \/ SendUncertain
  BY <1>1, NotificationAssumption
     DEF Send, SendUncertain, DeliveryInv, TypeOK, WorkerOK, RecordedWhen, Handling, At
<1>2. CASE ~(Send \/ SendUncertain)
  BY <1>2 DEF Next, Worker, Receive, WasProcessed, AlreadySent, CheckFails, SendFails,
              Backoff, RecordProcessed, RecordFails, MarkSent, MarkFails, Ack, Requeue,
              DeadLetter, Answer, Exit, End, Timeout, Publish, ExpireMark, Deliver,
              ConnectionLost, Signal, CancelWorker, Crash, Start, historyVars
<1> QED BY <1>1, <1>2

(***************************************************************************)
(* No step sends an email for an event that is in processed_events         *)
(* (README.md:36), although a message may come back any number of times    *)
(* after it has been recorded.                                             *)
(***************************************************************************)
THEOREM RecordedIsSilent == Spec => NoEmailOnceRecorded
<1>1. DeliveryInv /\ [Next]_vars => [\A e \in processed : emails'[e] = emails[e]]_vars
  BY EmailsOf DEF DeliveryInv, TypeOK, Bump
<1> QED BY <1>1, DeliveryAlways, PTL DEF Spec, NoEmailOnceRecorded

-----------------------------------------------------------------------------
\* One event goes on, the others stay where they are.
LEMMA MoveOne ==
  ASSUME NEW e \in Events, NEW to,
         FateOf(e)' = to, \A d \in Events \ {e} : FateOf(d)' = FateOf(d)
  PROVE  Delivery!Move(e, FateOf(e), to)
  BY DEF Delivery!Move

\* What an event's fate depends on.
LEMMA FateKept ==
  ASSUME NEW e \in Events, DeliveryInv, DeliveryInv',
         e \in acked' <=> e \in acked, e \in dlq' <=> e \in dlq,
         e \in published' <=> e \in published, emails'[e] > 0 <=> emails[e] > 0
  PROVE  FateOf(e)' = FateOf(e)
<1>1. emails[e] \in Nat /\ emails'[e] \in Nat
  BY DEF DeliveryInv, TypeOK
<1> QED BY <1>1 DEF FateOf

\* An event that no email has gone out for is on its way until it is settled.
LEMMA FateIs ==
  ASSUME NEW e \in Events, DeliveryInv
  PROVE  /\ e \in acked => FateOf(e) = "acknowledged"
         /\ e \in dlq /\ e \notin acked => FateOf(e) = "deadlettered"
         /\ e \notin acked \cup dlq /\ emails[e] > 0 => FateOf(e) = "emailed"
         /\ e \in published \ (acked \cup dlq) /\ emails[e] = 0 => FateOf(e) = "queued"
         /\ e \notin published => FateOf(e) = "unpublished"
<1>1. emails[e] \in Nat /\ (e \notin published => emails[e] = 0 /\ e \notin acked \cup dlq)
  BY DEF DeliveryInv, TypeOK, RecordsOK
<1>2. acked \cap dlq = {}
  BY DEF DeliveryInv, HeldOnce
<1> QED BY <1>1, <1>2 DEF FateOf

LEMMA StepDelivers ==
  ASSUME DeliveryInv, DeliveryInv', [Next]_vars
  PROVE  Delivery!DeliveryNext \/ UNCHANGED [e \in Events |-> FateOf(e)]
<1>1. ASSUME NEW e \in Events, Publish(e)
      PROVE  Delivery!Accept(e)
  <2>1. FateOf(e) = "unpublished" /\ FateOf(e)' = "queued"
    <3>1. emails[e] = 0 /\ e \notin acked \cup dlq
      BY <1>1 DEF Publish, DeliveryInv, RecordsOK, TypeOK
    <3> QED BY <1>1, <3>1, FateIs DEF Publish, FateOf, historyVars
  <2>2. \A d \in Events \ {e} : FateOf(d)' = FateOf(d)
    BY <1>1, FateKept DEF Publish, historyVars
  <2> QED BY <2>1, <2>2, MoveOne DEF Delivery!Accept
<1>2. CASE Send \/ SendUncertain
  <2>1. PICK e \in Events :
        /\ e = cur /\ emails' = Bump(emails, e)
        /\ e \in published \ (acked \cup dlq) /\ Kind[e] = "receipt"
        /\ UNCHANGED brokerVars
    BY <1>2, NotificationAssumption
       DEF Send, SendUncertain, DeliveryInv, TypeOK, WorkerOK, ReasonOK, Handling, At
  <2>2. emails \in [Events -> Nat]
    BY DEF DeliveryInv, TypeOK
  <2>3. \A d \in Events \ {e} : FateOf(d)' = FateOf(d)
    BY <2>1, <2>2, FateKept DEF Bump, brokerVars
  <2>4. CASE emails[e] = 0
    <3>1. FateOf(e) = "queued" /\ FateOf(e)' = "emailed"
      BY <2>1, <2>2, <2>4, FateIs DEF Bump, brokerVars, FateOf
    <3> QED BY <2>1, <2>3, <3>1, MoveOne DEF Delivery!DeliveryNext, Delivery!Email
  <2>5. CASE emails[e] # 0
    <3>1. FateOf(e)' = FateOf(e)
      BY <2>1, <2>2, <2>5, FateKept DEF Bump, brokerVars
    <3> QED BY <2>1, <2>3, <3>1
  <2> QED BY <2>4, <2>5
<1>3. CASE open /\ Ack
  <2>1. PICK e \in Events :
        /\ e = cur /\ acked' = acked \cup {e} /\ emails[e] > 0
        /\ e \in published \ (acked \cup dlq)
        /\ UNCHANGED <<published, dlq, emails>>
    BY <1>3, NotificationAssumption
       DEF Ack, Answer, DeliveryInv, TypeOK, WorkerOK, ReasonOK, Answers, At, historyVars
  <2>2. FateOf(e) = "emailed" /\ FateOf(e)' = "acknowledged"
    BY <2>1, FateIs DEF FateOf
  <2>3. \A d \in Events \ {e} : FateOf(d)' = FateOf(d)
    BY <2>1, FateKept
  <2> QED BY <2>1, <2>2, <2>3, MoveOne DEF Delivery!DeliveryNext, Delivery!Settle
<1>4. CASE open /\ DeadLetter
  <2>1. PICK e \in Events :
        /\ e = cur /\ dlq' = dlq \cup {e} /\ Kind[e] # "receipt"
        /\ e \in published \ (acked \cup dlq)
        /\ UNCHANGED <<published, acked, emails>>
    BY <1>4, NotificationAssumption
       DEF DeadLetter, Answer, DeliveryInv, TypeOK, WorkerOK, ReasonOK, Answers, At,
           historyVars
  <2>2. emails[e] = 0
    BY <2>1 DEF DeliveryInv, RecordsOK, TypeOK, Receipts
  <2>3. FateOf(e) = "queued" /\ FateOf(e)' = "deadlettered"
    BY <2>1, <2>2, FateIs DEF FateOf
  <2>4. \A d \in Events \ {e} : FateOf(d)' = FateOf(d)
    BY <2>1, FateKept
  <2> QED BY <2>1, <2>3, <2>4, MoveOne DEF Delivery!DeliveryNext, Delivery!DeadLetter
<1>5. ASSUME ~(open /\ Ack), ~(open /\ DeadLetter), ~(Send \/ SendUncertain),
             \A e \in Events : ~Publish(e)
      PROVE  UNCHANGED [e \in Events |-> FateOf(e)]
  <2>1. UNCHANGED <<published, acked, dlq, emails>>
    BY <1>5
       DEF Next, vars, Worker, Receive, WasProcessed, AlreadySent, CheckFails, SendFails,
           Backoff, RecordProcessed, RecordFails, MarkSent, MarkFails, Ack, Requeue,
           DeadLetter, Answer, Exit, End, Timeout, ExpireMark, Deliver, ConnectionLost,
           Signal, CancelWorker, Crash, Start, historyVars, brokerVars
  <2> QED BY <2>1, FateKept
<1> QED BY <1>1, <1>2, <1>3, <1>4, <1>5 DEF Delivery!DeliveryNext

(***************************************************************************)
(* The service implements the safety part of NotificationDelivery: an      *)
(* event is settled once, acknowledged only after its email has gone out   *)
(* (ARCHITECTURE.md:87; main.go:249), and dead-lettered only when it       *)
(* cannot be announced.                                                    *)
(***************************************************************************)
THEOREM ServiceImplementsDelivery == Spec => Delivery!DeliverySafety
<1>1. Init => Delivery!DeliveryInit
  BY DEF Init, Delivery!DeliveryInit, FateOf
<1>2. DeliveryInv /\ DeliveryInv' /\ [Next]_vars
        => [Delivery!DeliveryNext]_[e \in Events |-> FateOf(e)]
  BY StepDelivers
<1> QED BY <1>1, <1>2, DeliveryAlways, PTL DEF Spec, Delivery!DeliverySafety
=============================================================================

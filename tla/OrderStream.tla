----------------------------- MODULE OrderStream -----------------------------
(***************************************************************************)
(* The order stream: SubscribeToOrderUpdates of order-service, the registry *)
(* of subscribers, the monitor that polls the orders table, a goroutine for *)
(* every update sent, the shutdown of the server, and the stream client.    *)
(*                                                                         *)
(* subs[orderID] is a Go slice.  Removing a subscriber shifts the backing  *)
(* array in place, and the monitor ranges over a slice it took before,     *)
(* without the lock: the array, with the cells beyond the slice's end, is  *)
(* part of the state.                                                      *)
(***************************************************************************)
EXTENDS Integers, Sequences, FiniteSets, Functions, Wire

CONSTANTS Streams,     \* the streams, each with a client and a handler
          Orders,      \* the ids of orders
          Blank,       \* the empty order id
          Outcomes,    \* the statuses that orders leave Pending for
          Capacities,  \* the capacities that append gives a slice
          MaxChanges,  \* bound on changes of status
          MaxGone      \* bound on clients that fail, break or are interrupted

ASSUME StreamAssumption ==
  /\ IsFiniteSet(Streams)
  /\ Blank \notin Orders
  /\ Outcomes \subseteq {"Paid", "Failed", "Cancelled"}
  /\ Capacities \subseteq Nat /\ 0 \in Capacities
  /\ MaxChanges \in Nat /\ MaxGone \in Nat

VARIABLES
  status,   \* order -> its status in the table
  changes,  \* changes of status so far
  order,    \* stream -> the id that was asked for
  handler,  \* stream -> where its handler is
  seen,     \* stream -> the status its handler has read
  broken,   \* streams the server knows to be broken
  gone,     \* clients that failed, broke or were interrupted so far
  closed,   \* streams whose subscriber's channel done is closed
  array,    \* order -> the backing array of subs[orderID], <<>> without one
  len,      \* order -> the length of subs[orderID]
  last,     \* order -> lastStatuses[orderID], "" without an entry
  mon,      \* where the monitor is, and what it is working on
  view,     \* the slice that notifySubscribers ranges over
  sending,  \* stream -> the updates that goroutines are about to send it
  client,   \* stream -> what its client is doing
  shown,    \* stream -> the status its client printed last
  server    \* the process: "running", "stopping", "stopped", "panicked"

tableVars == <<status, changes>>
handlerVars == <<order, handler, seen>>
registryVars == <<array, len>>
monitorVars == <<last, mon, view>>
clientVars == <<client, shown>>
vars == <<status, changes, order, handler, seen, broken, gone, closed, array,
          len, last, mon, view, sending, client, shown, server>>

Status == {"Pending"} \cup Outcomes
Up == server \in {"running", "stopping"}

\* The subscribers of an order: the slice, without the array's other cells.
Slice(o) == SubSeq(array[o], 1, len[o])
Subs(o) == Range(Slice(o))

\* An empty slice is deleted from the map.
Keys == {o \in Orders : len[o] > 0}

NoView == [order |-> Blank, cells |-> <<>>, len |-> 0, i |-> 1, subs |-> {},
           notified |-> {}, left |-> {}]

-----------------------------------------------------------------------------
\* stream.Send.  It fails on a stream that is broken or whose handler has
\* returned; a client that was interrupted leaves its loop with the next
\* update.
Live(c) == c \notin broken /\ handler[c] \in {"initial", "waiting"}

RequestZero == [order_id |-> Blank]
UpdateZero == [status |-> ""]

\* The client's stub puts the request on the wire, the handler's reads it.
SendRequest(o) == Marshal(ClientOrderRequest, RequestZero, [order_id |-> o])

ReceiveRequest(w) == Unmarshal(OrderServiceOrderRequest, RequestZero, w)

\* The field Status of the update is left unset.
SendMsgNoStatus(s) == Marshal(OrderServiceStatusUpdate, UpdateZero, UpdateZero)

\* An update on its way: Send in the server, Recv in the client.
SendMsg(s) == Marshal(OrderServiceStatusUpdate, UpdateZero, [status |-> s])

Recv(w) == Unmarshal(ClientStatusUpdate, UpdateZero, w)

\* What the other side finds in a request for an order, and in an update.
Requested == [o \in Orders \cup {Blank} |-> ReceiveRequest(SendRequest(o)).order_id]
Printed == [s \in Status |-> Recv(SendMsg(s)).status]

\* The client prints the update.
Deliver(c, s) ==
  /\ shown' = [shown EXCEPT ![c] = Printed[s]]
  /\ client' = [client EXCEPT ![c] = IF @ = "interrupted" THEN "exited" ELSE @]

-----------------------------------------------------------------------------
\* One client more that is not there to the end.
Leaves == gone < MaxGone /\ gone' = gone + 1

\* The client's main returns: with the step that ends its stream, whose error
\* Recv reports to nobody but the client.
Exits(c) == client' = [client EXCEPT ![c] = "exited"]

\* The client subscribes, or fails to.  A stopping server takes no new stream.
Subscribe(c, o) ==
  /\ client[c] = "off"
  /\ \/ /\ server = "running"
        /\ client' = [client EXCEPT ![c] = "receiving"]
        /\ order' = [order EXCEPT ![c] = Requested[o]]
        /\ handler' = [handler EXCEPT ![c] = "lookup"]
        /\ UNCHANGED gone
     \/ /\ Leaves
        /\ Exits(c)
        /\ UNCHANGED <<order, handler>>
  /\ UNCHANGED <<tableVars, seen, broken, closed, registryVars,
                 monitorVars, sending, shown, server>>

\* The order id is checked, and getOrder reads the row.
Lookup(c) ==
  /\ Up
  /\ handler[c] = "lookup"
  /\ order[c] # Blank
  /\ seen' = [seen EXCEPT ![c] = status[order[c]]]
  /\ handler' = [handler EXCEPT ![c] = "register"]
  /\ UNCHANGED <<tableVars, order, broken, gone, closed, registryVars,
                 monitorVars, sending, clientVars, server>>

\* InvalidArgument, or whatever error getOrder has as NotFound.
LookupFails(c) ==
  /\ Up
  /\ handler[c] = "lookup"
  /\ handler' = [handler EXCEPT ![c] = "returned"]
  /\ Exits(c)
  /\ UNCHANGED <<tableVars, order, seen, broken, gone, closed, registryVars,
                 monitorVars, sending, shown, server>>

\* The slice that the monitor ranges over keeps the array it was taken from.
Kept(o) ==
  IF view.order = o THEN [view EXCEPT !.order = Blank, !.cells = array[o]] ELSE view

\* append: into the next cell, that a removal has left over or that was never
\* used; a slice that has reached its capacity is copied to a new array.
Register(c) ==
  /\ Up
  /\ handler[c] = "register"
  /\ LET o == order[c]
     IN /\ len' = [len EXCEPT ![o] = @ + 1]
        /\ array' = IF Len(array[o]) > len[o]
                    THEN [array EXCEPT ![o][len[o] + 1] = c]
                    ELSE [array EXCEPT ![o] = Append(@, c)]
        /\ view' = IF len[o] = Len(array[o]) /\ len[o] \in Capacities
                   THEN Kept(o) ELSE view
  /\ handler' = [handler EXCEPT ![c] = "initial"]
  /\ UNCHANGED <<tableVars, order, seen, broken, gone, closed, last, mon,
                 sending, clientVars, server>>

SendInitial(c) ==
  /\ Up
  /\ handler[c] = "initial"
  /\ c \notin broken
  /\ Deliver(c, seen[c])
  /\ handler' = [handler EXCEPT ![c] = "waiting"]
  /\ UNCHANGED <<tableVars, order, seen, broken, gone, closed, registryVars,
                 monitorVars, sending, server>>

\* The handler returns without removing its subscriber.
SendInitialFails(c) ==
  /\ Up
  /\ handler[c] = "initial"
  /\ c \in broken
  /\ handler' = [handler EXCEPT ![c] = "leaked"]
  /\ Exits(c)
  /\ UNCHANGED <<tableVars, order, seen, broken, gone, closed, registryVars,
                 monitorVars, sending, shown, server>>

Position(c) == CHOOSE i \in 1..len[order[c]] : array[order[c]][i] = c

\* The copy starts one cell too late.
ShiftLate(cells, i, n) ==
  [k \in DOMAIN cells |-> cells[IF k \in (i + 1)..(n - 1) THEN k + 1 ELSE k]]

\* append(subs[:i], subs[i+1:]...): the array is changed in place, and its
\* last cell keeps what it held.
Shift(cells, i, n) ==
  [k \in DOMAIN cells |-> cells[IF k \in i..(n - 1) THEN k + 1 ELSE k]]

\* history: who left while the monitor was ranging over the order's slice.
Left(v, c) ==
  IF mon.pc = "spawn" /\ mon.order = order[c]
  THEN [v EXCEPT !.left = @ \cup {c}] ELSE v

\* The handler's wait ends, and removeSubscriber takes the lock.
RemoveSubscriber(c) ==
  /\ Up
  /\ handler[c] = "waiting"
  /\ c \in closed
  /\ LET o == order[c]
     IN /\ len' = [len EXCEPT ![o] = @ - 1]
        /\ IF len[o] = 1
           THEN /\ array' = [array EXCEPT ![o] = <<>>]
                /\ view' = Left(Kept(o), c)
           ELSE /\ array' = [array EXCEPT ![o] = Shift(@, Position(c), len[o])]
                /\ view' = Left(view, c)
  /\ handler' = [handler EXCEPT ![c] = "returned"]
  /\ Exits(c)
  /\ UNCHANGED <<tableVars, order, seen, broken, gone, closed, last, mon,
                 sending, shown, server>>

-----------------------------------------------------------------------------
\* checkForUpdates: the ids are collected under the lock, then worked through.
Tick ==
  /\ Up
  /\ mon.pc = "poll" /\ mon.todo = {}
  /\ mon' = [mon EXCEPT !.todo = Keys]
  /\ UNCHANGED <<tableVars, handlerVars, broken, gone, closed, registryVars,
                 last, view, sending, clientVars, server>>

\* lastStatuses is not brought up to date when subscribers are notified.
CheckOrderForgets(o) ==
  /\ Up
  /\ mon.pc = "poll" /\ o \in mon.todo
  /\ last' = [last EXCEPT ![o] = IF @ = "" THEN status[o] ELSE @]
  /\ mon' = IF last[o] \in {"", status[o]}
            THEN [mon EXCEPT !.todo = @ \ {o}]
            ELSE [pc |-> "notify", todo |-> mon.todo \ {o}, order |-> o,
                  status |-> status[o]]
  /\ UNCHANGED <<tableVars, handlerVars, broken, gone, closed, registryVars,
                 view, sending, clientVars, server>>

\* The first status read for an order is only remembered; it is never
\* forgotten.
CheckOrder(o) ==
  /\ Up
  /\ mon.pc = "poll" /\ o \in mon.todo
  /\ last' = [last EXCEPT ![o] = status[o]]
  /\ mon' = IF last[o] \in {"", status[o]}
            THEN [mon EXCEPT !.todo = @ \ {o}]
            ELSE [pc |-> "notify", todo |-> mon.todo \ {o}, order |-> o,
                  status |-> status[o]]
  /\ UNCHANGED <<tableVars, handlerVars, broken, gone, closed, registryVars,
                 view, sending, clientVars, server>>

\* getOrder failed: the order's turn comes again with the next poll.
CheckFails(o) ==
  /\ Up
  /\ mon.pc = "poll" /\ o \in mon.todo
  /\ mon' = [mon EXCEPT !.todo = @ \ {o}]
  /\ UNCHANGED <<tableVars, handlerVars, broken, gone, closed, registryVars,
                 last, view, sending, clientVars, server>>

\* notifySubscribers takes the slice under the lock, and gives the lock up.
TakeSlice ==
  /\ Up
  /\ mon.pc = "notify"
  /\ mon' = [mon EXCEPT !.pc = "spawn"]
  /\ view' = [order |-> mon.order, cells |-> <<>>, len |-> len[mon.order], i |-> 1,
              subs |-> Subs(mon.order), notified |-> {}, left |-> {}]
  /\ UNCHANGED <<tableVars, handlerVars, broken, gone, closed, registryVars,
                 last, sending, clientVars, server>>

\* All goroutines see the loop variable's last value.
CellCaptured ==
  IF view.order = Blank THEN view.cells[view.len] ELSE array[view.order][view.len]

\* The cell that the range statement reads now: of the array that removals
\* shift, unless the registry has moved on to another array.
Cell == IF view.order = Blank THEN view.cells[view.i] ELSE array[view.order][view.i]

\* go func(...): one more update on its way to the subscriber in the cell.
Spawn ==
  /\ Up
  /\ mon.pc = "spawn" /\ view.i <= view.len
  /\ sending' = [sending EXCEPT ![Cell][mon.status] = @ + 1]
  /\ view' = [view EXCEPT !.i = @ + 1, !.notified = @ \cup {Cell}]
  /\ UNCHANGED <<tableVars, handlerVars, broken, gone, closed, registryVars,
                 last, mon, clientVars, server>>

SpawnDone ==
  /\ Up
  /\ mon.pc = "spawn" /\ view.i > view.len
  /\ mon' = [mon EXCEPT !.pc = "poll", !.order = Blank, !.status = ""]
  /\ view' = NoView
  /\ UNCHANGED <<tableVars, handlerVars, broken, gone, closed, registryVars,
                 last, sending, clientVars, server>>

\* Stop has cancelled the monitor's context.
MonitorEnds ==
  /\ server = "stopping"
  /\ mon.pc = "poll" /\ mon.todo = {}
  /\ mon' = [mon EXCEPT !.pc = "ended"]
  /\ UNCHANGED <<tableVars, handlerVars, broken, gone, closed, registryVars,
                 last, view, sending, clientVars, server>>

-----------------------------------------------------------------------------
\* The subscriber is given up whether or not the send has failed.
SendUpdateCloses(c, s) ==
  /\ Up
  /\ sending[c][s] > 0
  /\ Live(c)
  /\ sending' = [sending EXCEPT ![c][s] = @ - 1]
  /\ closed' = closed \cup {c}
  /\ Deliver(c, s)
  /\ UNCHANGED <<tableVars, handlerVars, broken, gone, registryVars,
                 monitorVars, server>>

\* The goroutines that send.
SendUpdate(c, s) ==
  /\ Up
  /\ sending[c][s] > 0
  /\ Live(c)
  /\ sending' = [sending EXCEPT ![c][s] = @ - 1]
  /\ Deliver(c, s)
  /\ UNCHANGED <<tableVars, handlerVars, broken, gone, closed, registryVars,
                 monitorVars, server>>

\* The failure is only logged.
SendUpdateFailsLogged(c, s) ==
  /\ Up
  /\ sending[c][s] > 0
  /\ ~Live(c)
  /\ sending' = [sending EXCEPT ![c][s] = @ - 1]
  /\ UNCHANGED <<tableVars, handlerVars, broken, gone, closed, registryVars,
                 monitorVars, clientVars, server>>

\* close(subscriber.done) of a closed channel panics, and ends the process.
SendUpdateFails(c, s) ==
  /\ Up
  /\ sending[c][s] > 0
  /\ ~Live(c)
  /\ sending' = [sending EXCEPT ![c][s] = @ - 1]
  /\ closed' = closed \cup {c}
  /\ server' = IF c \in closed THEN "panicked" ELSE server
  /\ UNCHANGED <<tableVars, handlerVars, broken, gone, registryVars,
                 monitorVars, clientVars>>

-----------------------------------------------------------------------------
\* SIGINT cancels a context that Recv does not look at.
Interrupt(c) ==
  /\ client[c] = "receiving"
  /\ Leaves
  /\ client' = [client EXCEPT ![c] = "interrupted"]
  /\ UNCHANGED <<tableVars, handlerVars, broken, closed, registryVars,
                 monitorVars, sending, shown, server>>

\* The server learns that the client has closed its connection.
Disconnect(c) ==
  /\ client[c] = "exited" /\ c \notin broken
  /\ handler[c] \notin {"idle", "returned"}
  /\ broken' = broken \cup {c}
  /\ UNCHANGED <<tableVars, handlerVars, gone, closed, registryVars,
                 monitorVars, sending, clientVars, server>>

\* The connection breaks, or the client is killed.
ConnectionLost(c) ==
  /\ Leaves
  /\ client[c] \in {"receiving", "interrupted"}
  /\ Exits(c)
  /\ broken' = broken \cup {c}
  /\ UNCHANGED <<tableVars, handlerVars, closed, registryVars, monitorVars,
                 sending, shown, server>>

-----------------------------------------------------------------------------
\* What OrderService does to a row: an order leaves Pending, and a request
\* that read it before may overwrite what another one wrote.
ChangeStatus(o, s) ==
  /\ changes < MaxChanges
  /\ s \notin {"Pending", status[o]}
  /\ status' = [status EXCEPT ![o] = s]
  /\ changes' = changes + 1
  /\ UNCHANGED <<handlerVars, broken, gone, closed, registryVars, monitorVars,
                 sending, clientVars, server>>

\* main: Stop, and GracefulStop begins to wait for the handlers.
Shutdown ==
  /\ server = "running"
  /\ server' = "stopping"
  /\ UNCHANGED <<tableVars, handlerVars, broken, gone, closed, registryVars,
                 monitorVars, sending, clientVars>>

GracefulStop ==
  /\ server = "stopping"
  /\ \A c \in Streams : handler[c] \in {"idle", "returned", "leaked"}
  /\ server' = "stopped"
  /\ UNCHANGED <<tableVars, handlerVars, broken, gone, closed, registryVars,
                 monitorVars, sending, clientVars>>

-----------------------------------------------------------------------------
Init ==
  /\ status = [o \in Orders |-> "Pending"]
  /\ changes = 0
  /\ order = [c \in Streams |-> Blank]
  /\ handler = [c \in Streams |-> "idle"]
  /\ seen = [c \in Streams |-> ""]
  /\ broken = {} /\ gone = 0 /\ closed = {}
  /\ array = [o \in Orders |-> <<>>]
  /\ len = [o \in Orders |-> 0]
  /\ last = [o \in Orders |-> ""]
  /\ mon = [pc |-> "poll", todo |-> {}, order |-> Blank, status |-> ""]
  /\ view = NoView
  /\ sending = [c \in Streams |-> [s \in Status |-> 0]]
  /\ client = [c \in Streams |-> "off"]
  /\ shown = [c \in Streams |-> ""]
  /\ server = "running"

Handler(c) ==
  \/ Lookup(c) \/ LookupFails(c) \/ Register(c)
  \/ SendInitial(c) \/ SendInitialFails(c) \/ RemoveSubscriber(c)

Monitor ==
  \/ Tick
  \/ \E o \in Orders : CheckOrder(o) \/ CheckFails(o)
  \/ TakeSlice \/ Spawn \/ SpawnDone \/ MonitorEnds

Sender(c) == \E s \in Status : SendUpdate(c, s) \/ SendUpdateFails(c, s)

Next ==
  \/ Monitor
  \/ \E c \in Streams : \/ \E o \in Orders \cup {Blank} : Subscribe(c, o)
                        \/ Handler(c) \/ Sender(c)
                        \/ Interrupt(c)
                        \/ Disconnect(c) \/ ConnectionLost(c)
  \/ \E o \in Orders, s \in Status : ChangeStatus(o, s)
  \/ Shutdown \/ GracefulStop

Spec == Init /\ [][Next]_vars

\* Goroutines are scheduled and the ticker ticks; a client that has gone is
\* noticed; a read of a row does not fail for ever.
Fairness ==
  /\ WF_vars(Monitor)
  /\ WF_vars(MonitorEnds)
  /\ WF_vars(GracefulStop)
  /\ \A o \in Orders : SF_vars(CheckOrder(o))
  /\ \A c \in Streams : /\ WF_vars(Handler(c)) /\ WF_vars(Sender(c))
                         /\ WF_vars(Disconnect(c))

FairSpec == Spec /\ Fairness

-----------------------------------------------------------------------------
TypeOK ==
  /\ status \in [Orders -> Status] /\ changes \in 0..MaxChanges
  /\ order \in [Streams -> Orders \cup {Blank}]
  /\ handler \in [Streams -> {"idle", "lookup", "register", "initial",
                              "waiting", "returned", "leaked"}]
  /\ seen \in [Streams -> Status \cup {""}]
  /\ broken \subseteq Streams /\ closed \subseteq Streams /\ gone \in 0..MaxGone
  /\ array \in [Orders -> Seq(Streams)]
  /\ len \in [Orders -> Nat] /\ \A o \in Orders : len[o] <= Len(array[o])
  /\ last \in [Orders -> Status \cup {""}]
  /\ mon \in [pc: {"poll", "notify", "spawn", "ended"}, todo: SUBSET Orders,
              order: Orders \cup {Blank}, status: Status \cup {""}]
  /\ sending \in [Streams -> [Status -> Nat]]
  /\ client \in [Streams -> {"off", "receiving", "interrupted", "exited"}]
  /\ shown \in [Streams -> Status \cup {""}]
  /\ \A c \in Streams : handler[c] = "waiting" => shown[c] \in Status
  /\ server \in {"running", "stopping", "stopped", "panicked"}

(***************************************************************************)
(* The registry is exact: the slice of an order holds every subscriber     *)
(* whose handler is between its registration and its removal, once, and    *)
(* apart from them only those whose first send failed (server.go:87),      *)
(* however removals shift the array and registrations reuse its cells.     *)
(***************************************************************************)
RegistryExact ==
  \A o \in Orders :
    /\ Subs(o) = {c \in Streams : order[c] = o /\
                                  handler[c] \in {"initial", "waiting", "leaked"}}
    /\ Cardinality(Subs(o)) = len[o]

(***************************************************************************)
(* When an update has been handed out, the subscribers that it missed      *)
(* although they were registered are no more than those that left in the   *)
(* meantime: what a removal shifts away under the range statement          *)
(* (server.go:178 and :196) is bounded, and with no removal nobody is      *)
(* missed.                                                                 *)
(***************************************************************************)
MissedAtMostLeavers ==
  mon.pc = "spawn" /\ view.i > view.len =>
    Cardinality(view.subs \ (view.notified \cup view.left))
      <= Cardinality(view.left)

(***************************************************************************)
(* Only a broken stream's subscriber is given up: done is closed after a   *)
(* failed send (server.go:180-183), and the send was started from a cell   *)
(* read without the lock, which others that fail, leave and register shift *)
(* and reuse.  A subscriber that is connected is never removed.            *)
(***************************************************************************)
GivenUpOnlyIfBroken == closed \subseteq broken

(***************************************************************************)
(* The poll catches up: as long as somebody is subscribed to an order, the *)
(* monitor comes to know its last status, although reads fail              *)
(* (server.go:125), the row changes again while an update is handed out,   *)
(* and subscribers leave meanwhile.                                        *)
(***************************************************************************)
PollCatchesUp ==
  \A o \in Orders : <>[](o \in Keys /\ server = "running")
                      => <>[](last[o] = status[o])

(***************************************************************************)
(* The handler of a broken stream is released by the next update sent to   *)
(* it (server.go:91 and :182), if the process lives that long.             *)
(***************************************************************************)
UpdateReleasesBroken ==
  \A c \in Streams :
    (/\ c \in broken /\ handler[c] = "waiting"
     /\ \E s \in Status : sending[c][s] > 0) ~> (handler[c] = "returned" \/ ~Up)

(***************************************************************************)
(* README.md:307: "Graceful Shutdown: Proper cleanup of gRPC connections", *)
(* and server.go:90, of a handler that waits: "wait for updates or         *)
(* disconnection".  A server that was told to stop stops, at the latest    *)
(* when its clients have gone.                                             *)
(***************************************************************************)
StopEnds ==
  (server = "stopping" /\ \A c \in Streams : client[c] \in {"off", "exited"})
    ~> server # "stopping"

(***************************************************************************)
(* ARCHITECTURE.md:187: "Polling Interval: 500ms", "Change Detection:      *)
(* Status comparison", "Notification: Push to all subscribers".  A client  *)
(* that stays subscribed ends up with the order's status.                  *)
(***************************************************************************)
SubscribersLearnStatus ==
  \A c \in Streams :
    <>[](server = "running" /\ handler[c] = "waiting" /\ c \notin broken)
      => <>[](handler[c] = "waiting" /\ shown[c] = status[order[c]])
=============================================================================

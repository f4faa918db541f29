-------------------------- MODULE OrderStreamProofs --------------------------
(***************************************************************************)
(* What the order stream guarantees for any number of streams, orders,     *)
(* changes of status and clients that leave.                               *)
(***************************************************************************)
EXTENDS OrderStream, WireProofs, SequenceTheorems, FiniteSetTheorems

\* TypeOK, in the parts that steps change together.
TableType == status \in [Orders -> Status] /\ changes \in 0..MaxChanges
HandlerType ==
  /\ order \in [Streams -> Orders \cup {Blank}]
  /\ handler \in [Streams -> {"idle", "lookup", "register", "initial",
                              "waiting", "returned", "leaked"}]
  /\ seen \in [Streams -> Status \cup {""}]
ClientType ==
  /\ client \in [Streams -> {"off", "receiving", "interrupted", "exited"}]
  /\ shown \in [Streams -> Status \cup {""}]
ServerType ==
  /\ broken \subseteq Streams /\ closed \subseteq Streams
  /\ server \in {"running", "stopping", "stopped", "panicked"}
GoneType == gone \in 0..MaxGone
ArrayType ==
  /\ array \in [Orders -> Seq(Streams)] /\ len \in [Orders -> Nat]
  /\ \A o \in Orders : len[o] <= Len(array[o])
MonType ==
  /\ last \in [Orders -> Status \cup {""}]
  /\ mon \in [pc: {"poll", "notify", "spawn", "ended"}, todo: SUBSET Orders,
              order: Orders \cup {Blank}, status: Status \cup {""}]
SendingType == sending \in [Streams -> [Status -> Nat]]

\* The slice that the monitor ranges over, which TypeOK leaves out.
ViewType ==
  view \in [order: Orders \cup {Blank}, cells: Seq(Streams), len: Nat, i: Nat \ {0},
            subs: SUBSET Streams, notified: SUBSET Streams, left: SUBSET Streams]

\* A handler past its look-up knows its order and the order's status.
HandlerOK ==
  \A c \in Streams :
    /\ handler[c] \in {"register", "initial", "waiting", "leaked"} => order[c] \in Orders
    /\ handler[c] \in {"register", "initial"} => seen[c] \in Status
    /\ client[c] = "off" => handler[c] = "idle"

\* A client whose handler waits has been shown a status.
ShownOK == \A c \in Streams : handler[c] = "waiting" => shown[c] \in Status

\* The monitor notifies of a status, and ranges within an array that exists.
MonitorOK ==
  /\ mon.pc \in {"notify", "spawn"} => mon.order \in Orders /\ mon.status \in Status
  /\ view.order = Blank => view.len <= Len(view.cells)
  /\ view.order # Blank => /\ mon.pc = "spawn" /\ view.order = mon.order
                           /\ view.len <= Len(array[view.order])

TypeInv ==
  /\ TableType /\ HandlerType /\ ClientType /\ ServerType /\ GoneType
  /\ ArrayType /\ MonType /\ SendingType /\ ViewType
  /\ HandlerOK /\ MonitorOK

\* The streams that are registered for an order.
Members(o) == {c \in Streams : order[c] = o /\
                               handler[c] \in {"initial", "waiting", "leaked"}}

\* They are in the slice, once each, and nobody else is.
SliceExact ==
  \A o \in Orders :
    /\ \A i \in 1..len[o] : array[o][i] \in Members(o)
    /\ \A c \in Members(o) : \E i \in 1..len[o] : array[o][i] = c
    /\ \A i, j \in 1..len[o] : array[o][i] = array[o][j] => i = j

\* A stream that has been registered is connected and served, or broken.
Served(c) == c \in broken \/ handler[c] \in {"initial", "waiting"}

\* So are the streams in cells that the registry no longer uses, those in an
\* array that it has left, and those that an update is on its way to.
CellsServed ==
  /\ \A o \in Orders : \A i \in 1..Len(array[o]) : Served(array[o][i])
  /\ \A i \in 1..Len(view.cells) : Served(view.cells[i])
  /\ \A c \in Streams : \A s \in Status : sending[c][s] > 0 => Served(c)

(***************************************************************************)
(* That only broken streams are given up is not inductive: the update that *)
(* fails was started from a cell that the monitor read without the lock,   *)
(* and that may have been shifted or left over.  What all of these cells   *)
(* have in common is that the stream in them was registered (CellsServed). *)
(* A removal finds its subscriber because the slice is exact.              *)
(***************************************************************************)
RegistryInv == TypeInv /\ ShownOK /\ SliceExact /\ CellsServed /\ GivenUpOnlyIfBroken

\* A subscriber that the range statement will still come to: the slice has it
\* at a position that is not yet read.
Ahead(c) ==
  \E k \in view.i..view.len :
    IF view.order = Blank THEN view.cells[k] = c
                          ELSE k <= len[view.order] /\ array[view.order][k] = c

\* The subscribers that are to be notified, and those of them that will not be.
Remaining == view.subs \ (view.notified \cup view.left)
Missed == {c \in Remaining : ~Ahead(c)}

(***************************************************************************)
(* MissedAtMostLeavers speaks of the end of the range statement.  On the   *)
(* way there a removal shifts at most one subscriber, the one in the cell  *)
(* that is read next, to where the monitor has been; and it adds one to    *)
(* those that left, since nobody leaves twice.                             *)
(***************************************************************************)
RangeInv ==
  /\ \A c \in view.left : handler[c] = "returned"
  /\ view.order # Blank => Remaining \subseteq Members(view.order)
  /\ mon.pc = "spawn" => Cardinality(Missed) <= Cardinality(view.left)

\* The steps of a stream other than its registration and its removal.
Elsewhere(c) ==
  \/ \E o \in Orders \cup {Blank} : Subscribe(c, o)
  \/ Lookup(c) \/ LookupFails(c) \/ SendInitial(c) \/ SendInitialFails(c)
  \/ Sender(c) \/ Interrupt(c) \/ Disconnect(c) \/ ConnectionLost(c)

\* The steps that belong to no stream.
NoStream ==
  \/ Monitor \/ (\E o \in Orders, s \in Status : ChangeStatus(o, s))
  \/ Shutdown \/ GracefulStop \/ UNCHANGED vars

-----------------------------------------------------------------------------
\* The copies of the generated code agree: a client asks for the order that it
\* names, and prints the status that the server sends.
LEMMA OverTheWire ==
  /\ \A o \in Orders \cup {Blank} : Requested[o] = o
  /\ \A s \in Status : Printed[s] = s
<1>1. ASSUME NEW o \in Orders \cup {Blank} PROVE Requested[o] = o
  <2> DEFINE m == [order_id |-> o]
  <2>1. DOMAIN RequestZero = {"order_id"}
    BY DEF RequestZero
  <2>2. /\ "order_id" \in DOMAIN OrderServiceOrderRequest
        /\ OrderServiceOrderRequest["order_id"] = ClientOrderRequest["order_id"]
    BY DEF OrderServiceOrderRequest, ClientOrderRequest
  <2>3. Unmarshal(OrderServiceOrderRequest, RequestZero,
                  Marshal(ClientOrderRequest, RequestZero, m))
          = [f \in DOMAIN RequestZero |-> m[f]]
    <3> HIDE DEF m
    <3> QED BY <2>1, <2>2, RoundTrip
  <2>4. ReceiveRequest(SendRequest(o)).order_id = o
    BY <2>1, <2>3 DEF ReceiveRequest, SendRequest
  <2> QED BY <2>4 DEF Requested
<1>2. ASSUME NEW s \in Status PROVE Printed[s] = s
  <2> DEFINE m == [status |-> s]
  <2>1. DOMAIN UpdateZero = {"status"}
    BY DEF UpdateZero
  <2>2. /\ "status" \in DOMAIN ClientStatusUpdate
        /\ ClientStatusUpdate["status"] = OrderServiceStatusUpdate["status"]
    BY DEF ClientStatusUpdate, OrderServiceStatusUpdate
  <2>3. Unmarshal(ClientStatusUpdate, UpdateZero,
                  Marshal(OrderServiceStatusUpdate, UpdateZero, m))
          = [f \in DOMAIN UpdateZero |-> m[f]]
    <3> HIDE DEF m
    <3> QED BY <2>1, <2>2, RoundTrip
  <2>4. Recv(SendMsg(s)).status = s
    BY <2>1, <2>3 DEF Recv, SendMsg
  <2> QED BY <2>4 DEF Printed
<1> QED BY <1>1, <1>2

\* What append makes of a slice whose head is removed from an array in place.
LEMMA ShiftedCells ==
  ASSUME NEW S, NEW cells \in Seq(S), NEW n \in 1..Len(cells), NEW i \in 1..n
  PROVE  /\ Shift(cells, i, n) \in Seq(S)
         /\ Len(Shift(cells, i, n)) = Len(cells)
         /\ \A k \in 1..Len(cells) :
              Shift(cells, i, n)[k] = IF k >= i /\ k < n THEN cells[k + 1] ELSE cells[k]
<1>1. DOMAIN cells = 1..Len(cells) /\ Len(cells) \in Nat
  OBVIOUS
<1>2. \A k \in 1..Len(cells) :
        /\ Shift(cells, i, n)[k] = IF k >= i /\ k < n THEN cells[k + 1] ELSE cells[k]
        /\ Shift(cells, i, n)[k] \in S
  <2> SUFFICES ASSUME NEW k \in 1..Len(cells)
               PROVE  /\ Shift(cells, i, n)[k]
                            = IF k >= i /\ k < n THEN cells[k + 1] ELSE cells[k]
                      /\ Shift(cells, i, n)[k] \in S
    OBVIOUS
  <2>1. Shift(cells, i, n)[k] = cells[IF k \in i..(n - 1) THEN k + 1 ELSE k]
    BY <1>1 DEF Shift
  <2>2. k \in i..(n - 1) <=> k >= i /\ k < n
    BY <1>1
  <2>3. k \in i..(n - 1) => k + 1 \in 1..Len(cells)
    BY <1>1
  <2> QED BY <1>1, <2>1, <2>2, <2>3
<1>3. Shift(cells, i, n) = [k \in 1..Len(cells) |-> Shift(cells, i, n)[k]]
  BY <1>1 DEF Shift
<1>4. Shift(cells, i, n) \in Seq(S) /\ Len(Shift(cells, i, n)) = Len(cells)
  BY <1>1, <1>2, <1>3, IsASeq, LenProperties
<1> QED BY <1>2, <1>4

\* What a registration does to the registry and to the monitor's slice.
LEMMA Registers ==
  ASSUME TypeInv, NEW c \in Streams, Register(c)
  PROVE  \E o \in Orders :
           /\ o = order[c] /\ len[o] \in Nat /\ Len(array[o]) \in Nat
           /\ len' = [len EXCEPT ![o] = len[o] + 1]
           /\ array' \in [Orders -> Seq(Streams)]
           /\ \A q \in Orders \ {o} : array'[q] = array[q]
           /\ Len(array'[o]) >= len[o] + 1
           /\ array'[o][len[o] + 1] = c
           /\ \A k \in 1..Len(array[o]) : k # len[o] + 1 => array'[o][k] = array[o][k]
           /\ \/ Len(array'[o]) = Len(array[o])
              \/ Len(array[o]) = len[o] /\ Len(array'[o]) = len[o] + 1
           /\ view' = view \/ view' = Kept(o)
<1>1. PICK o \in Orders : o = order[c]
  BY DEF TypeInv, HandlerOK, Register
<1> WITNESS o \in Orders
<1>0. /\ array \in [Orders -> Seq(Streams)] /\ len \in [Orders -> Nat]
      /\ \A q \in Orders : len[q] <= Len(array[q])
  BY DEF TypeInv, ArrayType
<1>2. /\ array[o] \in Seq(Streams) /\ len[o] \in Nat /\ Len(array[o]) \in Nat
      /\ len[o] <= Len(array[o])
  BY <1>0
<1>3. len' = [len EXCEPT ![o] = len[o] + 1]
  BY <1>0, <1>1, <1>2 DEF Register
<1>v. view' = view \/ view' = Kept(o)
  BY <1>1 DEF Register
<1>4. CASE Len(array[o]) > len[o]
  <2>1. array' = [array EXCEPT ![o] = [array[o] EXCEPT ![len[o] + 1] = c]]
    BY <1>1, <1>4 DEF Register
  <2>2. /\ [array[o] EXCEPT ![len[o] + 1] = c] \in Seq(Streams)
        /\ Len([array[o] EXCEPT ![len[o] + 1] = c]) = Len(array[o])
        /\ \A k \in 1..Len(array[o]) : [array[o] EXCEPT ![len[o] + 1] = c][k]
                                         = IF k = len[o] + 1 THEN c ELSE array[o][k]
    BY <1>2, <1>4, ExceptSeq
  <2>3. len[o] + 1 \in 1..Len(array[o])
    BY <1>2, <1>4
  <2>4. /\ array' \in [Orders -> Seq(Streams)]
        /\ array'[o] = [array[o] EXCEPT ![len[o] + 1] = c]
        /\ \A q \in Orders \ {o} : array'[q] = array[q]
    BY <1>0, <1>2, <2>1, <2>2
  <2> QED BY <1>1, <1>2, <1>3, <1>v, <2>1, <2>2, <2>3, <2>4
<1>5. CASE ~(Len(array[o]) > len[o])
  <2>1. array' = [array EXCEPT ![o] = Append(array[o], c)]
    BY <1>1, <1>2, <1>5 DEF Register
  <2>2. Len(array[o]) = len[o]
    BY <1>2, <1>5
  <2>3. /\ Append(array[o], c) \in Seq(Streams)
        /\ Len(Append(array[o], c)) = Len(array[o]) + 1
        /\ Append(array[o], c)[Len(array[o]) + 1] = c
        /\ \A k \in 1..Len(array[o]) : Append(array[o], c)[k] = array[o][k]
    BY <1>2, AppendProperties
  <2>4. /\ array' \in [Orders -> Seq(Streams)]
        /\ array'[o] = Append(array[o], c)
        /\ \A q \in Orders \ {o} : array'[q] = array[q]
    BY <1>0, <1>2, <2>1, <2>3
  <2> QED BY <1>1, <1>2, <1>3, <1>v, <2>1, <2>2, <2>3, <2>4
<1> QED BY <1>4, <1>5

\* What a removal does to them.
LEMMA Removes ==
  ASSUME TypeInv, SliceExact, NEW c \in Streams, RemoveSubscriber(c)
  PROVE  \E o \in Orders :
           /\ o = order[c] /\ len[o] \in Nat /\ Len(array[o]) \in Nat
           /\ len' = [len EXCEPT ![o] = len[o] - 1]
           /\ array' \in [Orders -> Seq(Streams)]
           /\ \A q \in Orders \ {o} : array'[q] = array[q]
           /\ \E p \in 1..len[o] :
                /\ array[o][p] = c
                /\ \/ /\ len[o] = 1 /\ Len(array'[o]) = 0
                      /\ view' = Left(Kept(o), c)
                   \/ /\ len[o] > 1 /\ Len(array'[o]) = Len(array[o])
                      /\ \A k \in 1..Len(array[o]) :
                           array'[o][k] = IF k >= p /\ k < len[o] THEN array[o][k + 1]
                                                                 ELSE array[o][k]
                      /\ view' = Left(view, c)
<1>1. PICK o \in Orders : o = order[c]
  BY DEF TypeInv, HandlerOK, RemoveSubscriber
<1> WITNESS o \in Orders
<1>0. /\ array \in [Orders -> Seq(Streams)] /\ len \in [Orders -> Nat]
      /\ \A q \in Orders : len[q] <= Len(array[q])
  BY DEF TypeInv, ArrayType
<1>2. /\ array[o] \in Seq(Streams) /\ len[o] \in Nat /\ Len(array[o]) \in Nat
      /\ len[o] <= Len(array[o])
  BY <1>0
<1>3. len' = [len EXCEPT ![o] = len[o] - 1]
  BY <1>0, <1>1, <1>2 DEF RemoveSubscriber
<1>4. PICK p : p = Position(c)
  OBVIOUS
<1>5. p \in 1..len[o] /\ array[o][p] = c
  <2>1. c \in Members(o)
    BY <1>1 DEF RemoveSubscriber, Members
  <2>2. \E i \in 1..len[o] : array[o][i] = c
    BY <2>1 DEF SliceExact
  <2> QED BY <1>1, <1>4, <2>2 DEF Position
<1>6. CASE len[o] = 1
  <2>1. array' = [array EXCEPT ![o] = <<>>] /\ view' = Left(Kept(o), c)
    BY <1>1, <1>6 DEF RemoveSubscriber
  <2>2. <<>> \in Seq(Streams) /\ Len(<<>>) = 0
    BY EmptySeq
  <2>3. /\ array' \in [Orders -> Seq(Streams)] /\ array'[o] = <<>>
        /\ \A q \in Orders \ {o} : array'[q] = array[q]
    BY <1>0, <1>2, <2>1, <2>2
  <2> QED BY <1>1, <1>2, <1>3, <1>5, <1>6, <2>1, <2>2, <2>3
<1>7. CASE len[o] # 1
  <2>1. array' = [array EXCEPT ![o] = Shift(array[o], p, len[o])] /\ view' = Left(view, c)
    BY <1>1, <1>4, <1>7 DEF RemoveSubscriber
  <2>2. len[o] \in 1..Len(array[o]) /\ len[o] > 1
    BY <1>2, <1>5, <1>7
  <2>3. /\ Shift(array[o], p, len[o]) \in Seq(Streams)
        /\ Len(Shift(array[o], p, len[o])) = Len(array[o])
        /\ \A k \in 1..Len(array[o]) :
             Shift(array[o], p, len[o])[k]
               = IF k >= p /\ k < len[o] THEN array[o][k + 1] ELSE array[o][k]
    BY <1>2, <1>5, <2>2, ShiftedCells
  <2>4. /\ array' \in [Orders -> Seq(Streams)]
        /\ array'[o] = Shift(array[o], p, len[o])
        /\ \A q \in Orders \ {o} : array'[q] = array[q]
    BY <1>0, <1>2, <2>1, <2>3
  <2> QED BY <1>1, <1>2, <1>3, <1>5, <2>1, <2>2, <2>3, <2>4, ZenonT(60)
<1> QED BY <1>6, <1>7

-----------------------------------------------------------------------------
\* Every variable has its type.
LEMMA TypeInvIsType == TypeInv /\ ShownOK => TypeOK
  BY DEF TypeInv, ShownOK, TypeOK, TableType, HandlerType, ClientType, ServerType, GoneType,
         ArrayType, MonType, SendingType

\* Nobody has subscribed yet.
LEMMA InitStreams == Init => TypeInv
<1> SUFFICES ASSUME Init PROVE TypeInv
  OBVIOUS
<1>1. TableType
  <2>1. status \in [Orders -> Status]
    BY DEF Init, Status
  <2>2. changes \in 0..MaxChanges
    <3>1. changes = 0
      BY DEF Init
    <3>2. MaxChanges \in Nat
      BY StreamAssumption
    <3> QED BY <3>1, <3>2
  <2> QED BY <2>1, <2>2 DEF TableType
<1>2. HandlerType /\ ClientType /\ ServerType
  BY DEF Init, HandlerType, ClientType, ServerType
<1>3. GoneType
  <2>1. gone = 0
    BY DEF Init
  <2>2. MaxGone \in Nat
    BY StreamAssumption
  <2> QED BY <2>1, <2>2 DEF GoneType
<1>4. ArrayType
  <2>1. <<>> \in Seq(Streams) /\ Len(<<>>) = 0
    BY EmptySeq
  <2>2. /\ array \in [Orders -> Seq(Streams)] /\ len \in [Orders -> Nat]
        /\ \A o \in Orders : array[o] = <<>> /\ len[o] = 0
    BY <2>1 DEF Init
  <2> QED BY <2>1, <2>2 DEF ArrayType
<1>5. MonType
  BY DEF Init, MonType
<1>6. ViewType
  <2>1. <<>> \in Seq(Streams)
    BY EmptySeq
  <2>2. view = NoView
    BY DEF Init
  <2> QED BY <2>1, <2>2 DEF ViewType, NoView
<1>7. HandlerOK
  BY DEF Init, HandlerOK
<1>8. MonitorOK
  <2>1. view.order = Blank /\ view.len = 0 /\ Len(view.cells) = 0 /\ mon.pc = "poll"
    BY DEF Init, NoView
  <2> QED BY <2>1 DEF MonitorOK
<1>9. SendingType
  <2>1. sending = [c \in Streams |-> [s \in Status |-> 0]]
    BY DEF Init
  <2>2. [s \in Status |-> 0] \in [Status -> Nat]
    OBVIOUS
  <2> QED BY <2>1, <2>2 DEF SendingType
<1> QED BY <1>1, <1>2, <1>3, <1>4, <1>5, <1>6, <1>7, <1>8, <1>9 DEF TypeInv

\* A client that leaves is counted.
LEMMA LeavesCounted == GoneType /\ Leaves => GoneType'
<1> SUFFICES ASSUME gone \in 0..MaxGone, gone < MaxGone, gone' = gone + 1
             PROVE  gone' \in 0..MaxGone
  BY DEF GoneType, Leaves
<1> QED BY StreamAssumption

\* A client only goes from one of its states to another, and never back to
\* where it has no stream.
LEMMA ClientMoves ==
  ASSUME ClientType, NEW c \in Streams,
         \/ Exits(c) /\ shown' = shown
         \/ \E s \in Status : Deliver(c, s)
         \/ client' = [client EXCEPT ![c] = "receiving"] /\ shown' = shown
         \/ client' = [client EXCEPT ![c] = "interrupted"] /\ shown' = shown
  PROVE  /\ ClientType'
         /\ \A d \in Streams \ {c} : client'[d] = client[d]
         /\ client'[c] = "off" => client[c] = "off"
<1>1. CASE Exits(c) /\ shown' = shown
  BY <1>1 DEF ClientType, Exits
<1>2. ASSUME NEW s \in Status, Deliver(c, s)
      PROVE  /\ ClientType'
             /\ \A d \in Streams \ {c} : client'[d] = client[d]
             /\ client'[c] = "off" => client[c] = "off"
  <2>1. shown' = [shown EXCEPT ![c] = s]
    BY <1>2, OverTheWire DEF Deliver
  <2> QED BY <1>2, <2>1, ZenonT(60) DEF ClientType, Deliver
<1>3. CASE client' = [client EXCEPT ![c] = "receiving"] /\ shown' = shown
  BY <1>3 DEF ClientType
<1>4. CASE client' = [client EXCEPT ![c] = "interrupted"] /\ shown' = shown
  BY <1>4 DEF ClientType
<1> QED BY <1>1, <1>2, <1>3, <1>4

\* One update fewer, or more, on its way to a stream.
LEMMA SendingCounted ==
  ASSUME SendingType, NEW c \in Streams, NEW s \in Status,
         \/ sending' = [sending EXCEPT ![c][s] = @ + 1]
         \/ sending[c][s] > 0 /\ sending' = [sending EXCEPT ![c][s] = @ - 1]
  PROVE  /\ SendingType'
         /\ \A d \in Streams, q \in Status :
              (d # c \/ q # s) => sending'[d][q] = sending[d][q]
<1>1. PICK n \in Nat :
        sending' = [sending EXCEPT ![c] = [sending[c] EXCEPT ![s] = n]]
  <2>1. sending[c] \in [Status -> Nat] /\ sending[c][s] \in Nat
    BY DEF SendingType
  <2>2. CASE sending' = [sending EXCEPT ![c][s] = @ + 1]
    <3>1. sending' = [sending EXCEPT ![c] = [sending[c] EXCEPT ![s] = sending[c][s] + 1]]
      BY <2>2
    <3>2. sending[c][s] + 1 \in Nat
      BY <2>1
    <3> QED BY <3>1, <3>2
  <2>3. CASE sending[c][s] > 0 /\ sending' = [sending EXCEPT ![c][s] = @ - 1]
    <3>1. sending' = [sending EXCEPT ![c] = [sending[c] EXCEPT ![s] = sending[c][s] - 1]]
      BY <2>3
    <3>2. sending[c][s] - 1 \in Nat
      BY <2>1, <2>3
    <3> QED BY <3>1, <3>2
  <2> QED BY <2>2, <2>3
<1>2. sending[c] \in [Status -> Nat]
  BY DEF SendingType
<1>3. [sending[c] EXCEPT ![s] = n] \in [Status -> Nat]
  BY <1>1, <1>2
<1> QED BY <1>1, <1>2, <1>3 DEF SendingType

\* Steps of a stream that touch neither the registry nor the monitor.
LEMMA ElsewhereType ==
  ASSUME TypeInv, NEW c \in Streams, Elsewhere(c)
  PROVE  TypeInv'
<1> USE DEF tableVars, handlerVars, registryVars, monitorVars, clientVars
<1>1. UNCHANGED <<array, len, last, mon, view, status, changes>>
  BY DEF Elsewhere, Subscribe, Lookup, LookupFails, SendInitial, SendInitialFails, Sender,
         SendUpdate, SendUpdateFails, Interrupt, Disconnect, ConnectionLost
<1>2. TableType' /\ ArrayType' /\ MonType' /\ ViewType' /\ MonitorOK'
  BY <1>1 DEF TypeInv, TableType, ArrayType, MonType, ViewType, MonitorOK
<1> DEFINE Rest == /\ HandlerType' /\ ClientType' /\ ServerType' /\ GoneType'
                   /\ SendingType' /\ HandlerOK'
<1> SUFFICES ASSUME TableType, HandlerType, ClientType, ServerType, GoneType,
                    SendingType, HandlerOK
             PROVE  Rest
  BY <1>2 DEF TypeInv
<1>3. ASSUME NEW o \in Orders \cup {Blank}, Subscribe(c, o) PROVE Rest
  <2>1. ServerType' /\ SendingType'
    BY <1>3 DEF Subscribe, ServerType, SendingType
  <2>2. GoneType'
    BY <1>3, LeavesCounted DEF Subscribe, GoneType
  <2>3. ClientType' /\ \A d \in Streams \ {c} : client'[d] = client[d]
    BY <1>3, ClientMoves DEF Subscribe
  <2>4. HandlerType'
    <3>1. Requested[o] \in Orders \cup {Blank}
      BY OverTheWire
    <3> QED BY <1>3, <3>1 DEF Subscribe, HandlerType
  <2>5. client'[c] # "off"
    BY <1>3 DEF Subscribe, Exits, ClientType
  <2>6. handler[c] = "idle"
    BY <1>3 DEF Subscribe, HandlerOK
  <2>7. /\ \A d \in Streams \ {c} : handler'[d] = handler[d] /\ order'[d] = order[d]
        /\ handler'[c] \in {"idle", "lookup"} /\ seen' = seen
    BY <1>3, <2>6 DEF Subscribe, HandlerType
  <2>8. HandlerOK'
    BY <2>3, <2>5, <2>7 DEF HandlerOK
  <2> QED BY <2>1, <2>2, <2>3, <2>4, <2>8
<1>4. CASE Lookup(c)
  <2>1. ServerType' /\ SendingType' /\ ClientType' /\ GoneType'
    BY <1>4 DEF Lookup, ServerType, SendingType, ClientType, GoneType
  <2>2. order[c] \in Orders /\ status[order[c]] \in Status
    BY <1>4 DEF Lookup, HandlerType, TableType
  <2>3. HandlerType'
    BY <1>4, <2>2 DEF Lookup, HandlerType
  <2>4. HandlerOK'
    BY <1>4, <2>2 DEF Lookup, HandlerType, HandlerOK
  <2> QED BY <2>1, <2>3, <2>4
<1>5. CASE LookupFails(c) \/ SendInitialFails(c)
  <2>1. ServerType' /\ SendingType' /\ GoneType'
    BY <1>5 DEF LookupFails, SendInitialFails, ServerType, SendingType, GoneType
  <2>2. HandlerType'
    BY <1>5 DEF LookupFails, SendInitialFails, HandlerType
  <2>3. ClientType' /\ \A d \in Streams \ {c} : client'[d] = client[d]
    BY <1>5, ClientMoves DEF LookupFails, SendInitialFails
  <2>4. client'[c] # "off"
    BY <1>5 DEF LookupFails, SendInitialFails, Exits, ClientType
  <2>5. /\ \A d \in Streams \ {c} : handler'[d] = handler[d]
        /\ order' = order /\ seen' = seen
        /\ handler'[c] = "returned" \/ (handler'[c] = "leaked" /\ handler[c] = "initial")
    BY <1>5 DEF LookupFails, SendInitialFails, HandlerType
  <2>6. HandlerOK'
    BY <2>3, <2>4, <2>5 DEF HandlerOK
  <2> QED BY <2>1, <2>2, <2>3, <2>6
<1>6. CASE SendInitial(c)
  <2>1. ServerType' /\ SendingType' /\ GoneType'
    BY <1>6 DEF SendInitial, ServerType, SendingType, GoneType
  <2>2. HandlerType'
    BY <1>6 DEF SendInitial, HandlerType
  <2>3. seen[c] \in Status /\ client[c] # "off"
    BY <1>6 DEF SendInitial, HandlerOK
  <2>4. /\ ClientType' /\ \A d \in Streams \ {c} : client'[d] = client[d]
        /\ client'[c] # "off"
    BY <1>6, <2>3, ClientMoves DEF SendInitial
  <2>5. /\ \A d \in Streams \ {c} : handler'[d] = handler[d]
        /\ order' = order /\ seen' = seen
        /\ handler'[c] = "waiting" /\ handler[c] = "initial"
    BY <1>6 DEF SendInitial, HandlerType
  <2>6. HandlerOK'
    BY <2>4, <2>5 DEF HandlerOK
  <2> QED BY <2>1, <2>2, <2>4, <2>6
<1>7. ASSUME NEW s \in Status, SendUpdate(c, s) PROVE Rest
  <2>1. ServerType' /\ HandlerType' /\ GoneType'
    BY <1>7 DEF SendUpdate, ServerType, HandlerType, GoneType
  <2>2. SendingType'
    BY <1>7, SendingCounted DEF SendUpdate
  <2>3. /\ ClientType' /\ \A d \in Streams \ {c} : client'[d] = client[d]
        /\ client'[c] = "off" => client[c] = "off"
    BY <1>7, ClientMoves DEF SendUpdate
  <2>4. HandlerOK'
    BY <1>7, <2>3 DEF HandlerOK, SendUpdate
  <2> QED BY <2>1, <2>2, <2>3, <2>4
<1>8. ASSUME NEW s \in Status, SendUpdateFails(c, s) PROVE Rest
  <2>1. HandlerType' /\ ClientType' /\ GoneType' /\ HandlerOK'
    BY <1>8 DEF SendUpdateFails, HandlerType, ClientType, GoneType, HandlerOK
  <2>2. SendingType'
    BY <1>8, SendingCounted DEF SendUpdateFails
  <2>3. ServerType'
    BY <1>8 DEF SendUpdateFails, ServerType
  <2> QED BY <2>1, <2>2, <2>3
<1>9. CASE Interrupt(c) \/ Disconnect(c) \/ ConnectionLost(c)
  <2>1. SendingType' /\ HandlerType'
    BY <1>9 DEF Interrupt, Disconnect, ConnectionLost, SendingType, HandlerType
  <2>2. GoneType'
    BY <1>9, LeavesCounted DEF Interrupt, Disconnect, ConnectionLost, GoneType
  <2>3. ServerType'
    BY <1>9 DEF Interrupt, Disconnect, ConnectionLost, ServerType
  <2>4. CASE Disconnect(c)
    <3>1. ClientType' /\ HandlerOK'
      BY <2>4 DEF Disconnect, ClientType, HandlerOK
    <3> QED BY <2>1, <2>2, <2>3, <3>1
  <2>5. CASE Interrupt(c) \/ ConnectionLost(c)
    <3>1. /\ ClientType' /\ \A d \in Streams \ {c} : client'[d] = client[d]
          /\ client'[c] = "off" => client[c] = "off"
      BY <2>5, ClientMoves DEF Interrupt, ConnectionLost
    <3>2. UNCHANGED <<order, handler, seen>>
      BY <2>5 DEF Interrupt, ConnectionLost
    <3>3. HandlerOK'
      BY <3>1, <3>2 DEF HandlerOK
    <3> QED BY <2>1, <2>2, <2>3, <3>1, <3>3
  <2> QED BY <1>9, <2>4, <2>5
<1> QED BY <1>3, <1>4, <1>5, <1>6, <1>7, <1>8, <1>9 DEF Elsewhere, Sender

\* The registry.
LEMMA RegistryType ==
  ASSUME TypeInv, SliceExact, NEW c \in Streams, Register(c) \/ RemoveSubscriber(c)
  PROVE  TypeInv'
<1>1. UNCHANGED <<status, changes, order, seen, broken, closed, gone, last, mon,
                  sending, shown, server>>
  BY DEF Register, RemoveSubscriber, tableVars, clientVars
<1>2. TableType' /\ ServerType' /\ GoneType' /\ MonType' /\ SendingType'
  BY <1>1 DEF TypeInv, TableType, ServerType, GoneType, MonType, SendingType
<1>3. HandlerType' /\ ClientType' /\ HandlerOK'
  <2>1. HandlerType /\ ClientType /\ HandlerOK
    BY DEF TypeInv
  <2> QED BY <2>1, ZenonT(60)
         DEF HandlerType, ClientType, HandlerOK, Register, RemoveSubscriber, Exits,
             clientVars
<1>v. ArrayType /\ ViewType /\ MonitorOK
  BY DEF TypeInv
<1>4. CASE Register(c)
  <2>1. PICK o \in Orders :
           /\ o = order[c] /\ len[o] \in Nat /\ Len(array[o]) \in Nat
           /\ len' = [len EXCEPT ![o] = len[o] + 1]
           /\ array' \in [Orders -> Seq(Streams)]
           /\ \A q \in Orders \ {o} : array'[q] = array[q]
           /\ Len(array'[o]) >= len[o] + 1
           /\ \/ Len(array'[o]) = Len(array[o])
              \/ Len(array[o]) = len[o] /\ Len(array'[o]) = len[o] + 1
           /\ view' = view \/ view' = Kept(o)
    BY <1>4, Registers
  <2>2. ArrayType'
    BY <1>v, <2>1 DEF ArrayType
  <2>3. ViewType'
    BY <1>v, <2>1, ZenonT(60) DEF ViewType, Kept, ArrayType
  <2>4. MonitorOK'
    <3>1. /\ view'.len = view.len /\ view.len \in Nat /\ view.order \in Orders \cup {Blank}
          /\ \/ view' = view
             \/ view.order = o /\ view'.order = Blank /\ view'.cells = array[o]
      BY <1>v, <2>1 DEF ViewType, Kept
    <3>2. Len(array[o]) <= Len(array'[o])
      BY <2>1
    <3>3. CASE view' = view /\ view.order = Blank
      BY <1>1, <1>v, <3>3 DEF MonitorOK
    <3>4. CASE view' = view /\ view.order # Blank /\ view.order # o
      <4>1. array'[view.order] = array[view.order]
        BY <2>1, <3>1, <3>4
      <4> QED BY <1>1, <1>v, <3>4, <4>1 DEF MonitorOK
    <3>5. CASE view' = view /\ view.order = o
      <4>1. view.len <= Len(array[o]) /\ o # Blank
        BY <1>v, <3>5, StreamAssumption DEF MonitorOK
      <4>2. view.len <= Len(array'[o])
        BY <2>1, <3>1, <3>2, <4>1
      <4> QED BY <1>1, <1>v, <3>5, <4>1, <4>2 DEF MonitorOK
    <3>6. CASE view.order = o /\ view'.order = Blank /\ view'.cells = array[o]
      BY <1>1, <1>v, <3>1, <3>6, StreamAssumption DEF MonitorOK
    <3> QED BY <3>1, <3>3, <3>4, <3>5, <3>6
  <2> QED BY <1>2, <1>3, <2>2, <2>3, <2>4 DEF TypeInv
<1>5. CASE RemoveSubscriber(c)
  <2>1. PICK o \in Orders :
           /\ o = order[c] /\ len[o] \in Nat /\ Len(array[o]) \in Nat
           /\ len' = [len EXCEPT ![o] = len[o] - 1] /\ 1 <= len[o]
           /\ array' \in [Orders -> Seq(Streams)]
           /\ \A q \in Orders \ {o} : array'[q] = array[q]
           /\ \/ len[o] = 1 /\ Len(array'[o]) = 0 /\ view' = Left(Kept(o), c)
              \/ Len(array'[o]) = Len(array[o]) /\ view' = Left(view, c)
    BY <1>5, Removes
  <2>2. ArrayType'
    BY <1>v, <2>1 DEF ArrayType
  <2>3. PICK w : /\ view' = Left(w, c)
                 /\ w = Kept(o) \/ (w = view /\ Len(array'[o]) = Len(array[o]))
    BY <2>1
  <2>4. array[o] \in Seq(Streams)
    BY <1>v DEF ArrayType
  <2>5. /\ w \in [order: Orders \cup {Blank}, cells: Seq(Streams), len: Nat,
                  i: Nat \ {0}, subs: SUBSET Streams, notified: SUBSET Streams,
                  left: SUBSET Streams]
        /\ \/ w = view /\ (view.order = o => Len(array'[o]) = Len(array[o]))
           \/ view.order = o /\ w.order = Blank /\ w.cells = array[o]
        /\ w.len = view.len
    BY <1>v, <2>3, <2>4 DEF ViewType, Kept
  <2>6. /\ ViewType' /\ view'.order = w.order /\ view'.cells = w.cells
        /\ view'.len = w.len
    BY <2>3, <2>5 DEF ViewType, Left
  <2>7. MonitorOK'
    <3>1. CASE w = view /\ view.order = Blank
      BY <1>1, <1>v, <2>6, <3>1 DEF MonitorOK
    <3>2. CASE /\ w = view /\ view.order # Blank
               /\ view.order = o => Len(array'[o]) = Len(array[o])
      <4>1. view.order \in Orders /\ (view.order = o => Len(array'[o]) = Len(array[o]))
        BY <1>v, <3>2 DEF ViewType
      <4> QED BY <1>1, <1>v, <2>1, <2>6, <3>2, <4>1 DEF MonitorOK
    <3>3. CASE view.order = o /\ w.order = Blank /\ w.cells = array[o]
      BY <1>1, <1>v, <2>5, <2>6, <3>3, StreamAssumption DEF MonitorOK
    <3> QED BY <2>5, <3>1, <3>2, <3>3
  <2> QED BY <1>2, <1>3, <2>2, <2>6, <2>7 DEF TypeInv
<1> QED BY <1>4, <1>5

\* The cell that the monitor reads is one of the array that it ranges over.
LEMMA CellExists ==
  ASSUME TypeInv, mon.pc = "spawn", view.i <= view.len
  PROVE  /\ Cell \in Streams
         /\ \/ view.order = Blank /\ view.i \in 1..Len(view.cells)
            \/ view.order \in Orders /\ view.i \in 1..Len(array[view.order])
<1>1. /\ view.order \in Orders \cup {Blank} /\ view.cells \in Seq(Streams)
      /\ view.len \in Nat /\ view.i \in Nat \ {0}
  BY DEF TypeInv, ViewType
<1>2. /\ view.order = Blank => view.len <= Len(view.cells)
      /\ view.order # Blank => view.len <= Len(array[view.order])
  BY DEF TypeInv, MonitorOK
<1>3. array \in [Orders -> Seq(Streams)]
  BY DEF TypeInv, ArrayType
<1>4. CASE view.order = Blank
  <2>1. view.i \in 1..Len(view.cells)
    BY <1>1, <1>2, <1>4
  <2> QED BY <1>1, <1>4, <2>1 DEF Cell
<1>5. CASE view.order # Blank
  <2>1. view.order \in Orders /\ array[view.order] \in Seq(Streams)
    BY <1>1, <1>3, <1>5
  <2>2. view.i \in 1..Len(array[view.order])
    BY <1>1, <1>2, <1>5, <2>1
  <2> QED BY <1>5, <2>1, <2>2 DEF Cell
<1> QED BY <1>4, <1>5

\* The monitor.
LEMMA MonitorType == TypeInv /\ Monitor => TypeInv'
<1> SUFFICES ASSUME TypeInv, Monitor PROVE TypeInv'
  OBVIOUS
<1>1. UNCHANGED <<status, changes, order, handler, seen, broken, gone, closed,
                  array, len, client, shown, server>>
  BY DEF Monitor, Tick, CheckOrder, CheckFails, TakeSlice, Spawn, SpawnDone, MonitorEnds,
         tableVars, handlerVars, registryVars, clientVars
<1>2. TableType' /\ HandlerType' /\ ClientType' /\ ServerType' /\ GoneType'
  BY <1>1 DEF TypeInv, TableType, HandlerType, ClientType, ServerType, GoneType
<1>3. ArrayType' /\ HandlerOK'
  BY <1>1 DEF TypeInv, ArrayType, HandlerOK
<1> DEFINE Rest == MonType' /\ SendingType' /\ ViewType' /\ MonitorOK'
<1> SUFFICES ASSUME TableType, ArrayType, MonType, SendingType, ViewType, MonitorOK
             PROVE  Rest
  BY <1>2, <1>3 DEF TypeInv
<1>4. CASE Tick \/ MonitorEnds \/ \E o \in Orders : CheckFails(o)
  <2>1. SendingType' /\ ViewType'
    BY <1>4 DEF Tick, MonitorEnds, CheckFails, SendingType, ViewType
  <2>2. MonType' /\ mon.pc = "poll" /\ mon'.pc \in {"poll", "ended"} /\ view' = view
    BY <1>4, ZenonT(60) DEF Tick, MonitorEnds, CheckFails, MonType, Keys
  <2>3. MonitorOK'
    BY <2>2 DEF MonitorOK
  <2> QED BY <2>1, <2>2, <2>3
<1>5. ASSUME NEW o \in Orders, CheckOrder(o) PROVE Rest
  <2>1. SendingType' /\ ViewType' /\ view' = view
    BY <1>5 DEF CheckOrder, SendingType, ViewType
  <2>2. status[o] \in Status
    BY DEF TableType
  <2>3. MonType'
    BY <1>5, <2>2 DEF CheckOrder, MonType
  <2>4. /\ mon.pc = "poll"
        /\ mon'.pc = "poll" \/ (mon'.order = o /\ mon'.status \in Status)
    BY <1>5, <2>2 DEF CheckOrder, MonType
  <2>5. MonitorOK'
    BY <2>1, <2>4 DEF MonitorOK
  <2> QED BY <2>1, <2>3, <2>5
<1>6. CASE TakeSlice
  <2>1. SendingType' /\ MonType' /\ mon'.order = mon.order /\ mon'.pc = "spawn"
        /\ mon'.status = mon.status
    BY <1>6 DEF TakeSlice, SendingType, MonType
  <2>2. mon.order \in Orders /\ mon.status \in Status
    BY <1>6 DEF TakeSlice, MonitorOK
  <2>3. len[mon.order] \in Nat /\ len[mon.order] <= Len(array[mon.order])
    BY <2>2 DEF ArrayType
  <2>4. Subs(mon.order) \subseteq Streams
    <3>1. array[mon.order] \in Seq(Streams)
      BY <2>2 DEF ArrayType
    <3>2. \A i \in 1..len[mon.order] : array[mon.order][i] \in Streams
      BY <2>3, <3>1
    <3>3. Slice(mon.order) = [i \in 1..len[mon.order] |-> array[mon.order][i]]
      BY <2>3, <3>1, <3>2, SubSeqProperties DEF Slice
    <3> QED BY <3>2, <3>3 DEF Subs, Range
  <2>5. <<>> \in Seq(Streams)
    BY EmptySeq
  <2>6. view' = [order |-> mon.order, cells |-> <<>>, len |-> len[mon.order], i |-> 1,
                 subs |-> Subs(mon.order), notified |-> {}, left |-> {}]
    BY <1>6 DEF TakeSlice
  <2>7. ViewType'
    BY <2>2, <2>3, <2>4, <2>5, <2>6 DEF ViewType
  <2>8. MonitorOK'
    BY <1>1, <2>1, <2>2, <2>3, <2>6, StreamAssumption DEF MonitorOK
  <2> QED BY <2>1, <2>7, <2>8
<1>7. CASE Spawn
  <2>1. Cell \in Streams
    BY <1>7, CellExists DEF Spawn
  <2>2. mon.status \in Status
    BY <1>7 DEF Spawn, MonitorOK
  <2>3. SendingType'
    BY <1>7, <2>1, <2>2, SendingCounted DEF Spawn
  <2>4. MonType' /\ mon' = mon
    BY <1>7 DEF Spawn, MonType
  <2>5. view' = [view EXCEPT !.i = view.i + 1, !.notified = view.notified \cup {Cell}]
    BY <1>7 DEF Spawn
  <2>6. /\ ViewType' /\ view'.order = view.order /\ view'.cells = view.cells
        /\ view'.len = view.len
    <3>1. view.i + 1 \in Nat \ {0} /\ view.notified \cup {Cell} \subseteq Streams
      BY <2>1 DEF ViewType
    <3> QED BY <2>5, <3>1 DEF ViewType
  <2>7. MonitorOK'
    BY <1>1, <2>4, <2>6 DEF MonitorOK
  <2> QED BY <2>3, <2>4, <2>6, <2>7
<1>8. CASE SpawnDone
  <2>1. SendingType' /\ MonType' /\ mon'.pc = "poll"
    BY <1>8 DEF SpawnDone, SendingType, MonType
  <2>2. <<>> \in Seq(Streams) /\ Len(<<>>) = 0
    BY EmptySeq
  <2>3. view' = NoView
    BY <1>8 DEF SpawnDone
  <2>4. ViewType'
    BY <2>2, <2>3 DEF ViewType, NoView
  <2>5. MonitorOK'
    BY <2>1, <2>2, <2>3 DEF MonitorOK, NoView
  <2> QED BY <2>1, <2>4, <2>5
<1> QED BY <1>4, <1>5, <1>6, <1>7, <1>8 DEF Monitor

\* A row changes, or the server stops.
LEMMA OutsideType ==
  ASSUME TypeInv,
         \/ \E o \in Orders, s \in Status : ChangeStatus(o, s)
         \/ Shutdown \/ GracefulStop \/ UNCHANGED vars
  PROVE  TypeInv'
<1>1. UNCHANGED <<order, handler, seen, broken, gone, closed, array, len, last, mon,
                  view, sending, client, shown>>
  BY DEF ChangeStatus, Shutdown, GracefulStop, vars, handlerVars, registryVars,
         monitorVars, clientVars
<1>2. HandlerType' /\ ClientType' /\ GoneType' /\ ArrayType' /\ SendingType'
  BY <1>1 DEF TypeInv, HandlerType, ClientType, GoneType, ArrayType, SendingType
<1>3. MonType' /\ ViewType' /\ HandlerOK' /\ MonitorOK'
  BY <1>1 DEF TypeInv, MonType, ViewType, HandlerOK, MonitorOK
<1>4. ServerType'
  BY <1>1 DEF TypeInv, ServerType, ChangeStatus, Shutdown, GracefulStop, vars
<1>5. TableType'
  <2>1. ASSUME NEW o \in Orders, NEW s \in Status, ChangeStatus(o, s) PROVE TableType'
    <3>1. MaxChanges \in Nat /\ changes \in 0..MaxChanges /\ changes < MaxChanges
      BY <2>1, StreamAssumption DEF ChangeStatus, TypeInv, TableType
    <3>2. changes + 1 \in 0..MaxChanges
      BY <3>1
    <3> QED BY <2>1, <3>2 DEF ChangeStatus, TypeInv, TableType
  <2>2. CASE Shutdown \/ GracefulStop \/ UNCHANGED vars
    BY <2>2 DEF TypeInv, TableType, Shutdown, GracefulStop, vars, tableVars
  <2> QED BY <2>1, <2>2
<1> QED BY <1>2, <1>3, <1>4, <1>5 DEF TypeInv

\* A step is one of a stream, at the registry or elsewhere, or of none.
LEMMA NextCases ==
  [Next]_vars => \/ NoStream
                 \/ \E c \in Streams : Elsewhere(c) \/ Register(c) \/ RemoveSubscriber(c)
  BY DEF Next, Handler, NoStream, Elsewhere

LEMMA TypeStep == TypeInv /\ SliceExact /\ [Next]_vars => TypeInv'
<1> SUFFICES ASSUME TypeInv, SliceExact, [Next]_vars PROVE TypeInv'
  OBVIOUS
<1> QED BY NextCases, ElsewhereType, RegistryType, MonitorType, OutsideType DEF NoStream

-----------------------------------------------------------------------------
LEMMA NoStreamKeeps ==
  NoStream => UNCHANGED <<order, handler, seen, broken, closed, array, len, client>>
  BY DEF NoStream, Monitor, Tick, CheckOrder, CheckFails, TakeSlice, Spawn, SpawnDone,
         MonitorEnds, ChangeStatus, Shutdown, GracefulStop, vars, handlerVars,
         registryVars, clientVars

LEMMA ElsewhereKeeps ==
  ASSUME NEW c \in Streams, Elsewhere(c)
  PROVE  UNCHANGED <<array, len, last, mon, view>>
  BY DEF Elsewhere, Subscribe, Lookup, LookupFails, SendInitial, SendInitialFails, Sender,
         SendUpdate, SendUpdateFails, Interrupt, Disconnect, ConnectionLost,
         registryVars, monitorVars

\* Where a handler can go without a registration or a removal.
LEMMA ElsewhereMoves ==
  ASSUME TypeInv, NEW c \in Streams, Elsewhere(c)
  PROVE  /\ \A d \in Streams \ {c} : handler'[d] = handler[d] /\ order'[d] = order[d]
         /\ \/ handler'[c] = handler[c] /\ order'[c] = order[c]
            \/ handler[c] = "idle" /\ handler'[c] = "lookup"
            \/ /\ handler[c] = "lookup" /\ handler'[c] \in {"register", "returned"}
               /\ order'[c] = order[c]
            \/ /\ handler[c] = "initial" /\ handler'[c] = "waiting"
               /\ order'[c] = order[c]
            \/ /\ handler[c] = "initial" /\ handler'[c] = "leaked" /\ c \in broken
               /\ order'[c] = order[c]
<1>1. HandlerType /\ HandlerOK
  BY DEF TypeInv
<1>2. ASSUME NEW o \in Orders \cup {Blank}, Subscribe(c, o)
      PROVE  /\ handler[c] = "idle"
             /\ \A d \in Streams \ {c} : handler'[d] = handler[d] /\ order'[d] = order[d]
             /\ handler'[c] = "lookup" \/ (handler'[c] = handler[c] /\ order'[c] = order[c])
  BY <1>1, <1>2 DEF Subscribe, HandlerType, HandlerOK
<1>3. CASE Lookup(c) \/ LookupFails(c) \/ SendInitial(c) \/ SendInitialFails(c)
  BY <1>1, <1>3 DEF Lookup, LookupFails, SendInitial, SendInitialFails, HandlerType
<1>4. CASE Sender(c) \/ Interrupt(c) \/ Disconnect(c) \/ ConnectionLost(c)
  BY <1>4 DEF Sender, SendUpdate, SendUpdateFails, Interrupt, Disconnect, ConnectionLost,
              handlerVars
<1> QED BY <1>2, <1>3, <1>4 DEF Elsewhere

\* A handler begins to wait with the first status it sends, and what is shown
\* later is a status too.
LEMMA ShownStep == TypeInv /\ ShownOK /\ [Next]_vars => ShownOK'
<1> SUFFICES ASSUME TypeInv, ShownOK, [Next]_vars PROVE ShownOK'
  OBVIOUS
<1>t. HandlerType /\ ClientType /\ HandlerOK
  BY DEF TypeInv
<1>1. CASE NoStream
  <2>1. UNCHANGED <<handler, shown>>
    BY <1>1 DEF NoStream, Monitor, Tick, CheckOrder, CheckFails, TakeSlice, Spawn,
                SpawnDone, MonitorEnds, ChangeStatus, Shutdown, GracefulStop, vars,
                handlerVars, clientVars
  <2> QED BY <2>1 DEF ShownOK
<1>2. ASSUME NEW c \in Streams, NEW s \in Status, Deliver(c, s),
             \A d \in Streams \ {c} : handler'[d] = handler[d]
      PROVE  ShownOK'
  <2>1. shown' = [shown EXCEPT ![c] = s]
    BY <1>2, OverTheWire DEF Deliver
  <2> QED BY <1>2, <1>t, <2>1 DEF ShownOK, ClientType
<1>3. ASSUME NEW c \in Streams, Elsewhere(c) PROVE ShownOK'
  <2>1. /\ \A d \in Streams \ {c} : handler'[d] = handler[d]
        /\ handler'[c] = "waiting" => handler[c] \in {"initial", "waiting"}
    BY <1>3, ElsewhereMoves
  <2>2. CASE SendInitial(c)
    <3>1. seen[c] \in Status /\ Deliver(c, seen[c])
      BY <1>t, <2>2 DEF SendInitial, HandlerOK
    <3> QED BY <1>2, <2>1, <3>1
  <2>3. ASSUME NEW s \in Status, SendUpdate(c, s) PROVE ShownOK'
    BY <1>2, <2>1, <2>3 DEF SendUpdate
  <2>4. CASE ~SendInitial(c) /\ \A s \in Status : ~SendUpdate(c, s)
    <3>1. shown' = shown /\ (handler'[c] = "waiting" => handler[c] = "waiting")
      BY <1>3, <1>t, <2>4
      DEF Elsewhere, Subscribe, Lookup, LookupFails, SendInitialFails, Sender,
          SendUpdateFails, Interrupt, Disconnect, ConnectionLost, HandlerType,
          handlerVars, clientVars
    <3> QED BY <2>1, <3>1 DEF ShownOK
  <2> QED BY <2>2, <2>3, <2>4
<1>4. ASSUME NEW c \in Streams, Register(c) \/ RemoveSubscriber(c) PROVE ShownOK'
  <2>1. /\ shown' = shown /\ handler'[c] # "waiting"
        /\ \A d \in Streams \ {c} : handler'[d] = handler[d]
    BY <1>4, <1>t DEF Register, RemoveSubscriber, HandlerType, clientVars
  <2> QED BY <2>1 DEF ShownOK
<1> QED BY <1>1, <1>3, <1>4, NextCases

\* What they and the monitor leave of the registry.
LEMMA MembersKept ==
  ASSUME TypeInv, NoStream \/ \E c \in Streams : Elsewhere(c), NEW o \in Orders
  PROVE  Members(o)' = Members(o)
<1>1. CASE NoStream
  BY <1>1, NoStreamKeeps DEF Members
<1>2. ASSUME NEW c \in Streams, Elsewhere(c) PROVE Members(o)' = Members(o)
  <2> SUFFICES ASSUME NEW d \in Streams
               PROVE  order'[d] = o /\ handler'[d] \in {"initial", "waiting", "leaked"}
                        <=> order[d] = o /\ handler[d] \in {"initial", "waiting", "leaked"}
    BY DEF Members
  <2> QED BY <1>2, ElsewhereMoves
<1> QED BY <1>1, <1>2

\* Registrations and removals keep the slices exact.
LEMMA SliceStep == TypeInv /\ SliceExact /\ [Next]_vars => SliceExact'
<1> SUFFICES ASSUME TypeInv, SliceExact, [Next]_vars PROVE SliceExact'
  OBVIOUS
<1>h. HandlerType /\ ArrayType
  BY DEF TypeInv
<1>1. CASE NoStream \/ \E c \in Streams : Elsewhere(c)
  <2>1. UNCHANGED <<array, len>>
    BY <1>1, NoStreamKeeps, ElsewhereKeeps
  <2>2. \A o \in Orders : Members(o)' = Members(o)
    BY <1>1, MembersKept
  <2> QED BY <2>1, <2>2 DEF SliceExact
<1>2. ASSUME NEW c \in Streams, Register(c) PROVE SliceExact'
  <2>1. PICK o \in Orders :
           /\ o = order[c] /\ len[o] \in Nat /\ Len(array[o]) \in Nat
           /\ len' = [len EXCEPT ![o] = len[o] + 1]
           /\ \A q \in Orders \ {o} : array'[q] = array[q]
           /\ array'[o][len[o] + 1] = c
           /\ \A k \in 1..Len(array[o]) : k # len[o] + 1 => array'[o][k] = array[o][k]
    BY <1>2, Registers
  <2>2. /\ handler[c] = "register" /\ handler' = [handler EXCEPT ![c] = "initial"]
        /\ order' = order
    BY <1>2 DEF Register
  <2>3. c \notin Members(o) /\ Members(o)' = Members(o) \cup {c}
    BY <1>h, <2>1, <2>2 DEF HandlerType, Members
  <2>4. \A q \in Orders \ {o} : Members(q)' = Members(q) /\ len'[q] = len[q]
    <3> SUFFICES ASSUME NEW q \in Orders \ {o}
                 PROVE  Members(q)' = Members(q) /\ len'[q] = len[q]
      OBVIOUS
    <3>1. len'[q] = len[q]
      BY <1>h, <2>1 DEF ArrayType
    <3>2. order[c] # q /\ order' = order
      BY <2>1, <2>2
    <3>3. \A d \in Streams \ {c} : handler'[d] = handler[d]
      BY <1>h, <2>2 DEF HandlerType
    <3>4. Members(q)' = Members(q)
      BY <3>2, <3>3 DEF Members
    <3> QED BY <3>1, <3>4
  <2>5. len'[o] = len[o] + 1
    BY <1>h, <2>1 DEF ArrayType
  <2>6. \A k \in 1..len[o] : array'[o][k] = array[o][k] /\ array[o][k] \in Members(o)
    <3>1. \A k \in 1..len[o] : k \in 1..Len(array[o]) /\ k # len[o] + 1
      BY <1>h, <2>1 DEF ArrayType
    <3>2. \A k \in 1..len[o] : array[o][k] \in Members(o)
      BY DEF SliceExact
    <3> QED BY <2>1, <3>1, <3>2
  <2>7. \A k \in 1..len'[o] : k \in 1..len[o] \/ k = len[o] + 1
    BY <2>1, <2>5
  <2>8. /\ \A i \in 1..len'[o] : array'[o][i] \in Members(o)'
        /\ \A i, j \in 1..len'[o] : array'[o][i] = array'[o][j] => i = j
    <3>1. \A i, j \in 1..len[o] : array[o][i] = array[o][j] => i = j
      BY DEF SliceExact
    <3> QED BY <2>1, <2>3, <2>6, <2>7, <3>1
  <2>9. \A d \in Members(o)' : \E i \in 1..len'[o] : array'[o][i] = d
    <3> SUFFICES ASSUME NEW d \in Members(o) \cup {c}
                 PROVE  \E i \in 1..len'[o] : array'[o][i] = d
      BY <2>3
    <3>1. CASE d = c
      <4>1. len[o] + 1 \in 1..len'[o]
        BY <2>1, <2>5
      <4> QED BY <2>1, <3>1, <4>1
    <3>2. CASE d \in Members(o)
      <4>1. PICK i \in 1..len[o] : array[o][i] = d
        BY <3>2 DEF SliceExact
      <4>2. i \in 1..len'[o]
        BY <2>1, <2>5
      <4> QED BY <2>6, <4>1, <4>2
    <3> QED BY <3>1, <3>2
  <2>10. ASSUME NEW q \in Orders \ {o}
         PROVE  /\ \A i \in 1..len'[q] : array'[q][i] \in Members(q)'
                /\ \A d \in Members(q)' : \E i \in 1..len'[q] : array'[q][i] = d
                /\ \A i, j \in 1..len'[q] : array'[q][i] = array'[q][j] => i = j
    BY <2>1, <2>4 DEF SliceExact
  <2> QED BY <2>8, <2>9, <2>10 DEF SliceExact
<1>3. ASSUME NEW c \in Streams, RemoveSubscriber(c) PROVE SliceExact'
  <2>1. PICK o \in Orders :
           /\ o = order[c] /\ len[o] \in Nat /\ Len(array[o]) \in Nat
           /\ len' = [len EXCEPT ![o] = len[o] - 1]
           /\ \A q \in Orders \ {o} : array'[q] = array[q]
           /\ \E p \in 1..len[o] :
                /\ array[o][p] = c
                /\ len[o] = 1 \/ \A k \in 1..Len(array[o]) :
                     array'[o][k] = IF k >= p /\ k < len[o] THEN array[o][k + 1]
                                                            ELSE array[o][k]
    BY <1>3, Removes
  <2>2. PICK p \in 1..len[o] :
          /\ array[o][p] = c
          /\ len[o] = 1 \/ \A k \in 1..Len(array[o]) :
                     array'[o][k] = IF k >= p /\ k < len[o] THEN array[o][k + 1]
                                                            ELSE array[o][k]
    BY <2>1
  <2>3. /\ handler[c] = "waiting" /\ handler' = [handler EXCEPT ![c] = "returned"]
        /\ order' = order
    BY <1>3 DEF RemoveSubscriber
  <2>4. Members(o)' = Members(o) \ {c}
    BY <1>h, <2>1, <2>3 DEF HandlerType, Members
  <2>5. \A q \in Orders \ {o} : Members(q)' = Members(q) /\ len'[q] = len[q]
    <3> SUFFICES ASSUME NEW q \in Orders \ {o}
                 PROVE  Members(q)' = Members(q) /\ len'[q] = len[q]
      OBVIOUS
    <3>1. len'[q] = len[q]
      BY <1>h, <2>1 DEF ArrayType
    <3>2. order[c] # q /\ order' = order
      BY <2>1, <2>3
    <3>3. \A d \in Streams \ {c} : handler'[d] = handler[d]
      BY <1>h, <2>3 DEF HandlerType
    <3>4. Members(q)' = Members(q)
      BY <3>2, <3>3 DEF Members
    <3> QED BY <3>1, <3>4
  <2>6. len'[o] = len[o] - 1 /\ len[o] <= Len(array[o])
    BY <1>h, <2>1 DEF ArrayType
  <2> DEFINE Old(k) == IF k >= p THEN k + 1 ELSE k
  <2>7. \A k \in 1..len'[o] : /\ Old(k) \in 1..len[o] /\ Old(k) # p
                              /\ array'[o][k] = array[o][Old(k)]
    BY <2>1, <2>2, <2>6, SMTT(30)
  <2>8. \A i, j \in 1..len[o] : array[o][i] = array[o][j] => i = j
    BY DEF SliceExact
  <2>9. \A i \in 1..len[o] : array[o][i] \in Members(o)
    BY DEF SliceExact
  <2>10. \A i \in 1..len'[o] : array'[o][i] \in Members(o)'
    <3> SUFFICES ASSUME NEW i \in 1..len'[o] PROVE array'[o][i] \in Members(o) \ {c}
      BY <2>4
    <3>1. Old(i) \in 1..len[o] /\ Old(i) # p /\ array'[o][i] = array[o][Old(i)]
      BY <2>7
    <3> HIDE DEF Old
    <3> QED BY <2>2, <2>8, <2>9, <3>1
  <2>11. \A i, j \in 1..len'[o] : array'[o][i] = array'[o][j] => i = j
    <3> SUFFICES ASSUME NEW i \in 1..len'[o], NEW j \in 1..len'[o],
                        array'[o][i] = array'[o][j]
                 PROVE  i = j
      OBVIOUS
    <3>1. Old(i) = Old(j)
      <4>1. /\ Old(i) \in 1..len[o] /\ array'[o][i] = array[o][Old(i)]
            /\ Old(j) \in 1..len[o] /\ array'[o][j] = array[o][Old(j)]
        BY <2>7
      <4> HIDE DEF Old
      <4> QED BY <2>8, <4>1
    <3> QED BY <2>1, <2>6, <3>1
  <2>12. \A d \in Members(o)' : \E i \in 1..len'[o] : array'[o][i] = d
    <3> SUFFICES ASSUME NEW d \in Members(o), d # c
                 PROVE  \E i \in 1..len'[o] : array'[o][i] = d
      BY <2>4
    <3>1. PICK i \in 1..len[o] : array[o][i] = d
      BY DEF SliceExact
    <3>2. i # p
      BY <2>2, <3>1
    <3>3. PICK k \in 1..len'[o] : Old(k) = i
      <4>1. CASE i < p
        <5>1. i \in 1..len'[o] /\ Old(i) = i
          BY <2>1, <2>6, <4>1
        <5> QED BY <5>1
      <4>2. CASE i > p
        <5>1. i - 1 \in 1..len'[o] /\ Old(i - 1) = i
          BY <2>1, <2>6, <4>2
        <5> QED BY <5>1
      <4> QED BY <2>1, <3>2, <4>1, <4>2
    <3>4. array'[o][k] = array[o][Old(k)]
      BY <2>7
    <3> QED BY <3>1, <3>3, <3>4
  <2>13. ASSUME NEW q \in Orders \ {o}
         PROVE  /\ \A i \in 1..len'[q] : array'[q][i] \in Members(q)'
                /\ \A d \in Members(q)' : \E i \in 1..len'[q] : array'[q][i] = d
                /\ \A i, j \in 1..len'[q] : array'[q][i] = array'[q][j] => i = j
    BY <2>1, <2>5 DEF SliceExact
  <2> QED BY <2>10, <2>11, <2>12, <2>13 DEF SliceExact
<1> QED BY <1>1, <1>2, <1>3, NextCases

-----------------------------------------------------------------------------
\* Nobody stops being served but for a broken stream.
LEMMA ServedStays ==
  ASSUME TypeInv, GivenUpOnlyIfBroken, [Next]_vars, NEW c \in Streams, Served(c)
  PROVE  Served(c)'
<1>h. HandlerType
  BY DEF TypeInv
<1>1. CASE NoStream
  BY <1>1, NoStreamKeeps DEF Served
<1>2. ASSUME NEW d \in Streams, Elsewhere(d) PROVE Served(c)'
  <2>1. broken \subseteq broken'
    BY <1>2 DEF Elsewhere, Subscribe, Lookup, LookupFails, SendInitial, SendInitialFails,
         Sender, SendUpdate, SendUpdateFails, Interrupt, Disconnect, ConnectionLost
  <2> QED BY <1>2, <2>1, ElsewhereMoves DEF Served
<1>3. ASSUME NEW d \in Streams, Register(d) PROVE Served(c)'
  BY <1>h, <1>3 DEF Register, HandlerType, Served
<1>4. ASSUME NEW d \in Streams, RemoveSubscriber(d) PROVE Served(c)'
  BY <1>h, <1>4 DEF RemoveSubscriber, HandlerType, Served, GivenUpOnlyIfBroken
<1> QED BY <1>1, <1>2, <1>3, <1>4, NextCases

\* Updates are on their way to streams that were in the registry.
LEMMA SendingStep ==
  ASSUME RegistryInv, [Next]_vars, NEW c \in Streams, NEW s \in Status, sending'[c][s] > 0
  PROVE  Served(c)
<1>t. TypeInv /\ SendingType /\ CellsServed
  BY DEF RegistryInv, TypeInv
<1>1. CASE sending' = sending
  BY <1>1, <1>t DEF CellsServed
<1>2. CASE Spawn
  <2>1. Cell \in Streams /\ Served(Cell)
    <3>1. /\ Cell \in Streams
          /\ \/ view.order = Blank /\ view.i \in 1..Len(view.cells)
             \/ view.order \in Orders /\ view.i \in 1..Len(array[view.order])
      BY <1>2, <1>t, CellExists DEF Spawn
    <3>2. CASE view.order = Blank /\ view.i \in 1..Len(view.cells)
      BY <1>t, <3>1, <3>2 DEF CellsServed, Cell
    <3>3. CASE view.order \in Orders /\ view.i \in 1..Len(array[view.order])
      BY <1>t, <3>1, <3>3, StreamAssumption DEF CellsServed, Cell
    <3> QED BY <3>1, <3>2, <3>3
  <2>2. mon.status \in Status
    BY <1>2, <1>t DEF Spawn, TypeInv, MonitorOK
  <2>3. c # Cell => sending'[c][s] = sending[c][s]
    BY <1>2, <1>t, <2>1, <2>2, SendingCounted DEF Spawn
  <2> QED BY <1>t, <2>1, <2>3 DEF CellsServed
<1>3. ASSUME NEW d \in Streams, NEW q \in Status, sending[d][q] > 0,
             sending' = [sending EXCEPT ![d][q] = @ - 1]
      PROVE  Served(c)
  <2>1. (c # d \/ s # q) => sending'[c][s] = sending[c][s]
    BY <1>3, <1>t, SendingCounted
  <2> QED BY <1>3, <1>t, <2>1 DEF CellsServed
<1>4. \/ sending' = sending \/ Spawn
      \/ \E d \in Streams, q \in Status :
           sending[d][q] > 0 /\ sending' = [sending EXCEPT ![d][q] = @ - 1]
  <2>1. CASE NoStream
    BY <2>1 DEF NoStream, Monitor, Tick, CheckOrder, CheckFails, TakeSlice, SpawnDone,
                MonitorEnds, ChangeStatus, Shutdown, GracefulStop, vars
  <2>2. ASSUME NEW d \in Streams, Elsewhere(d)
        PROVE  \/ sending' = sending
               \/ \E q \in Status : sending[d][q] > 0
                                    /\ sending' = [sending EXCEPT ![d][q] = @ - 1]
    BY <2>2 DEF Elsewhere, Subscribe, Lookup, LookupFails, SendInitial, SendInitialFails,
         Sender, SendUpdate, SendUpdateFails, Interrupt, Disconnect, ConnectionLost
  <2>3. ASSUME NEW d \in Streams, Register(d) \/ RemoveSubscriber(d) PROVE sending' = sending
    BY <2>3 DEF Register, RemoveSubscriber
  <2> QED BY <2>1, <2>2, <2>3, NextCases
<1> QED BY <1>1, <1>2, <1>3, <1>4

\* The cells of the array, used or not, hold streams that were registered.
LEMMA ArrayStep ==
  ASSUME RegistryInv, [Next]_vars, NEW o \in Orders, NEW i \in 1..Len(array'[o]),
         NEW d, d = array'[o][i]
  PROVE  d \in Streams /\ Served(d)'
<1>t. TypeInv /\ TypeInv' /\ SliceExact /\ CellsServed /\ GivenUpOnlyIfBroken
  BY TypeStep DEF RegistryInv
<1>0. d \in Streams
  <2>1. array'[o] \in Seq(Streams)
    BY <1>t DEF TypeInv, ArrayType
  <2> QED BY <2>1
<1>1. CASE \E k \in 1..Len(array[o]) : array'[o][i] = array[o][k]
  BY <1>0, <1>1, <1>t, ServedStays DEF CellsServed
<1>2. CASE array' = array
  BY <1>1, <1>2
<1>3. ASSUME NEW c \in Streams, Register(c), array'[o][i] # c
      PROVE  \E k \in 1..Len(array[o]) : array'[o][i] = array[o][k]
  <2>1. PICK q \in Orders :
           /\ len[q] \in Nat /\ Len(array[q]) \in Nat
           /\ \A r \in Orders \ {q} : array'[r] = array[r]
           /\ array'[q][len[q] + 1] = c
           /\ \A k \in 1..Len(array[q]) : k # len[q] + 1 => array'[q][k] = array[q][k]
           /\ Len(array'[q]) = Len(array[q])
              \/ (Len(array[q]) = len[q] /\ Len(array'[q]) = len[q] + 1)
    BY <1>3, <1>t, Registers
  <2>2. CASE o # q
    BY <2>1, <2>2
  <2>3. CASE o = q
    <3>1. i # len[q] + 1
      BY <1>3, <2>1, <2>3
    <3>2. i \in 1..Len(array[q])
      BY <2>1, <2>3, <3>1
    <3> QED BY <2>1, <2>3, <3>1, <3>2
  <2> QED BY <2>2, <2>3
<1>4. ASSUME NEW c \in Streams, RemoveSubscriber(c)
      PROVE  \E k \in 1..Len(array[o]) : array'[o][i] = array[o][k]
  <2> DEFINE Gone(q, p) ==
        /\ len[q] \in Nat /\ Len(array[q]) \in Nat
        /\ \A r \in Orders \ {q} : array'[r] = array[r]
        /\ \/ Len(array'[q]) = 0
           \/ /\ Len(array'[q]) = Len(array[q])
              /\ \A k \in 1..Len(array[q]) :
                   array'[q][k] = IF k >= p /\ k < len[q] THEN array[q][k + 1]
                                                          ELSE array[q][k]
  <2>0. PICK q \in Orders :
          /\ len[q] \in Nat /\ Len(array[q]) \in Nat
          /\ \A r \in Orders \ {q} : array'[r] = array[r]
          /\ \E p \in 1..len[q] :
               \/ len[q] = 1 /\ Len(array'[q]) = 0
               \/ /\ len[q] > 1 /\ Len(array'[q]) = Len(array[q])
                  /\ \A k \in 1..Len(array[q]) :
                       array'[q][k] = IF k >= p /\ k < len[q] THEN array[q][k + 1]
                                                              ELSE array[q][k]
    BY <1>4, <1>t, Removes
  <2>1. PICK p \in 1..len[q] : Gone(q, p)
    BY <2>0
  <2>2. CASE o # q
    BY <2>1, <2>2
  <2>3. CASE o = q
    <3>1. /\ i \in 1..Len(array[q])
          /\ array'[q][i] = IF i >= p /\ i < len[q] THEN array[q][i + 1] ELSE array[q][i]
      BY <2>1, <2>3
    <3>2. len[q] <= Len(array[q])
      BY <1>t DEF TypeInv, ArrayType
    <3>3. i >= p /\ i < len[q] => i + 1 \in 1..Len(array[q])
      BY <2>1, <3>1, <3>2
    <3> QED BY <2>3, <3>1, <3>3
  <2> QED BY <2>2, <2>3
<1>5. ASSUME NEW c \in Streams, Register(c) PROVE Served(c)'
  <2>1. HandlerType
    BY <1>t DEF TypeInv
  <2> QED BY <1>5, <2>1 DEF Register, HandlerType, Served
<1>6. ASSUME NEW c \in Streams, Register(c) PROVE Served(d)'
  BY <1>1, <1>3, <1>5, <1>6
<1>7. ASSUME NEW c \in Streams, RemoveSubscriber(c) PROVE Served(d)'
  BY <1>1, <1>4, <1>7
<1>8. CASE NoStream \/ \E c \in Streams : Elsewhere(c)
  BY <1>2, <1>8, NoStreamKeeps, ElsewhereKeeps
<1> QED BY <1>0, <1>6, <1>7, <1>8, NextCases

\* So do those of an array that the monitor still ranges over.
LEMMA ViewCellsStep ==
  ASSUME RegistryInv, [Next]_vars, NEW i \in 1..Len(view'.cells),
         NEW d, d = view'.cells[i]
  PROVE  d \in Streams /\ Served(d)'
<1>t. TypeInv /\ TypeInv' /\ SliceExact /\ CellsServed /\ GivenUpOnlyIfBroken
  BY TypeStep DEF RegistryInv
<1>0. d \in Streams
  <2>1. view'.cells \in Seq(Streams)
    BY <1>t DEF TypeInv, ViewType
  <2> QED BY <2>1
<1>1. CASE view'.cells = view.cells
  BY <1>0, <1>1, <1>t, ServedStays DEF CellsServed
<1>2. CASE \E o \in Orders : view'.cells = array[o]
  BY <1>0, <1>2, <1>t, ServedStays DEF CellsServed
<1>3. CASE view'.cells = <<>>
  BY <1>3, EmptySeq
<1>4. \/ view'.cells = view.cells \/ view'.cells = <<>>
      \/ \E o \in Orders : view'.cells = array[o]
  <2>v. ViewType
    BY <1>t DEF TypeInv
  <2>1. CASE NoStream
    <3>1. CASE Spawn
      BY <2>v, <3>1 DEF Spawn, ViewType
    <3>2. CASE TakeSlice \/ SpawnDone
      BY <3>2 DEF TakeSlice, SpawnDone, NoView
    <3>3. CASE NoStream /\ ~Spawn /\ ~TakeSlice /\ ~SpawnDone
      BY <3>3 DEF NoStream, Monitor, Tick, CheckOrder, CheckFails, MonitorEnds, ChangeStatus,
                  Shutdown, GracefulStop, vars, monitorVars
    <3> QED BY <2>1, <3>1, <3>2, <3>3
  <2>2. ASSUME NEW c \in Streams, Elsewhere(c) PROVE view'.cells = view.cells
    BY <2>2, ElsewhereKeeps
  <2>3. ASSUME NEW w, NEW o \in Orders, NEW c \in Streams, w = Kept(o) \/ w = view
        PROVE  /\ w.cells = view.cells \/ w.cells = array[o]
               /\ Left(w, c).cells = w.cells
    BY <2>3, <2>v DEF Kept, ViewType, Left
  <2>4. ASSUME NEW c \in Streams, Register(c)
        PROVE  view'.cells = view.cells \/ \E o \in Orders : view'.cells = array[o]
    <3>1. PICK o \in Orders : view' = view \/ view' = Kept(o)
      BY <2>4, <1>t, Registers
    <3> QED BY <2>3, <2>4, <3>1
  <2>5. ASSUME NEW c \in Streams, RemoveSubscriber(c)
        PROVE  view'.cells = view.cells \/ \E o \in Orders : view'.cells = array[o]
    <3>1. PICK o \in Orders : view' = Left(view, c) \/ view' = Left(Kept(o), c)
      BY <2>5, <1>t, Removes
    <3>2. /\ Left(view, c).cells = view.cells
          /\ Left(Kept(o), c).cells \in {view.cells, array[o]}
      BY <2>3
    <3> QED BY <3>1, <3>2
  <2> QED BY <2>1, <2>2, <2>4, <2>5, NextCases
<1> QED BY <1>0, <1>1, <1>2, <1>3, <1>4

\* Only a stream that is broken is given up.
LEMMA GivenUpStep == RegistryInv /\ [Next]_vars => GivenUpOnlyIfBroken'
<1> SUFFICES ASSUME RegistryInv, [Next]_vars PROVE GivenUpOnlyIfBroken'
  OBVIOUS
<1>t. CellsServed /\ GivenUpOnlyIfBroken
  BY DEF RegistryInv
<1>1. CASE NoStream
  <2>1. UNCHANGED <<broken, closed>>
    BY <1>1 DEF NoStream, Monitor, Tick, CheckOrder, CheckFails, TakeSlice, Spawn,
                SpawnDone, MonitorEnds, ChangeStatus, Shutdown, GracefulStop, vars
  <2> QED BY <1>t, <2>1 DEF GivenUpOnlyIfBroken
<1>2. ASSUME NEW c \in Streams, NEW s \in Status, SendUpdateFails(c, s)
      PROVE  GivenUpOnlyIfBroken'
  <2>1. Served(c) /\ ~Live(c)
    BY <1>2, <1>t DEF SendUpdateFails, CellsServed
  <2>2. c \in broken
    BY <2>1 DEF Served, Live
  <2>3. closed' = closed \cup {c} /\ broken' = broken
    BY <1>2 DEF SendUpdateFails
  <2> QED BY <1>t, <2>2, <2>3 DEF GivenUpOnlyIfBroken
<1>3. ASSUME NEW c \in Streams, Elsewhere(c), \A s \in Status : ~SendUpdateFails(c, s)
      PROVE  GivenUpOnlyIfBroken'
  <2>1. broken \subseteq broken' /\ closed' = closed
    BY <1>3 DEF Elsewhere, Subscribe, Lookup, LookupFails, SendInitial, SendInitialFails,
         Sender, SendUpdate, Interrupt, Disconnect, ConnectionLost
  <2> QED BY <1>t, <2>1 DEF GivenUpOnlyIfBroken
<1>4. ASSUME NEW c \in Streams, Register(c) \/ RemoveSubscriber(c)
      PROVE  GivenUpOnlyIfBroken'
  <2>1. UNCHANGED <<broken, closed>>
    BY <1>4 DEF Register, RemoveSubscriber
  <2> QED BY <1>t, <2>1 DEF GivenUpOnlyIfBroken
<1> QED BY <1>1, <1>2, <1>3, <1>4, NextCases

\* Every step keeps the registry's invariant.
LEMMA RegistryStep == RegistryInv /\ [Next]_vars => RegistryInv'
<1> SUFFICES ASSUME RegistryInv, [Next]_vars PROVE RegistryInv'
  OBVIOUS
<1>t. TypeInv /\ ShownOK /\ SliceExact /\ GivenUpOnlyIfBroken
  BY DEF RegistryInv
<1>1. TypeInv' /\ ShownOK' /\ SliceExact' /\ GivenUpOnlyIfBroken'
  BY <1>t, TypeStep, ShownStep, SliceStep, GivenUpStep
<1>2. CellsServed'
  <2>1. ASSUME NEW o \in Orders, NEW i \in 1..Len(array'[o]) PROVE Served(array[o][i])'
    <3>1. PICK d : d = array'[o][i]
      OBVIOUS
    <3>2. Served(d)'
      BY <3>1, ArrayStep
    <3> QED BY <3>1, <3>2 DEF Served
  <2>2. ASSUME NEW i \in 1..Len(view'.cells) PROVE Served(view.cells[i])'
    <3>1. PICK d : d = view'.cells[i]
      OBVIOUS
    <3>2. Served(d)'
      BY <3>1, ViewCellsStep
    <3> QED BY <3>1, <3>2 DEF Served
  <2>3. ASSUME NEW c \in Streams, NEW s \in Status, sending'[c][s] > 0 PROVE Served(c)'
    BY <2>3, <1>t, SendingStep, ServedStays
  <2> QED BY <2>1, <2>2, <2>3 DEF CellsServed
<1> QED BY <1>1, <1>2 DEF RegistryInv

LEMMA RegistryInit == Init => RegistryInv
<1> SUFFICES ASSUME Init PROVE RegistryInv
  OBVIOUS
<1>1. TypeInv
  BY InitStreams
<1>2. \A o \in Orders : array[o] = <<>> /\ len[o] = 0 /\ Members(o) = {}
  BY DEF Init, Members
<1>3. Len(<<>>) = 0
  BY EmptySeq
<1>4. SliceExact
  BY <1>2 DEF SliceExact
<1>5. CellsServed
  <2>1. view.cells = <<>>
    BY DEF Init, NoView
  <2>2. \A c \in Streams : \A s \in Status : sending[c][s] = 0
    BY DEF Init
  <2> QED BY <1>2, <1>3, <2>1, <2>2 DEF CellsServed
<1>6. GivenUpOnlyIfBroken
  BY DEF Init, GivenUpOnlyIfBroken
<1>7. ShownOK
  BY DEF Init, ShownOK
<1> QED BY <1>1, <1>4, <1>5, <1>6, <1>7 DEF RegistryInv

\* The registry's invariant holds in every state of the stream.
LEMMA RegistryAlways == Spec => []RegistryInv
  BY RegistryInit, RegistryStep, PTL DEF Spec

(***************************************************************************)
(* Every variable of the stream keeps its type, whatever the handlers, the *)
(* monitor, the senders and the clients of server.go and stream_client.go  *)
(* do: every stream in a cell that is read exists, every status printed is *)
(* one of an order, and a handler that waits has shown its client one.     *)
(***************************************************************************)
THEOREM StreamTypeCorrect == Spec => []TypeOK
<1>1. RegistryInv => TypeOK
  BY TypeInvIsType DEF RegistryInv
<1> QED BY <1>1, RegistryAlways, PTL

(***************************************************************************)
(* A subscriber's channel is closed (server.go:182) only when its stream   *)
(* is broken, for any number of streams, orders and changes, and whatever  *)
(* cells the monitor reads from arrays that have been shifted, reused or   *)
(* left.                                                                   *)
(***************************************************************************)
THEOREM ConnectedNeverGivenUp == Spec => []GivenUpOnlyIfBroken
<1>1. RegistryInv => GivenUpOnlyIfBroken
  BY DEF RegistryInv
<1> QED BY <1>1, RegistryAlways, PTL

\* The subscribers of an order, as the slice has them.
LEMMA SubsAreMembers ==
  ASSUME TypeInv, SliceExact, NEW o \in Orders
  PROVE  Subs(o) = Members(o) /\ Cardinality(Subs(o)) = len[o]
<1>1. /\ array[o] \in Seq(Streams) /\ len[o] \in Nat /\ len[o] <= Len(array[o])
      /\ Len(array[o]) \in Nat
  BY DEF TypeInv, ArrayType
<1>2. Slice(o) = [i \in 1..len[o] |-> array[o][i]]
  BY <1>1, SubSeqProperties DEF Slice
<1>3. Subs(o) = {array[o][i] : i \in 1..len[o]}
  BY <1>2 DEF Subs, Range
<1>4. Subs(o) = Members(o)
  BY <1>3 DEF SliceExact
<1>5. Slice(o) \in Bijection(1..len[o], Subs(o))
  <2>1. \A i, j \in 1..len[o] : array[o][i] = array[o][j] => i = j
    BY DEF SliceExact
  <2>2. Slice(o) \in Injection(1..len[o], Subs(o))
    BY <1>2, <1>3, <2>1 DEF Injection, IsInjective
  <2>3. Slice(o) \in Surjection(1..len[o], Subs(o))
    BY <1>2, <1>3 DEF Surjection
  <2> QED BY <2>2, <2>3 DEF Bijection
<1>6. ExistsBijection(1..len[o], Subs(o))
  BY <1>5 DEF ExistsBijection
<1>7. Cardinality(Subs(o)) = len[o]
  BY <1>1, <1>6, FS_CountingElements
<1> QED BY <1>4, <1>7

(***************************************************************************)
(* Under every interleaving of registrations (server.go:71) and removals   *)
(* (server.go:195), with any number of streams, the slice of an order      *)
(* holds exactly the streams registered for it, once each.                 *)
(***************************************************************************)
THEOREM RegistryAlwaysExact == Spec => []RegistryExact
<1>1. RegistryInv => RegistryExact
  BY SubsAreMembers DEF RegistryInv, RegistryExact, Members
<1> QED BY <1>1, RegistryAlways, PTL

-----------------------------------------------------------------------------
\* The slice that the monitor ranges over, when the registry moves on to
\* another array, and when somebody leaves.
LEMMA KeptFields ==
  ASSUME ViewType, NEW o \in Orders, NEW w, w = Kept(o)
  PROVE  /\ w.i = view.i /\ w.len = view.len /\ w.subs = view.subs
         /\ w.notified = view.notified /\ w.left = view.left
         /\ view.order # o => w = view
         /\ view.order = o => w.order = Blank /\ w.cells = array[o]
  BY DEF ViewType, Kept

LEMMA LeftFields ==
  ASSUME ViewType, NEW o \in Orders, NEW c \in Streams, NEW w, w = view \/ w = Kept(o),
         NEW v, v = Left(w, c)
  PROVE  /\ v.order = w.order /\ v.cells = w.cells /\ v.i = w.i /\ v.len = w.len
         /\ v.subs = w.subs /\ v.notified = w.notified
         /\ v.left = IF mon.pc = "spawn" /\ mon.order = order[c]
                     THEN w.left \cup {c} ELSE w.left
  BY DEF ViewType, Kept, Left

\* Whoever is not ahead any more, of those that are still to be notified, adds
\* to those that are missed.
LEMMA MissedGrows ==
  ASSUME NEW X, Remaining' \subseteq Remaining,
         \A d \in Remaining' : d \notin X /\ Ahead(d) => Ahead(d)'
  PROVE  Missed' \subseteq Missed \cup X
  BY DEF Missed

LEMMA MissedCounted ==
  ASSUME ViewType, NEW X \in SUBSET Streams, ViewType',
         Missed' \subseteq Missed \cup X, Cardinality(Missed) <= Cardinality(view.left),
         \/ X = {} /\ view.left \subseteq view'.left
         \/ \E x, c \in Streams : /\ X = {x} /\ c \notin view.left
                                  /\ view'.left = view.left \cup {c}
  PROVE  Cardinality(Missed') <= Cardinality(view'.left)
<1>1. /\ IsFiniteSet(Missed) /\ IsFiniteSet(Missed') /\ IsFiniteSet(view.left)
      /\ IsFiniteSet(view'.left) /\ IsFiniteSet(Missed \cup X)
  <2>1. /\ Missed \subseteq Streams /\ Missed' \subseteq Streams
        /\ view.left \subseteq Streams /\ view'.left \subseteq Streams
    BY DEF ViewType, Missed, Remaining
  <2>2. IsFiniteSet(Streams) /\ Missed \cup X \subseteq Streams
    BY <2>1, StreamAssumption
  <2> QED BY <2>1, <2>2, FS_Subset
<1>2. /\ Cardinality(Missed) \in Nat /\ Cardinality(Missed') \in Nat
      /\ Cardinality(view.left) \in Nat /\ Cardinality(view'.left) \in Nat
      /\ Cardinality(Missed \cup X) \in Nat
  BY <1>1, FS_CardinalityType
<1>3. Cardinality(Missed') <= Cardinality(Missed \cup X)
  BY <1>1, FS_Subset
<1>4. CASE X = {} /\ view.left \subseteq view'.left
  <2>1. Cardinality(view.left) <= Cardinality(view'.left)
    BY <1>1, <1>4, FS_Subset
  <2>2. Missed \cup X = Missed
    BY <1>4
  <2> QED BY <1>2, <1>3, <2>1, <2>2
<1>5. ASSUME NEW x \in Streams, NEW c \in Streams, X = {x}, c \notin view.left,
             view'.left = view.left \cup {c}
      PROVE  Cardinality(Missed') <= Cardinality(view'.left)
  <2>1. Cardinality(view'.left) = Cardinality(view.left) + 1
    BY <1>1, <1>5, FS_AddElement
  <2>2. Cardinality(Missed \cup {x}) <= Cardinality(Missed) + 1
    <3>1. CASE x \in Missed
      <4>1. Missed \cup {x} = Missed
        BY <3>1
      <4> QED BY <1>2, <4>1
    <3>2. CASE x \notin Missed
      <4>1. Cardinality(Missed \cup {x}) = Cardinality(Missed) + 1
        BY <1>1, <3>2, FS_AddElement
      <4> QED BY <1>2, <4>1
    <3> QED BY <3>1, <3>2
  <2> QED BY <1>2, <1>3, <1>5, <2>1, <2>2
<1> QED BY <1>4, <1>5

LEMMA NobodyMoreMissed ==
  ASSUME ViewType, ViewType', Missed' \subseteq Missed, view.left \subseteq view'.left,
         Cardinality(Missed) <= Cardinality(view.left)
  PROVE  Cardinality(Missed') <= Cardinality(view'.left)
<1>1. PICK X : X = {}
  OBVIOUS
<1>2. X \in SUBSET Streams /\ Missed' \subseteq Missed \cup X
  BY <1>1
<1> QED BY <1>1, <1>2, MissedCounted

\* The range statement goes on, or another begins.
LEMMA RangeMonitor == RegistryInv /\ RangeInv /\ NoStream /\ TypeInv' => RangeInv'
<1> SUFFICES ASSUME RegistryInv, RangeInv, NoStream, TypeInv' PROVE RangeInv'
  OBVIOUS
<1>1. UNCHANGED <<order, handler, array, len>>
  BY NoStreamKeeps
<1>v. TypeInv /\ ViewType /\ ViewType' /\ SliceExact
  BY DEF RegistryInv, TypeInv
<1>m. \A o \in Orders : Members(o)' = Members(o)
  BY <1>v, MembersKept
<1>2. CASE Spawn
  <2>1. /\ view'.order = view.order /\ view'.cells = view.cells /\ view'.len = view.len
        /\ view'.subs = view.subs /\ view'.left = view.left /\ view'.i = view.i + 1
        /\ view'.notified = view.notified \cup {Cell} /\ mon' = mon /\ mon.pc = "spawn"
    BY <1>2, <1>v DEF Spawn, ViewType
  <2>2. view.i \in Nat /\ view.len \in Nat
    BY <1>v DEF ViewType
  <2>3. Remaining' = Remaining \ {Cell}
    BY <2>1 DEF Remaining
  <2>4. \A d \in Remaining' : Ahead(d) => Ahead(d)'
    <3> SUFFICES ASSUME NEW d \in Remaining, d # Cell, Ahead(d) PROVE Ahead(d)'
      BY <2>3
    <3>1. PICK k \in view.i..view.len :
            IF view.order = Blank THEN view.cells[k] = d
                                  ELSE k <= len[view.order] /\ array[view.order][k] = d
      BY DEF Ahead
    <3>2. k # view.i
      BY <3>1 DEF Cell
    <3>3. k \in view'.i..view'.len
      BY <2>1, <2>2, <3>2
    <3> QED BY <1>1, <2>1, <3>1, <3>3 DEF Ahead
  <2>5. Missed' \subseteq Missed \cup {}
    BY <2>3, <2>4, MissedGrows
  <2>6. Cardinality(Missed') <= Cardinality(view'.left)
    <3>1. Cardinality(Missed) <= Cardinality(view.left)
      BY <2>1 DEF RangeInv
    <3> QED BY <1>v, <2>1, <2>5, <3>1, NobodyMoreMissed
  <2>7. \A c \in view'.left : handler'[c] = "returned"
    BY <1>1, <2>1 DEF RangeInv
  <2>8. view'.order # Blank => Remaining' \subseteq Members(view.order)'
    BY <1>1, <2>1, <2>3 DEF RangeInv, Members
  <2> QED BY <2>6, <2>7, <2>8 DEF RangeInv
<1>3. CASE TakeSlice
  <2>1. PICK o \in Orders : o = mon.order
    BY <1>3, <1>v DEF TakeSlice, TypeInv, MonitorOK
  <2>2. view' = [order |-> o, cells |-> <<>>, len |-> len[o], i |-> 1,
                 subs |-> Subs(o), notified |-> {}, left |-> {}]
    BY <1>3, <2>1 DEF TakeSlice
  <2>3. Remaining' = Members(o)
    BY <1>v, <2>2, SubsAreMembers DEF Remaining
  <2>4. \A d \in Remaining' : Ahead(d)'
    <3> SUFFICES ASSUME NEW d \in Members(o) PROVE Ahead(d)'
      BY <2>3
    <3>1. PICK k \in 1..len[o] : array[o][k] = d
      BY <1>v DEF SliceExact
    <3>2. o # Blank /\ k <= len[o]
      BY <2>1, <3>1, <1>v, StreamAssumption DEF TypeInv, ArrayType
    <3>3. k \in view'.i..view'.len /\ view'.order = o
      BY <2>2, <3>1
    <3> QED BY <1>1, <3>1, <3>2, <3>3 DEF Ahead
  <2>5. Missed' = {}
    BY <2>4 DEF Missed
  <2>6. Cardinality(Missed') = 0 /\ view'.left = {} /\ Cardinality(view'.left) = 0
    BY <2>2, <2>5, FS_EmptySet
  <2>7. Remaining' \subseteq Members(view.order)'
    BY <1>1, <2>2, <2>3 DEF Members
  <2> QED BY <2>6, <2>7 DEF RangeInv
<1>4. CASE SpawnDone
  <2>1. mon'.pc = "poll" /\ view' = NoView
    BY <1>4, <1>v DEF SpawnDone, TypeInv, MonType
  <2>2. view'.order = Blank /\ view'.left = {}
    BY <2>1 DEF NoView
  <2> QED BY <2>1, <2>2 DEF RangeInv
<1>5. CASE ~Spawn /\ ~TakeSlice /\ ~SpawnDone
  <2>1. view' = view
    BY <1>5 DEF NoStream, Monitor, Tick, CheckOrder, CheckFails, MonitorEnds, ChangeStatus,
                Shutdown, GracefulStop, vars, monitorVars
  <2>2. mon'.pc = "spawn" => mon.pc = "spawn"
    <3>1. mon \in [pc: {"poll", "notify", "spawn", "ended"}, todo: SUBSET Orders,
                   order: Orders \cup {Blank}, status: Status \cup {""}]
      BY <1>v DEF TypeInv, MonType
    <3>2. CASE Tick \/ MonitorEnds \/ \E o \in Orders : CheckFails(o)
      BY <3>1, <3>2 DEF Tick, MonitorEnds, CheckFails
    <3>3. ASSUME NEW o \in Orders, CheckOrder(o) PROVE mon'.pc # "spawn"
      BY <3>1, <3>3 DEF CheckOrder
    <3>4. CASE ~Monitor
      BY <3>4 DEF NoStream, ChangeStatus, Shutdown, GracefulStop, vars, monitorVars
    <3> QED BY <1>5, <3>2, <3>3, <3>4 DEF Monitor
  <2>3. Remaining' = Remaining /\ Missed' = Missed
    BY <1>1, <2>1 DEF Remaining, Missed, Ahead
  <2>4. Members(view.order)' = Members(view.order)
    BY <1>1, <2>1 DEF Members
  <2> QED BY <1>1, <2>1, <2>2, <2>3, <2>4 DEF RangeInv
<1> QED BY <1>2, <1>3, <1>4, <1>5

\* A stream goes on, outside of the registry.
LEMMA RangeElsewhere ==
  ASSUME TypeInv, RangeInv, NEW c \in Streams, Elsewhere(c)
  PROVE  RangeInv'
<1>1. UNCHANGED <<array, len, mon, view>>
  BY ElsewhereKeeps
<1>2. Remaining' = Remaining /\ Missed' = Missed
  BY <1>1 DEF Remaining, Missed, Ahead
<1>3. view.left \subseteq Streams /\ view.order \in Orders \cup {Blank}
  BY DEF TypeInv, ViewType
<1>4. \A d \in view'.left : handler'[d] = "returned"
  BY <1>1, <1>3, ElsewhereMoves DEF RangeInv
<1>5. view.order # Blank => Members(view.order)' = Members(view.order)
  <2> SUFFICES ASSUME view.order # Blank PROVE Members(view.order)' = Members(view.order)
    OBVIOUS
  <2>1. PICK o \in Orders : o = view.order /\ o = view'.order
    BY <1>1, <1>3
  <2>2. Members(o)' = Members(o)
    BY MembersKept
  <2> QED BY <2>1, <2>2 DEF Members
<1> QED BY <1>1, <1>2, <1>4, <1>5 DEF RangeInv

\* Somebody registers.
LEMMA RangeRegister ==
  ASSUME RegistryInv, RangeInv, TypeInv', NEW c \in Streams, Register(c)
  PROVE  RangeInv'
<1>v. TypeInv /\ ViewType /\ ViewType' /\ HandlerType /\ ArrayType /\ MonitorOK
  BY DEF RegistryInv, TypeInv
<1>1. PICK o \in Orders :
           /\ o = order[c] /\ len[o] \in Nat /\ Len(array[o]) \in Nat
           /\ len' = [len EXCEPT ![o] = len[o] + 1]
           /\ \A q \in Orders \ {o} : array'[q] = array[q]
           /\ \A k \in 1..Len(array[o]) : k # len[o] + 1 => array'[o][k] = array[o][k]
           /\ view' = view \/ view' = Kept(o)
  BY <1>v, Registers
<1>2. /\ handler[c] = "register" /\ handler' = [handler EXCEPT ![c] = "initial"]
      /\ order' = order /\ mon' = mon
  BY DEF Register
<1>3. /\ view'.i = view.i /\ view'.len = view.len /\ view'.subs = view.subs
      /\ view'.notified = view.notified /\ view'.left = view.left
      /\ \/ view' = view
         \/ view.order = o /\ view'.order = Blank /\ view'.cells = array[o]
  BY <1>1, <1>v, KeptFields
<1>4. /\ view.order \in Orders \cup {Blank} /\ view.i \in Nat \ {0} /\ view.len \in Nat
      /\ view.left \subseteq Streams
  BY <1>v DEF ViewType
<1>5. Remaining' = Remaining
  BY <1>3 DEF Remaining
<1>6. ASSUME NEW d, Ahead(d) PROVE Ahead(d)'
  <2>1. PICK k \in view.i..view.len :
          IF view.order = Blank THEN view.cells[k] = d
                                ELSE k <= len[view.order] /\ array[view.order][k] = d
    BY <1>6 DEF Ahead
  <2>2. k \in view'.i..view'.len
    BY <1>3
  <2>3. CASE view.order = Blank
    <3>1. view' = view
      BY <1>1, <1>3, <2>3, StreamAssumption
    <3> QED BY <2>1, <2>2, <2>3, <3>1 DEF Ahead
  <2>4. CASE view.order # Blank /\ view.order # o
    <3>1. /\ view' = view /\ array'[view.order] = array[view.order]
          /\ len'[view.order] = len[view.order]
      BY <1>1, <1>3, <1>4, <1>v, <2>4 DEF ArrayType
    <3> QED BY <2>1, <2>2, <2>4, <3>1 DEF Ahead
  <2>5. CASE view.order = o /\ view' = view
    <3>1. o # Blank /\ k <= len[o] /\ array[o][k] = d
      BY <1>1, <2>1, <2>5, StreamAssumption
    <3>2. len[o] <= Len(array[o]) /\ len'[o] = len[o] + 1
      BY <1>1, <1>v DEF ArrayType
    <3>3. k \in 1..Len(array[o]) /\ k # len[o] + 1 /\ k <= len'[o]
      BY <1>1, <1>4, <3>1, <3>2
    <3>4. array'[o][k] = d
      BY <1>1, <3>1, <3>3
    <3> QED BY <2>2, <2>5, <3>1, <3>3, <3>4 DEF Ahead
  <2>6. CASE view.order = o /\ view'.order = Blank /\ view'.cells = array[o]
    <3>1. o # Blank /\ array[o][k] = d
      BY <1>1, <2>1, <2>6, StreamAssumption
    <3> QED BY <2>2, <2>6, <3>1 DEF Ahead
  <2> QED BY <1>3, <2>3, <2>4, <2>5, <2>6
<1>7. Missed' \subseteq Missed \cup {}
  BY <1>5, <1>6, MissedGrows
<1>8. mon'.pc = "spawn" => Cardinality(Missed') <= Cardinality(view'.left)
  <2>1. mon'.pc = "spawn" => Cardinality(Missed) <= Cardinality(view.left)
    BY <1>2 DEF RangeInv
  <2> QED BY <1>3, <1>7, <1>v, <2>1, NobodyMoreMissed
<1>9. \A d \in view'.left : handler'[d] = "returned"
  BY <1>2, <1>3, <1>4, <1>v DEF RangeInv, HandlerType
<1>10. view'.order # Blank => Remaining' \subseteq Members(view.order)'
  <2>1. view'.order # Blank => Remaining \subseteq Members(view.order) /\ view' = view
    BY <1>3 DEF RangeInv
  <2> QED BY <1>2, <1>5, <1>v, <2>1 DEF Members, HandlerType
<1> QED BY <1>8, <1>9, <1>10 DEF RangeInv

\* Somebody is removed: at most the subscriber whose cell is read next is
\* shifted into a cell that has been read.
LEMMA RangeRemove ==
  ASSUME RegistryInv, RangeInv, TypeInv', NEW c \in Streams, RemoveSubscriber(c)
  PROVE  RangeInv'
<1>v. /\ TypeInv /\ SliceExact /\ ViewType /\ ViewType' /\ HandlerType /\ ArrayType
      /\ MonitorOK
  BY DEF RegistryInv, TypeInv
<1> DEFINE Shifted(o, p) == \A k \in 1..Len(array[o]) :
             array'[o][k] = IF k >= p /\ k < len[o] THEN array[o][k + 1] ELSE array[o][k]
<1>0. PICK o \in Orders :
           /\ o = order[c] /\ len[o] \in Nat /\ Len(array[o]) \in Nat
           /\ len' = [len EXCEPT ![o] = len[o] - 1]
           /\ \A q \in Orders \ {o} : array'[q] = array[q]
           /\ \E p \in 1..len[o] :
                /\ array[o][p] = c
                /\ view' = Left(Kept(o), c) \/ (Shifted(o, p) /\ view' = Left(view, c))
  BY <1>v, Removes
<1>1. PICK p \in 1..len[o] :
        /\ array[o][p] = c
        /\ view' = Left(Kept(o), c) \/ (Shifted(o, p) /\ view' = Left(view, c))
  BY <1>0
<1> HIDE DEF Shifted
<1>2. /\ handler[c] = "waiting" /\ handler' = [handler EXCEPT ![c] = "returned"]
      /\ order' = order /\ mon' = mon
  BY DEF RemoveSubscriber
<1>3. /\ view'.i = view.i /\ view'.len = view.len /\ view'.subs = view.subs
      /\ view'.notified = view.notified
      /\ view'.left = IF mon.pc = "spawn" /\ mon.order = o
                      THEN view.left \cup {c} ELSE view.left
      /\ \/ view.order # o /\ view'.order = view.order /\ view'.cells = view.cells
         \/ view.order = o /\ view'.order = Blank /\ view'.cells = array[o]
         \/ view.order = o /\ view'.order = o /\ Shifted(o, p)
  <2>1. CASE view' = Left(view, c) /\ Shifted(o, p)
    <3>1. /\ view'.order = view.order /\ view'.cells = view.cells /\ view'.i = view.i
          /\ view'.len = view.len /\ view'.subs = view.subs
          /\ view'.notified = view.notified
          /\ view'.left = IF mon.pc = "spawn" /\ mon.order = o
                          THEN view.left \cup {c} ELSE view.left
      <4>1. order[c] = o /\ view' = Left(view, c)
        BY <1>0, <2>1
      <4> QED BY <1>v, <4>1, LeftFields
    <3> QED BY <2>1, <3>1
  <2>2. CASE view' = Left(Kept(o), c)
    <3>1. PICK w : w = Kept(o)
      OBVIOUS
    <3>2. /\ w.i = view.i /\ w.len = view.len /\ w.subs = view.subs
          /\ w.notified = view.notified /\ w.left = view.left
          /\ view.order # o => w = view
          /\ view.order = o => w.order = Blank /\ w.cells = array[o]
      BY <1>v, <3>1, KeptFields
    <3>3. /\ view'.order = w.order /\ view'.cells = w.cells /\ view'.i = w.i
          /\ view'.len = w.len /\ view'.subs = w.subs
          /\ view'.notified = w.notified
          /\ view'.left = IF mon.pc = "spawn" /\ mon.order = o
                          THEN w.left \cup {c} ELSE w.left
      <4>1. order[c] = o /\ view' = Left(w, c)
        BY <1>0, <2>2, <3>1
      <4> QED BY <1>v, <3>1, <4>1, LeftFields
    <3> QED BY <3>2, <3>3
  <2> QED BY <1>1, <2>1, <2>2
<1>4. /\ view.order \in Orders \cup {Blank} /\ view.i \in Nat \ {0} /\ view.len \in Nat
      /\ view.left \subseteq Streams /\ view.left \subseteq view'.left
  BY <1>3, <1>v DEF ViewType
<1>5. /\ \A d \in view.left : handler[d] = "returned"
      /\ \A d \in view'.left : handler'[d] = "returned"
  <2>1. \A d \in view.left : handler[d] = "returned"
    BY DEF RangeInv
  <2>2. \A d \in Streams : handler'[d] = IF d = c THEN "returned" ELSE handler[d]
    BY <1>2, <1>v DEF HandlerType
  <2>3. \A d \in view'.left : d = c \/ d \in view.left
    BY <1>3
  <2> QED BY <1>4, <2>1, <2>2, <2>3
<1>6. Remaining' \subseteq Remaining
  BY <1>3, <1>4 DEF Remaining
<1>7. view.order = o => mon.pc = "spawn" /\ mon.order = o
  BY <1>v, StreamAssumption DEF MonitorOK
<1>8. o # Blank
  BY StreamAssumption
<1>9. CASE view'.order # o
  <2>1. ASSUME NEW d, Ahead(d) PROVE Ahead(d)'
    <3>1. PICK k \in view.i..view.len :
            IF view.order = Blank THEN view.cells[k] = d
                                  ELSE k <= len[view.order] /\ array[view.order][k] = d
      BY <2>1 DEF Ahead
    <3>2. k \in view'.i..view'.len
      BY <1>3
    <3>3. CASE view.order = o
      <4>1. view'.order = Blank /\ view'.cells = array[o] /\ array[o][k] = d
        BY <1>3, <1>8, <1>9, <3>1, <3>3
      <4> QED BY <3>2, <4>1 DEF Ahead
    <3>4. CASE view.order = Blank
      <4>1. view'.order = Blank /\ view'.cells = view.cells
        BY <1>3, <1>8, <3>4
      <4> QED BY <3>1, <3>2, <3>4, <4>1 DEF Ahead
    <3>5. CASE view.order # Blank /\ view.order # o
      <4>1. /\ view'.order = view.order /\ array'[view.order] = array[view.order]
            /\ len'[view.order] = len[view.order]
        BY <1>0, <1>3, <1>4, <1>v, <3>5 DEF ArrayType
      <4> QED BY <3>1, <3>2, <3>5, <4>1 DEF Ahead
    <3> QED BY <3>3, <3>4, <3>5
  <2>2. Missed' \subseteq Missed \cup {}
    BY <1>6, <2>1, MissedGrows
  <2>3. mon'.pc = "spawn" => Cardinality(Missed) <= Cardinality(view.left)
    BY <1>2 DEF RangeInv
  <2>4. mon'.pc = "spawn" => Cardinality(Missed') <= Cardinality(view'.left)
    BY <1>4, <1>v, <2>2, <2>3, NobodyMoreMissed
  <2>5. view'.order # Blank => Remaining' \subseteq Members(view.order)'
    <3> SUFFICES ASSUME view'.order # Blank, NEW d \in Remaining'
                 PROVE  d \in Members(view.order)'
      OBVIOUS
    <3>1. view'.order = view.order /\ view.order # o
      BY <1>3, <1>9
    <3>2. d \in Members(view.order)
      BY <1>6, <3>1 DEF RangeInv
    <3>3. d \in Streams /\ d # c /\ handler'[d] = handler[d]
      BY <1>0, <1>2, <1>v, <3>1, <3>2 DEF Members, HandlerType
    <3> QED BY <1>2, <3>1, <3>2, <3>3 DEF Members
  <2> QED BY <1>5, <2>4, <2>5 DEF RangeInv
<1>10. CASE view'.order = o
  <2>1. /\ view.order = o /\ Shifted(o, p) /\ mon.pc = "spawn" /\ mon.order = o
        /\ view'.left = view.left \cup {c}
    BY <1>3, <1>7, <1>8, <1>10
  <2>2. c \notin view.left /\ Remaining' = Remaining \ {c}
    BY <1>2, <1>3, <1>5, <2>1 DEF Remaining
  <2>3. len'[o] = len[o] - 1 /\ len[o] <= Len(array[o])
    BY <1>0, <1>v DEF ArrayType
  <2> DEFINE x == array[o][view.i]
  <2>4. ASSUME NEW d \in Remaining', d # x, Ahead(d) PROVE Ahead(d)'
    <3>1. PICK k \in view.i..view.len : k <= len[o] /\ array[o][k] = d
      BY <1>8, <2>1, <2>4 DEF Ahead
    <3>2. k # p /\ k # view.i /\ k \in Nat /\ k >= view.i /\ k <= view.len
      BY <1>1, <1>4, <2>2, <2>4, <3>1
    <3>3. PICK j \in view.i..view.len : j <= len'[o] /\ array'[o][j] = d
      <4>1. CASE k < p
        <5>1. k \in 1..Len(array[o]) /\ ~(k >= p) /\ k <= len'[o]
          BY <1>0, <1>4, <2>3, <3>1, <3>2, <4>1
        <5>2. array'[o][k] = d
          BY <2>1, <3>1, <5>1 DEF Shifted
        <5> QED BY <5>1, <5>2
      <4>2. CASE k > p
        <5>1. /\ k - 1 \in 1..Len(array[o]) /\ k - 1 >= p /\ k - 1 < len[o]
              /\ k - 1 <= len'[o] /\ k - 1 + 1 = k /\ k - 1 \in view.i..view.len
          BY <1>0, <1>4, <2>3, <3>1, <3>2, <4>2, SMTT(30)
        <5>2. array'[o][k - 1] = d
          BY <2>1, <3>1, <5>1 DEF Shifted
        <5> QED BY <5>1, <5>2
      <4> QED BY <1>0, <3>2, <4>1, <4>2
    <3> QED BY <1>3, <1>8, <1>10, <3>3 DEF Ahead
  <2>5. Missed' \subseteq Missed \cup {x}
    BY <1>6, <2>4, MissedGrows
  <2>6. Cardinality(Missed) <= Cardinality(view.left)
    BY <2>1 DEF RangeInv
  <2>7. Cardinality(Missed') <= Cardinality(view'.left)
    <3>1. CASE x \in Streams
      <4>1. PICK X : X = {x}
        OBVIOUS
      <4>2. X \in SUBSET Streams /\ Missed' \subseteq Missed \cup X
        BY <2>5, <3>1, <4>1
      <4> HIDE DEF x
      <4> QED BY <1>v, <2>1, <2>2, <2>6, <3>1, <4>1, <4>2, MissedCounted
    <3>2. CASE x \notin Streams
      <4>1. Missed' \subseteq Missed
        BY <1>v, <2>5, <3>2 DEF ViewType, Missed, Remaining
      <4> QED BY <1>4, <1>v, <2>6, <4>1, NobodyMoreMissed
    <3> QED BY <3>1, <3>2
  <2>8. Remaining' \subseteq Members(view.order)'
    <3> SUFFICES ASSUME NEW d \in Remaining' PROVE d \in Members(view.order)'
      OBVIOUS
    <3>1. d \in Members(o) /\ d # c
      BY <1>8, <2>1, <2>2 DEF RangeInv
    <3>2. d \in Streams /\ handler'[d] = handler[d]
      BY <1>2, <1>v, <3>1 DEF Members, HandlerType
    <3> QED BY <1>2, <1>10, <3>1, <3>2 DEF Members
  <2> QED BY <1>5, <2>7, <2>8 DEF RangeInv
<1> QED BY <1>9, <1>10

LEMMA RangeStep == RegistryInv /\ RangeInv /\ [Next]_vars => RangeInv'
<1> SUFFICES ASSUME RegistryInv, RangeInv, [Next]_vars PROVE RangeInv'
  OBVIOUS
<1>1. TypeInv /\ TypeInv'
  BY RegistryStep DEF RegistryInv
<1> QED BY <1>1, NextCases, RangeMonitor, RangeElsewhere, RangeRegister, RangeRemove

(***************************************************************************)
(* However many subscribers are removed while the monitor ranges over      *)
(* their slice without the lock (server.go:178 and :196), those that a     *)
(* finished range statement has missed are no more than those that left.   *)
(***************************************************************************)
THEOREM FewAreMissed == Spec => []MissedAtMostLeavers
<1>1. Init => RangeInv
  <2> SUFFICES ASSUME Init PROVE RangeInv
    OBVIOUS
  <2>1. view.order = Blank /\ view.left = {} /\ mon.pc = "poll"
    BY DEF Init, NoView
  <2> QED BY <2>1 DEF RangeInv
<1>2. RegistryInv /\ RangeInv => MissedAtMostLeavers
  <2> SUFFICES ASSUME RegistryInv, RangeInv, mon.pc = "spawn", view.i > view.len
               PROVE  Cardinality(Remaining) <= Cardinality(view.left)
    BY DEF MissedAtMostLeavers, Remaining
  <2>1. view.i \in Nat /\ view.len \in Nat
    BY DEF RegistryInv, TypeInv, ViewType
  <2>2. view.i..view.len = {}
    BY <2>1
  <2>3. Missed = Remaining
    BY <2>2 DEF Missed, Ahead
  <2> QED BY <2>3 DEF RangeInv
<1>3. Spec => []RangeInv
  BY <1>1, RegistryAlways, RangeStep, PTL DEF Spec
<1> QED BY <1>2, <1>3, RegistryAlways, PTL
=============================================================================

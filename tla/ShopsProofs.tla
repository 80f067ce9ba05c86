----------------------------- MODULE ShopsProofs -----------------------------
(***************************************************************************)
(* What is sold and who is at work, for any number of orders, sales,       *)
(* carts, colleagues and requests.                                         *)
(*                                                                         *)
(* CodOrders: while the saves of one order do not overlap, the row a       *)
(* request is about to save is the row in the database. From that follow   *)
(* the stock of every order, its one payment, and that the sync leaves a   *)
(* correction alone.                                                       *)
(*                                                                         *)
(* ShopStock: the balance of a sale on credit is what was paid on it. It   *)
(* is behind only while the one request that took the payment has yet to   *)
(* save it, so the invariant follows that request. And a product's stock   *)
(* is what its papers say: the lines that listeners took off, voids put    *)
(* back and deliveries brought so far, summed over its lines in all sales  *)
(* and orders, while one request at most is about each of them.            *)
(*                                                                         *)
(* OfflineSales: a sale made offline is in the queue until the server made *)
(* it, and the server makes it once, but for the carts of `unsure`. The    *)
(* queue alone does not say what was posted, so the invariant follows each *)
(* cart through the runs: while one run is on, a queued cart is one it has *)
(* yet to post or failed to, or was sold; between runs, no queued cart was *)
(* sold; and while two are on, no certain cart is queued at all.           *)
(*                                                                         *)
(* HrRoster: one shift for a person and day, approved leave blocks the     *)
(* day, and a shift passes to somebody else only by an open swap.          *)
(* Requests are kept apart a table at a time (crossed): Fresh, Informed    *)
(* and Asked are what one knows of the shifts, the swaps and the leave     *)
(* while nobody else is at work on them.                                   *)
(*                                                                         *)
(* The last part puts the four together: a behaviour of the composition is *)
(* a behaviour of each.                                                    *)
(***************************************************************************)
EXTENDS MCShops, SumProofs, TLAPS

-----------------------------------------------------------------------------
(* Cash-on-delivery orders.                                                *)

USE CodAssumption

LEMMA TypeInit == Init => TypeOK
  BY DEF Init, TypeOK, CourierStates, Requesting, Absent, Idle

\* The row a save works on is a row.
LEMMA SavedRow ==
  ASSUME TypeOK, NEW r \in Requests, Saving(r)
  PROVE  /\ request[r].order \in Orders /\ request[r].row \in Rows
         /\ request[r].job = "sync" => request[r].state \in CourierStates /\ request[r].status \in Statuses
<1>1. request[r] \in Requesting /\ request[r].pc = "saving"
  BY DEF TypeOK, Saving
<1>2. CASE request[r] \in [pc: {"saving"}, job: {"status", "edit", "delete"}, order: Orders, row: Rows]
  BY <1>2
<1>3. CASE request[r] \in [pc: {"saving"}, job: {"sync"}, order: Orders, row: Rows,
                          state: CourierStates, status: Statuses]
  BY <1>3
<1> QED BY <1>1, <1>2, <1>3 DEF Requesting, Idle

\* The locals of the other steps of a request.
LEMMA SyncedOrder ==
  ASSUME TypeOK, NEW r \in Requests, request[r].pc \in {"moving", "stamping"}
  PROVE  request[r] \in [pc: {"moving", "stamping"}, job: {"sync"}, order: Orders,
                         state: CourierStates, status: Statuses]
<1>1. request[r] \in Requesting
  BY DEF TypeOK
<1> QED BY <1>1 DEF Requesting, Idle

LEMMA RecordedOrders ==
  ASSUME TypeOK, NEW r \in Requests, request[r].pc = "recording"
  PROVE  request[r].orders \subseteq Orders
<1>1. request[r] \in Requesting
  BY DEF TypeOK
<1>2. request[r] \in [pc: {"recording"}, job: {"record"}, orders: SUBSET Orders]
  BY <1>1 DEF Requesting, Idle
<1> QED BY <1>2

LEMMA LinesNatural ==
  ASSUME TypeOK, NEW o \in Orders
  PROVE  lines[o] \in Nat
<1>1. lines[o] \in Quantities \union {0}
  BY DEF TypeOK
<1>2. CASE lines[o] \in Quantities
  BY <1>2
<1>3. CASE lines[o] = 0
  BY <1>3
<1> QED BY <1>1, <1>2, <1>3

LEMMA RowUpdates ==
  ASSUME NEW row \in Rows
  PROVE  /\ \A s \in Statuses, b \in BOOLEAN : [row EXCEPT !.status = s, !.deducted = b] \in Rows
         /\ \A t \in Trackings : Shipped(row, t) \in Rows
         /\ \A c \in CourierStates : [row EXCEPT !.courier = c] \in Rows
         /\ \A n \in 0..MaxRemittances : [row EXCEPT !.settled = n] \in Rows
  BY DEF Rows, Shipped

\* An update of one column keeps the others.
LEMMA ColumnUpdates ==
  ASSUME NEW row \in Rows
  PROVE  /\ \A c : [row EXCEPT !.courier = c].settled = row.settled
         /\ \A n : [row EXCEPT !.settled = n].courier = row.courier
         /\ \A n : [row EXCEPT !.settled = n].tracking = row.tracking
  BY DEF Rows

LEMMA EndTypes ==
  ASSUME TypeOK, NEW r \in Requests, End(r)
  PROVE  request' \in [Requests -> Requesting]
  BY DEF TypeOK, End, Requesting

LEMMA MovesType ==
  ASSUME TypeOK, NEW o \in Orders, NEW delta \in Int, Moves(o, delta)
  PROVE  stock' \in Nat /\ taken' \in [Orders -> Int]
  BY DEF TypeOK, Moves, InStock

LEMMA ApplyTypes ==
  ASSUME TypeOK, NEW r \in Requests, Saving(r), NEW status \in Statuses, ApplyStatus(r, status)
  PROVE  /\ order' \in [Orders -> Rows \union {Absent, Deleted}]
         /\ stock' \in Nat /\ taken' \in [Orders -> Int]
<1> DEFINE o == request[r].order
           row == request[r].row
<1>1. o \in Orders /\ row \in Rows
  BY SavedRow
<1>2. StockMove(o, row, status) \in Int
  <2>1. lines[o] \in Int
    BY <1>1, LinesNatural
  <2> QED BY <2>1 DEF StockMove
<1>3. stock' \in Nat /\ taken' \in [Orders -> Int]
  BY <1>1, <1>2, MovesType DEF ApplyStatus
<1>4. [row EXCEPT !.status = status, !.deducted = (status = "delivered")] \in Rows
  BY <1>1, RowUpdates
<1> QED BY <1>1, <1>3, <1>4 DEF ApplyStatus, TypeOK

LEMMA ShipmentTypes ==
  ASSUME TypeOK, NEW o \in Orders, NEW row \in Rows, NEW t \in Trackings, SaveShipment(o, row, t)
  PROVE  /\ order' \in [Orders -> Rows \union {Absent, Deleted}]
         /\ corrected' \in [Orders -> BOOLEAN]
<1>1. Shipped(row, t) \in Rows
  BY RowUpdates
<1>2. order' \in [Orders -> Rows \union {Absent, Deleted}]
  BY <1>1 DEF SaveShipment, TypeOK
<1>3. corrected' \in [Orders -> BOOLEAN]
  BY DEF SaveShipment, TypeOK
<1> QED BY <1>2, <1>3

LEMMA TypeOutside ==
  ASSUME TypeOK,
         \/ \E o \in Orders, t \in Trackings, q \in Quantities : Create(o, t, q)
         \/ \E n \in 1..MaxRemittances : RemovePayment(n)
         \/ \E t \in Trackings, state \in CourierStates : ParcelMoves(t, state)
         \/ \E n \in 0..MaxStock : CountStock(n)
  PROVE  TypeOK'
<1>1. ASSUME NEW o \in Orders, NEW t \in Trackings, NEW q \in Quantities, Create(o, t, q)
      PROVE  TypeOK'
  <2>1. NewRow(t) \in Rows
    BY DEF NewRow, Rows, Statuses, Open
  <2> QED BY <1>1, <2>1 DEF Create, TypeOK, history
<1>2. ASSUME NEW n \in 1..MaxRemittances, RemovePayment(n)
      PROVE  TypeOK'
  <2>1. order' \in [Orders -> Rows \union {Absent, Deleted}]
    <3>1. \A o \in Orders : Exists(o) => [order[o] EXCEPT !.settled = 0] \in Rows
      <4>1. 0 \in 0..MaxRemittances
        OBVIOUS
      <4> QED BY <4>1, RowUpdates DEF Exists
    <3> QED BY <1>2, <3>1 DEF RemovePayment, TypeOK
  <2>2. /\ remitted' \in Seq(SUBSET Orders) /\ DOMAIN remitted' = DOMAIN remitted
        /\ undone' \subseteq DOMAIN remitted
    BY <1>2 DEF RemovePayment, TypeOK
  <2>3. begun' \in 0..MaxRequests
    BY <1>2 DEF RemovePayment, TypeOK
  <2> QED BY <1>2, <2>1, <2>2, <2>3 DEF RemovePayment, TypeOK, history
<1>3. ASSUME NEW t \in Trackings, NEW state \in CourierStates, ParcelMoves(t, state)
      PROVE  TypeOK'
  BY <1>3 DEF ParcelMoves, TypeOK, tables
<1>4. ASSUME NEW n \in 0..MaxStock, CountStock(n)
      PROVE  TypeOK'
  BY <1>4 DEF CountStock, TypeOK, history
<1> QED BY <1>1, <1>2, <1>3, <1>4

LEMMA TypeStaff ==
  ASSUME TypeOK, NEW r \in Requests, Staff(r)
  PROVE  TypeOK'
<1>1. ASSUME NEW o \in Orders, NEW job \in {"status", "edit", "delete"}, ReadOrder(r, o, job)
      PROVE  TypeOK'
  <2>1. [pc |-> "saving", job |-> job, order |-> o, row |-> order[o]] \in Requesting
    BY <1>1 DEF ReadOrder, Exists, Requesting
  <2> QED BY <1>1, <2>1 DEF ReadOrder, Begin, TypeOK, tables, history
<1>2. ASSUME NEW status \in Statuses, SetStatus(r, status)
      PROVE  TypeOK'
  <2>1. CASE ApplyStatus(r, status)
    <3>1. corrected' \in [Orders -> BOOLEAN]
      BY <1>2, <2>1 DEF SetStatus, TypeOK, KeepStatus
    <3> QED BY <1>2, <2>1, <3>1, ApplyTypes, EndTypes DEF SetStatus, ApplyStatus, TypeOK
  <2>2. CASE KeepStatus(r, status) /\ UNCHANGED corrected
    BY <1>2, <2>2, EndTypes DEF SetStatus, KeepStatus, TypeOK, tables
  <2> QED BY <1>2, <2>1, <2>2 DEF SetStatus
<1>3. ASSUME NEW t \in Trackings, SetTracking(r, t)
      PROVE  TypeOK'
  BY <1>3, SavedRow, ShipmentTypes, EndTypes DEF SetTracking, TypeOK
<1>4. ASSUME NEW t \in Trackings, NEW q \in Quantities, UpdateOrder(r, t, q)
      PROVE  TypeOK'
  <2> DEFINE o == request[r].order
             row == request[r].row
  <2>1. o \in Orders /\ row \in Rows
    BY <1>4, SavedRow DEF UpdateOrder
  <2>2. EditMove(o, row, q) \in Int
    <3>1. lines[o] \in Int /\ q \in Int
      BY <2>1, LinesNatural
    <3> QED BY <3>1 DEF EditMove
  <2>3. stock' \in Nat /\ taken' \in [Orders -> Int]
    BY <1>4, <2>1, <2>2, MovesType DEF UpdateOrder
  <2> QED BY <1>4, <2>1, <2>3, ShipmentTypes, EndTypes DEF UpdateOrder, TypeOK
<1>5. ASSUME DeleteOrder(r)
      PROVE  TypeOK'
  <2> DEFINE o == request[r].order
             back == IF request[r].row.deducted THEN lines[o] ELSE 0
  <2>1. o \in Orders
    BY <1>5, SavedRow DEF DeleteOrder
  <2>2. back \in Int
    BY <2>1, LinesNatural
  <2>3. stock' \in Nat /\ taken' \in [Orders -> Int]
    BY <1>5, <2>1, <2>2, MovesType DEF DeleteOrder
  <2>4. remitted' \in Seq(SUBSET Orders) /\ DOMAIN remitted' = DOMAIN remitted
    <3>1. DOMAIN remitted = 1..Len(remitted) /\ Len(remitted) \in Nat
      BY DEF TypeOK
    <3>2. \A n \in DOMAIN remitted : remitted[n] \ {o} \in SUBSET Orders
      BY DEF TypeOK
    <3>3. remitted' = [n \in 1..Len(remitted) |-> remitted[n] \ {o}]
      BY <1>5, <3>1 DEF DeleteOrder
    <3> QED BY <3>1, <3>2, <3>3
  <2> QED BY <1>5, <2>1, <2>3, <2>4, EndTypes DEF DeleteOrder, TypeOK
<1>6. ASSUME NEW S \in SUBSET Orders, CheckStatement(r, S)
      PROVE  TypeOK'
  <2>1. [pc |-> "recording", job |-> "record",
         orders |-> {o \in S : Exists(o) /\ order[o].settled = 0}] \in Requesting
    BY DEF Requesting
  <2> QED BY <1>6, <2>1 DEF CheckStatement, Begin, TypeOK, tables, history
<1>7. ASSUME RecordPayment(r)
      PROVE  TypeOK'
  <2> DEFINE applied == StillUnsettled(request[r].orders)
             n == Len(remitted) + 1
  <2>1. request[r].orders \subseteq Orders
    BY <1>7, RecordedOrders DEF RecordPayment
  <2>2. applied \in SUBSET Orders /\ \A o \in applied : order[o] \in Rows
    BY <1>7, <2>1 DEF RecordPayment, StillUnsettled, Exists
  <2>3. n \in 0..MaxRemittances
    BY <1>7 DEF RecordPayment, TypeOK
  <2>4. \A o \in applied : [order[o] EXCEPT !.settled = n] \in Rows
    BY <2>2, <2>3, RowUpdates
  <2>5. order' \in [Orders -> Rows \union {Absent, Deleted}]
    BY <1>7, <2>2, <2>4 DEF RecordPayment, TypeOK
  <2>6. remitted' \in Seq(SUBSET Orders) /\ undone' \subseteq DOMAIN remitted'
    BY <1>7, <2>2 DEF RecordPayment, TypeOK
  <2> QED BY <1>7, <2>5, <2>6, EndTypes DEF RecordPayment, TypeOK, history
<1> QED BY <1>1, <1>2, <1>3, <1>4, <1>5, <1>6, <1>7 DEF Staff

LEMMA TypeSync ==
  ASSUME TypeOK, NEW r \in Requests, Sync(r) \/ Abandon(r)
  PROVE  TypeOK'
<1>1. ASSUME NEW o \in Orders, AskCourier(r, o)
      PROVE  TypeOK'
  <2>1. [pc |-> "asking", job |-> "sync", order |-> o, row |-> order[o]] \in Requesting
    BY <1>1 DEF AskCourier, Exists, Requesting
  <2> QED BY <1>1, <2>1 DEF AskCourier, Begin, TypeOK, tables, history
<1>2. ASSUME CourierAnswers(r)
      PROVE  TypeOK'
  <2> DEFINE row == request[r].row
             state == parcel[row.tracking]
             status == CourierDecision(row.status, state)
  <2>1. request[r] \in [pc: {"asking"}, job: {"sync"}, order: Orders, row: Rows]
    BY <1>2 DEF CourierAnswers, TypeOK, Requesting, Idle
  <2>2. row.status \in Statuses /\ row.tracking \in Trackings
    BY <2>1 DEF Rows
  <2>3. state \in CourierStates
    BY <2>2 DEF TypeOK
  <2>4. status \in Statuses
    BY <2>2 DEF CourierDecision, Statuses, Open
  <2>5. \A pc \in {"moving", "stamping"} :
          [pc |-> pc, job |-> "sync", order |-> request[r].order,
           state |-> state, status |-> status] \in Requesting
    BY <2>1, <2>3, <2>4 DEF Requesting
  <2>6. request' \in [Requests -> Requesting]
    BY <1>2, <2>5 DEF CourierAnswers, TypeOK, Requesting
  <2> QED BY <1>2, <2>6 DEF CourierAnswers, TypeOK, tables, history
<1>3. ASSUME SyncReads(r)
      PROVE  TypeOK'
  <2> DEFINE o == request[r].order
  <2>1. request[r] \in [pc: {"moving", "stamping"}, job: {"sync"}, order: Orders,
                        state: CourierStates, status: Statuses]
    BY <1>3, SyncedOrder DEF SyncReads
  <2>2. [pc |-> "saving", job |-> "sync", order |-> o, row |-> order[o],
         state |-> request[r].state, status |-> request[r].status] \in Requesting
    BY <1>3, <2>1 DEF SyncReads, Exists, Requesting
  <2> QED BY <1>3, <2>2 DEF SyncReads, TypeOK, tables, history
<1>4. ASSUME SyncSaves(r)
      PROVE  TypeOK'
  <2>1. /\ request[r].order \in Orders /\ request[r].status \in Statuses
        /\ request[r].state \in CourierStates
    BY <1>4, SavedRow DEF SyncSaves
  <2>2. [pc |-> "stamping", job |-> "sync", order |-> request[r].order,
         state |-> request[r].state, status |-> request[r].status] \in Requesting
    BY <2>1 DEF Requesting
  <2>3. request' \in [Requests -> Requesting]
    BY <1>4, <2>2 DEF SyncSaves, TypeOK
  <2>4. CASE ApplyStatus(r, request[r].status)
    BY <1>4, <2>1, <2>3, <2>4, ApplyTypes DEF SyncSaves, ApplyStatus, TypeOK
  <2>5. CASE KeepStatus(r, request[r].status)
    BY <1>4, <2>3, <2>5 DEF SyncSaves, KeepStatus, TypeOK, tables
  <2> QED BY <1>4, <2>4, <2>5 DEF SyncSaves
<1>5. ASSUME Stamp(r)
      PROVE  TypeOK'
  <2> DEFINE o == request[r].order
  <2>1. request[r] \in [pc: {"moving", "stamping"}, job: {"sync"}, order: Orders,
                        state: CourierStates, status: Statuses]
    BY <1>5, SyncedOrder DEF Stamp
  <2>2. Exists(o) => [order[o] EXCEPT !.courier = request[r].state] \in Rows
    BY <2>1, RowUpdates DEF Exists
  <2>3. order' \in [Orders -> Rows \union {Absent, Deleted}]
    BY <1>5, <2>1, <2>2 DEF Stamp, TypeOK
  <2> QED BY <1>5, <2>3, EndTypes DEF Stamp, TypeOK, history
<1>6. ASSUME Abandon(r)
      PROVE  TypeOK'
  BY <1>6, EndTypes DEF Abandon, TypeOK, tables, history
<1> QED BY <1>1, <1>2, <1>3, <1>4, <1>5, <1>6 DEF Sync

LEMMA TypeStep == TypeOK /\ [Next]_vars => TypeOK'
<1> SUFFICES ASSUME TypeOK, [Next]_vars PROVE TypeOK'
  OBVIOUS
<1>1. ASSUME NEW r \in Requests, Staff(r) \/ Sync(r) \/ Abandon(r)
      PROVE  TypeOK'
  BY <1>1, TypeStaff, TypeSync
<1>2. CASE UNCHANGED vars
  BY <1>2 DEF vars, tables, history, TypeOK
<1> QED BY <1>1, <1>2, TypeOutside DEF Next

\* Every variable keeps its type, and stock never falls below zero: an item's
\* last pieces are not sold twice, whatever requests overlap.
THEOREM OrdersTypeCorrect == Spec => []TypeOK
  BY TypeInit, TypeStep, PTL DEF Spec

-----------------------------------------------------------------------------
(* Saves that do not overlap.                                              *)

\* What a request is about to save is what the database has.
FreshRows == \A r \in Requests : Saving(r) => order[request[r].order] = request[r].row

\* No two requests are about to save one order.
OneSaver ==
  \A r, s \in Requests :
    Saving(r) /\ Saving(s) /\ request[r].order = request[s].order => r = s

\* An order is settled by a payment that was recorded.
SettledKnown ==
  \A o \in Orders : Exists(o) => order[o].settled = 0 \/ order[o].settled \in DOMAIN remitted

\* A sync in flight on an order.
SyncOn(r, o) == request[r] # Idle /\ request[r].job = "sync" /\ request[r].order = o

\* A corrected order carries its parcel's state; a sync that looks at it has
\* read it so, and has no answer yet.
CorrectedAtRest ==
  \A o \in Orders : corrected[o] =>
    /\ Exists(o) /\ order[o].courier = parcel[order[o].tracking]
    /\ \A r \in Requests :
         SyncOn(r, o) =>
           /\ request[r].pc = "asking"
           /\ request[r].row.tracking = order[o].tracking
           /\ request[r].row.courier = order[o].courier

SaveInv == TypeOK /\ FreshRows /\ OneSaver

LEMMA NotRows == Absent \notin Rows /\ Deleted \notin Rows
  BY DEF Absent, Deleted, Rows, Statuses, Open

LEMMA SaveInit == Init => SaveInv
  BY TypeInit DEF SaveInv, Init, FreshRows, OneSaver, Saving, Idle

\* A request moves on and writes orders that no other is about to save.
LEMMA OthersKeep ==
  ASSUME SaveInv, NEW r \in Requests, NEW W \in SUBSET Orders,
         \A s \in Requests \ {r} : request'[s] = request[s],
         \A o \in Orders \ W : order'[o] = order[o],
         \A s \in Requests \ {r} : Saving(s) => request[s].order \notin W,
         request'[r].pc = "saving" =>
           /\ request'[r].row = order'[request'[r].order]
           /\ \A s \in Requests \ {r} : Saving(s) => request[s].order # request'[r].order
  PROVE  FreshRows' /\ OneSaver'
<1>1. \A s \in Requests \ {r} : Saving(s)' <=> Saving(s)
  BY DEF Saving
<1>2. FreshRows'
  <2> SUFFICES ASSUME NEW s \in Requests, Saving(s)'
               PROVE  (order[request[s].order] = request[s].row)'
    BY DEF FreshRows
  <2>1. CASE s = r
    BY <2>1 DEF Saving
  <2>2. CASE s # r
    <3>1. Saving(s) /\ request'[s] = request[s] /\ request[s].order \in Orders \ W
      BY <1>1, <2>2, SavedRow DEF SaveInv
    <3> QED BY <3>1 DEF SaveInv, FreshRows
  <2> QED BY <2>1, <2>2
<1>3. OneSaver'
  BY <1>1 DEF OneSaver, SaveInv, Saving
<1> QED BY <1>2, <1>3

\* Who saves an order is alone with it.
LEMMA SaverAlone ==
  ASSUME SaveInv, NEW r \in Requests, Saving(r)
  PROVE  \A s \in Requests \ {r} : Saving(s) => request[s].order \notin {request[r].order}
  BY DEF SaveInv, OneSaver

\* A request that ends, and writes nothing but the order it was saving.
LEMMA SaverEnds ==
  ASSUME SaveInv, NEW r \in Requests, Saving(r),
         \A o \in Orders \ {request[r].order} : order'[o] = order[o],
         \A s \in Requests \ {r} : request'[s] = request[s],
         request'[r].pc # "saving"
  PROVE  FreshRows' /\ OneSaver'
<1> DEFINE W == {request[r].order}
<1>1. W \in SUBSET Orders
  BY SavedRow DEF SaveInv
<1>2. \A s \in Requests \ {r} : Saving(s) => request[s].order \notin W
  BY SaverAlone
<1>3. \A o \in Orders \ W : order'[o] = order[o]
  OBVIOUS
<1> HIDE DEF W
<1> QED BY <1>1, <1>2, <1>3, OthersKeep

\* A request that only reads.
LEMMA ReaderKeeps ==
  ASSUME SaveInv, NEW r \in Requests, order' = order,
         \A s \in Requests \ {r} : request'[s] = request[s],
         request'[r].pc = "saving" =>
           /\ request'[r].row = order[request'[r].order]
           /\ \A s \in Requests \ {r} : Saving(s) => request[s].order # request'[r].order
  PROVE  FreshRows' /\ OneSaver'
<1> DEFINE W == {}
<1>1. W \in SUBSET Orders
  OBVIOUS
<1>2. \A s \in Requests \ {r} : Saving(s) => request[s].order \notin W
  OBVIOUS
<1>3. \A o \in Orders \ W : order'[o] = order[o]
  OBVIOUS
<1> HIDE DEF W
<1> QED BY <1>1, <1>2, <1>3, OthersKeep

LEMMA EndLocals ==
  ASSUME TypeOK, NEW r \in Requests, End(r)
  PROVE  /\ \A s \in Requests \ {r} : request'[s] = request[s]
         /\ request'[r] = Idle /\ request'[r].pc # "saving"
  BY DEF End, TypeOK, Idle

LEMMA FreeMeans ==
  ASSUME ~MayOverlap, NEW o \in Orders, Free(o)
  PROVE  \A s \in Requests : Saving(s) => request[s].order # o
  BY DEF Free

LEMMA SaveOutside ==
  ASSUME ~MayOverlap, SaveInv,
         \/ \E o \in Orders, t \in Trackings, q \in Quantities : Create(o, t, q)
         \/ \E n \in 1..MaxRemittances : RemovePayment(n)
         \/ \E t \in Trackings, state \in CourierStates : ParcelMoves(t, state)
         \/ \E n \in 0..MaxStock : CountStock(n)
  PROVE  FreshRows' /\ OneSaver'
<1>1. request' = request
  BY DEF Create, RemovePayment, ParcelMoves, CountStock
<1>2. ASSUME NEW s \in Requests, Saving(s)
      PROVE  order'[request[s].order] = order[request[s].order]
  <2> DEFINE p == request[s].order
  <2>1. p \in Orders /\ order[p] \in Rows
    BY <1>2, SavedRow DEF SaveInv, FreshRows
  <2>2. ASSUME NEW o \in Orders, NEW t \in Trackings, NEW q \in Quantities, Create(o, t, q)
        PROVE  order'[p] = order[p]
    BY <2>1, <2>2, NotRows DEF Create, SaveInv, TypeOK
  <2>3. ASSUME NEW n \in 1..MaxRemittances, RemovePayment(n)
        PROVE  order'[p] = order[p]
    BY <1>2, <2>1, <2>3 DEF RemovePayment, Free
  <2> QED BY <2>2, <2>3 DEF ParcelMoves, CountStock, tables
<1> QED BY <1>1, <1>2 DEF SaveInv, FreshRows, OneSaver, Saving

LEMMA SaveStaff ==
  ASSUME ~MayOverlap, SaveInv, NEW r \in Requests, Staff(r)
  PROVE  FreshRows' /\ OneSaver'
<1>0. TypeOK
  BY DEF SaveInv
<1>1. ASSUME NEW o \in Orders, NEW job \in {"status", "edit", "delete"}, ReadOrder(r, o, job)
      PROVE  FreshRows' /\ OneSaver'
  <2>1. order' = order /\ request' = [request EXCEPT ![r] =
          [pc |-> "saving", job |-> job, order |-> o, row |-> order[o]]]
    BY <1>1 DEF ReadOrder, Begin, tables
  <2>2. \A s \in Requests : Saving(s) => request[s].order # o
    BY <1>1, FreeMeans DEF ReadOrder
  <2>3. /\ \A s \in Requests \ {r} : request'[s] = request[s]
        /\ request'[r] = [pc |-> "saving", job |-> job, order |-> o, row |-> order[o]]
    BY <1>0, <2>1 DEF TypeOK
  <2> QED BY <2>1, <2>2, <2>3, ReaderKeeps
<1>2. ASSUME NEW status \in Statuses, SetStatus(r, status)
      PROVE  FreshRows' /\ OneSaver'
  <2>1. \A o \in Orders \ {request[r].order} : order'[o] = order[o]
    BY <1>0, <1>2 DEF SetStatus, ApplyStatus, KeepStatus, tables, TypeOK
  <2> QED BY <1>0, <1>2, <2>1, EndLocals, SaverEnds DEF SetStatus
<1>3. ASSUME NEW t \in Trackings, SetTracking(r, t) \/ \E q \in Quantities : UpdateOrder(r, t, q)
      PROVE  FreshRows' /\ OneSaver'
  <2>1. \A o \in Orders \ {request[r].order} : order'[o] = order[o]
    BY <1>0, <1>3 DEF SetTracking, UpdateOrder, SaveShipment, TypeOK
  <2> QED BY <1>0, <1>3, <2>1, EndLocals, SaverEnds DEF SetTracking, UpdateOrder
<1>4. ASSUME DeleteOrder(r)
      PROVE  FreshRows' /\ OneSaver'
  <2>1. \A o \in Orders \ {request[r].order} : order'[o] = order[o]
    BY <1>0, <1>4 DEF DeleteOrder, TypeOK
  <2> QED BY <1>0, <1>4, <2>1, EndLocals, SaverEnds DEF DeleteOrder
<1>5. ASSUME NEW S \in SUBSET Orders, CheckStatement(r, S)
      PROVE  FreshRows' /\ OneSaver'
  <2>1. order' = order /\ request'[r].pc = "recording"
    BY <1>0, <1>5 DEF CheckStatement, Begin, tables, TypeOK
  <2>2. \A s \in Requests \ {r} : request'[s] = request[s]
    BY <1>0, <1>5 DEF CheckStatement, Begin, TypeOK
  <2> QED BY <2>1, <2>2, ReaderKeeps
<1>6. ASSUME RecordPayment(r)
      PROVE  FreshRows' /\ OneSaver'
  <2> DEFINE W == StillUnsettled(request[r].orders)
  <2>1. W \in SUBSET Orders
    BY <1>6, RecordedOrders DEF RecordPayment, StillUnsettled, SaveInv
  <2>2. \A o \in Orders \ W : order'[o] = order[o]
    BY <1>6 DEF RecordPayment
  <2>3. \A s \in Requests \ {r} : Saving(s) => request[s].order \notin W
    BY <1>6, <2>1, FreeMeans DEF RecordPayment, StillUnsettled
  <2>4. /\ \A s \in Requests \ {r} : request'[s] = request[s]
        /\ request'[r].pc # "saving"
    BY <1>0, <1>6, EndLocals DEF RecordPayment
  <2> QED BY <2>1, <2>2, <2>3, <2>4, OthersKeep
<1> QED BY <1>1, <1>2, <1>3, <1>4, <1>5, <1>6 DEF Staff

LEMMA SaveSync ==
  ASSUME ~MayOverlap, SaveInv, NEW r \in Requests, Sync(r) \/ Abandon(r)
  PROVE  FreshRows' /\ OneSaver'
<1>0. TypeOK
  BY DEF SaveInv
<1>1. ASSUME \/ \E o \in Orders : AskCourier(r, o)
             \/ CourierAnswers(r) \/ Abandon(r)
      PROVE  FreshRows' /\ OneSaver'
  <2>1. order' = order /\ request'[r].pc # "saving"
    BY <1>0, <1>1 DEF AskCourier, Begin, CourierAnswers, Abandon, End, tables, TypeOK, Idle
  <2>2. \A s \in Requests \ {r} : request'[s] = request[s]
    BY <1>0, <1>1 DEF AskCourier, Begin, CourierAnswers, Abandon, End, TypeOK
  <2> QED BY <2>1, <2>2, ReaderKeeps
<1>2. ASSUME SyncReads(r)
      PROVE  FreshRows' /\ OneSaver'
  <2> DEFINE o == request[r].order
  <2>1. o \in Orders
    BY <1>2, SyncedOrder DEF SyncReads, SaveInv
  <2>2. \A s \in Requests : Saving(s) => request[s].order # o
    BY <1>2, <2>1, FreeMeans DEF SyncReads
  <2>3. /\ \A s \in Requests \ {r} : request'[s] = request[s]
        /\ request'[r].order = o /\ request'[r].row = order[o] /\ order' = order
    BY <1>0, <1>2 DEF SyncReads, TypeOK, tables
  <2> QED BY <2>1, <2>2, <2>3, ReaderKeeps
<1>3. ASSUME SyncSaves(r)
      PROVE  FreshRows' /\ OneSaver'
  <2>1. \A o \in Orders \ {request[r].order} : order'[o] = order[o]
    BY <1>0, <1>3 DEF SyncSaves, ApplyStatus, KeepStatus, tables, TypeOK
  <2>2. /\ \A s \in Requests \ {r} : request'[s] = request[s]
        /\ request'[r].pc # "saving" /\ Saving(r)
    BY <1>0, <1>3 DEF SyncSaves, TypeOK
  <2> QED BY <2>1, <2>2, SaverEnds
<1>4. ASSUME Stamp(r)
      PROVE  FreshRows' /\ OneSaver'
  <2>1. request[r].order \in Orders
    BY <1>4, SyncedOrder DEF Stamp, SaveInv
  <2>2. \A s \in Requests : Saving(s) => request[s].order # request[r].order
    BY <1>4, <2>1, FreeMeans DEF Stamp
  <2>3. \A o \in Orders \ {request[r].order} : order'[o] = order[o]
    BY <1>0, <1>4 DEF Stamp, TypeOK
  <2>4. /\ \A s \in Requests \ {r} : request'[s] = request[s]
        /\ request'[r].pc # "saving"
    BY <1>0, <1>4, EndLocals DEF Stamp
  <2>5. \A s \in Requests \ {r} : Saving(s) => request[s].order \notin {request[r].order}
    BY <2>2
  <2>6. {request[r].order} \in SUBSET Orders
    BY <2>1
  <2> QED BY <2>3, <2>4, <2>5, <2>6, OthersKeep
<1> QED BY <1>1, <1>2, <1>3, <1>4 DEF Sync

LEMMA SaveStep ==
  ASSUME ~MayOverlap, SaveInv, [Next]_vars
  PROVE  SaveInv'
<1>1. TypeOK'
  BY TypeStep DEF SaveInv
<1>2. CASE UNCHANGED vars
  BY <1>1, <1>2 DEF vars, tables, SaveInv, FreshRows, OneSaver, Saving
<1>3. ASSUME NEW r \in Requests, Staff(r) \/ Sync(r) \/ Abandon(r)
      PROVE  FreshRows' /\ OneSaver'
  BY <1>3, SaveStaff, SaveSync
<1> QED BY <1>1, <1>2, <1>3, SaveOutside DEF Next, SaveInv

-----------------------------------------------------------------------------
(* Stock.                                                                  *)

\* A step that leaves statuses, lines and the stock moved out as they are.
LEMMA StockUnmoved ==
  ASSUME StockOutWhileDelivered, lines' = lines, taken' = taken,
         \A o \in Orders : order'[o].status = order[o].status,
         \A o \in Orders : Exists(o)' => Exists(o) /\ order'[o].deducted = order[o].deducted
  PROVE  StockOutWhileDelivered'
  BY DEF StockOutWhileDelivered

\* A step that writes one order, its lines and what it has taken out.
LEMMA StockOfOne ==
  ASSUME SaveInv, StockOutWhileDelivered, NEW p \in Orders,
         \A o \in Orders \ {p} :
           order'[o] = order[o] /\ lines'[o] = lines[o] /\ taken'[o] = taken[o],
         taken'[p] = IF order'[p].status = "delivered" THEN lines'[p] ELSE 0,
         order'[p] \in Rows => (order'[p].deducted <=> order'[p].status = "delivered")
  PROVE  StockOutWhileDelivered'
<1>1. order'[p] \in Rows => order'[p].deducted = (order'[p].status = "delivered")
  BY DEF Rows
<1> QED BY <1>1 DEF StockOutWhileDelivered, Exists

\* The saver's row, and what the order has taken out.
LEMMA SaverStock ==
  ASSUME SaveInv, StockOutWhileDelivered, NEW r \in Requests, Saving(r)
  PROVE  LET o == request[r].order
             row == request[r].row
         IN  /\ o \in Orders /\ row \in Rows /\ order[o] = row
             /\ row.deducted <=> row.status = "delivered"
             /\ taken[o] = IF row.status = "delivered" THEN lines[o] ELSE 0
             /\ lines[o] \in Nat
<1> DEFINE o == request[r].order
           row == request[r].row
<1>1. o \in Orders /\ row \in Rows /\ order[o] = row
  BY SavedRow DEF SaveInv, FreshRows
<1>2. lines[o] \in Nat
  BY <1>1, LinesNatural DEF SaveInv
<1> QED BY <1>1, <1>2 DEF StockOutWhileDelivered, Exists

LEMMA ApplyStock ==
  ASSUME SaveInv, StockOutWhileDelivered, NEW r \in Requests, Saving(r),
         NEW status \in Statuses, ApplyStatus(r, status)
  PROVE  StockOutWhileDelivered'
<1> DEFINE o == request[r].order
           row == request[r].row
<1>1. /\ o \in Orders /\ row \in Rows /\ order[o] = row /\ lines[o] \in Nat
      /\ row.deducted <=> row.status = "delivered"
      /\ taken[o] = IF row.status = "delivered" THEN lines[o] ELSE 0
  BY SaverStock
<1>2. /\ order' = [order EXCEPT ![o] =
            [row EXCEPT !.status = status, !.deducted = (status = "delivered")]]
      /\ taken' = [taken EXCEPT ![o] = @ - StockMove(o, row, status)]
      /\ lines' = lines
  BY DEF ApplyStatus, Moves
<1>3. order'[o].status = status /\ (order'[o].deducted <=> status = "delivered")
  BY <1>1, <1>2 DEF SaveInv, TypeOK, Rows
<1>4. taken'[o] = taken[o] - StockMove(o, row, status)
  BY <1>1, <1>2 DEF SaveInv, TypeOK
<1>5. taken'[o] = IF status = "delivered" THEN lines[o] ELSE 0
  BY <1>1, <1>4 DEF StockMove
<1>6. \A p \in Orders \ {o} :
        order'[p] = order[p] /\ lines'[p] = lines[p] /\ taken'[p] = taken[p]
  BY <1>2 DEF SaveInv, TypeOK
<1> QED BY <1>1, <1>2, <1>3, <1>5, <1>6, StockOfOne

LEMMA StockOutside ==
  ASSUME SaveInv, StockOutWhileDelivered,
         \/ \E o \in Orders, t \in Trackings, q \in Quantities : Create(o, t, q)
         \/ \E n \in 1..MaxRemittances : RemovePayment(n)
         \/ \E t \in Trackings, state \in CourierStates : ParcelMoves(t, state)
         \/ \E n \in 0..MaxStock : CountStock(n)
  PROVE  StockOutWhileDelivered'
<1>1. ASSUME NEW o \in Orders, NEW t \in Trackings, NEW q \in Quantities, Create(o, t, q)
      PROVE  StockOutWhileDelivered'
  <2>1. order[o] = Absent /\ order'[o] = NewRow(t) /\ taken' = taken
    BY <1>1 DEF Create, SaveInv, TypeOK, history
  <2>2. taken[o] = 0
    BY <2>1 DEF StockOutWhileDelivered, Absent
  <2>3. order'[o].status = "pending" /\ order'[o].deducted = FALSE
    BY <2>1 DEF NewRow
  <2>4. \A p \in Orders \ {o} :
          order'[p] = order[p] /\ lines'[p] = lines[p] /\ taken'[p] = taken[p]
    BY <1>1, <2>1 DEF Create, SaveInv, TypeOK
  <2> QED BY <2>1, <2>2, <2>3, <2>4, StockOfOne
<1>2. ASSUME NEW n \in 1..MaxRemittances, RemovePayment(n)
      PROVE  StockOutWhileDelivered'
  <2>1. ASSUME NEW o \in Orders
        PROVE  /\ order'[o].status = order[o].status
               /\ Exists(o)' => Exists(o) /\ order'[o].deducted = order[o].deducted
    <3>1. CASE Exists(o) /\ order[o].settled = n
      <4>1. order'[o] = [order[o] EXCEPT !.settled = 0]
        BY <1>2, <3>1 DEF RemovePayment
      <4> QED BY <3>1, <4>1 DEF Exists, Rows
    <3>2. CASE ~(Exists(o) /\ order[o].settled = n)
      <4>1. order'[o] = order[o]
        BY <1>2, <3>2 DEF RemovePayment
      <4> QED BY <4>1 DEF Exists
    <3> QED BY <3>1, <3>2
  <2> QED BY <1>2, <2>1, StockUnmoved DEF RemovePayment, history
<1>3. ASSUME NEW t \in Trackings, NEW state \in CourierStates, ParcelMoves(t, state)
      PROVE  StockOutWhileDelivered'
  BY <1>3, StockUnmoved DEF ParcelMoves, tables, Exists
<1>4. ASSUME NEW n \in 0..MaxStock, CountStock(n)
      PROVE  StockOutWhileDelivered'
  BY <1>4, StockUnmoved DEF CountStock, history, Exists
<1> QED BY <1>1, <1>2, <1>3, <1>4

LEMMA StockStaff ==
  ASSUME SaveInv, StockOutWhileDelivered, NEW r \in Requests, Staff(r)
  PROVE  StockOutWhileDelivered'
<1> DEFINE o == request[r].order
           row == request[r].row
<1>1. ASSUME \/ \E p \in Orders, job \in {"status", "edit", "delete"} : ReadOrder(r, p, job)
             \/ \E S \in SUBSET Orders : CheckStatement(r, S)
      PROVE  StockOutWhileDelivered'
  BY <1>1, StockUnmoved DEF ReadOrder, CheckStatement, Begin, tables, history, Exists
<1>2. ASSUME NEW status \in Statuses, SetStatus(r, status)
      PROVE  StockOutWhileDelivered'
  <2>1. CASE ApplyStatus(r, status)
    BY <1>2, <2>1, ApplyStock DEF SetStatus
  <2>2. CASE KeepStatus(r, status)
    BY <2>2, StockUnmoved DEF KeepStatus, tables, Exists
  <2> QED BY <1>2, <2>1, <2>2 DEF SetStatus
<1>3. ASSUME NEW t \in Trackings, SetTracking(r, t) \/ \E q \in Quantities : UpdateOrder(r, t, q)
      PROVE  StockOutWhileDelivered'
  <2>1. /\ o \in Orders /\ row \in Rows /\ order[o] = row /\ lines[o] \in Nat
        /\ row.deducted <=> row.status = "delivered"
        /\ taken[o] = IF row.status = "delivered" THEN lines[o] ELSE 0
    BY <1>3, SaverStock DEF SetTracking, UpdateOrder
  <2>2. order' = [order EXCEPT ![o] = Shipped(row, t)]
    BY <1>3 DEF SetTracking, UpdateOrder, SaveShipment
  <2>3. order'[o].status = row.status /\ order'[o].deducted = row.deducted
    BY <2>1, <2>2 DEF Shipped, Rows, SaveInv, TypeOK
  <2>4. \A p \in Orders \ {o} : order'[p] = order[p]
    BY <2>2 DEF SaveInv, TypeOK
  <2>5. CASE SetTracking(r, t)
    BY <2>1, <2>3, <2>4, <2>5, StockOfOne DEF SetTracking
  <2>6. ASSUME NEW q \in Quantities, UpdateOrder(r, t, q)
        PROVE  StockOutWhileDelivered'
    <3>1. /\ lines' = [lines EXCEPT ![o] = q]
          /\ taken' = [taken EXCEPT ![o] = @ - EditMove(o, row, q)]
      BY <2>6 DEF UpdateOrder, Moves
    <3>2. q \in Nat
      OBVIOUS
    <3>3. lines'[o] = q /\ taken'[o] = taken[o] - EditMove(o, row, q)
      BY <2>1, <3>1 DEF SaveInv, TypeOK
    <3>4. taken'[o] = IF row.status = "delivered" THEN lines'[o] ELSE 0
      BY <2>1, <3>2, <3>3 DEF EditMove
    <3>5. \A p \in Orders \ {o} : lines'[p] = lines[p] /\ taken'[p] = taken[p]
      BY <3>1 DEF SaveInv, TypeOK
    <3> QED BY <2>1, <2>3, <2>4, <3>4, <3>5, StockOfOne
  <2> QED BY <1>3, <2>5, <2>6
<1>4. ASSUME DeleteOrder(r)
      PROVE  StockOutWhileDelivered'
  <2>1. /\ o \in Orders /\ row \in Rows /\ lines[o] \in Nat
        /\ row.deducted <=> row.status = "delivered"
        /\ taken[o] = IF row.status = "delivered" THEN lines[o] ELSE 0
    BY <1>4, SaverStock DEF DeleteOrder
  <2>2. /\ order' = [order EXCEPT ![o] = Deleted] /\ lines' = [lines EXCEPT ![o] = 0]
        /\ taken' = [taken EXCEPT ![o] = @ - (IF row.deducted THEN lines[o] ELSE 0)]
    BY <1>4 DEF DeleteOrder, Moves
  <2>3. /\ order'[o] = Deleted
        /\ taken'[o] = taken[o] - (IF row.deducted THEN lines[o] ELSE 0)
    BY <2>1, <2>2 DEF SaveInv, TypeOK
  <2>4. taken'[o] = 0
    BY <2>1, <2>3
  <2>5. order'[o].status # "delivered"
    BY <2>3 DEF Deleted
  <2>6. order'[o] \notin Rows
    BY <2>3, NotRows
  <2>7. \A p \in Orders \ {o} :
          order'[p] = order[p] /\ lines'[p] = lines[p] /\ taken'[p] = taken[p]
    BY <2>2 DEF SaveInv, TypeOK
  <2> QED BY <2>1, <2>2, <2>4, <2>5, <2>6, <2>7, StockOfOne
<1>5. ASSUME RecordPayment(r)
      PROVE  StockOutWhileDelivered'
  <2>1. ASSUME NEW p \in Orders
        PROVE  /\ order'[p].status = order[p].status
               /\ Exists(p)' => Exists(p) /\ order'[p].deducted = order[p].deducted
    <3>1. CASE p \in StillUnsettled(request[r].orders)
      <4>1. order'[p] = [order[p] EXCEPT !.settled = Len(remitted) + 1] /\ Exists(p)
        BY <1>5, <3>1 DEF RecordPayment, StillUnsettled
      <4> QED BY <4>1 DEF Exists, Rows
    <3>2. CASE p \notin StillUnsettled(request[r].orders)
      <4>1. order'[p] = order[p]
        BY <1>5, <3>2 DEF RecordPayment
      <4> QED BY <4>1 DEF Exists
    <3> QED BY <3>1, <3>2
  <2> QED BY <1>5, <2>1, StockUnmoved DEF RecordPayment, history
<1> QED BY <1>1, <1>2, <1>3, <1>4, <1>5 DEF Staff

LEMMA StockSync ==
  ASSUME SaveInv, StockOutWhileDelivered, NEW r \in Requests, Sync(r) \/ Abandon(r)
  PROVE  StockOutWhileDelivered'
<1>1. ASSUME \/ \E o \in Orders : AskCourier(r, o)
             \/ CourierAnswers(r) \/ SyncReads(r) \/ Abandon(r)
      PROVE  StockOutWhileDelivered'
  BY <1>1, StockUnmoved
  DEF AskCourier, Begin, CourierAnswers, SyncReads, Abandon, tables, history, Exists
<1>2. ASSUME SyncSaves(r)
      PROVE  StockOutWhileDelivered'
  <2>1. request[r].status \in Statuses
    BY <1>2, SavedRow DEF SyncSaves, SaveInv
  <2>2. CASE ApplyStatus(r, request[r].status)
    BY <1>2, <2>1, <2>2, ApplyStock DEF SyncSaves
  <2>3. CASE KeepStatus(r, request[r].status)
    BY <2>3, StockUnmoved DEF KeepStatus, tables, Exists
  <2> QED BY <1>2, <2>2, <2>3 DEF SyncSaves
<1>3. ASSUME Stamp(r)
      PROVE  StockOutWhileDelivered'
  <2> DEFINE o == request[r].order
  <2>1. ASSUME NEW p \in Orders
        PROVE  /\ order'[p].status = order[p].status
               /\ Exists(p)' => Exists(p) /\ order'[p].deducted = order[p].deducted
    <3>1. CASE p = o /\ Exists(o)
      <4>1. order'[p] = [order[p] EXCEPT !.courier = request[r].state]
        BY <1>3, <3>1 DEF Stamp, SaveInv, TypeOK
      <4> QED BY <3>1, <4>1 DEF Exists, Rows
    <3>2. CASE ~(p = o /\ Exists(o))
      <4>1. order'[p] = order[p]
        BY <1>3, <3>2 DEF Stamp, SaveInv, TypeOK
      <4> QED BY <4>1 DEF Exists
    <3> QED BY <3>1, <3>2
  <2> QED BY <1>3, <2>1, StockUnmoved DEF Stamp, history
<1> QED BY <1>1, <1>2, <1>3 DEF Sync

LEMMA StockStep ==
  ASSUME SaveInv, StockOutWhileDelivered, [Next]_vars
  PROVE  StockOutWhileDelivered'
<1>1. ASSUME NEW r \in Requests, Staff(r) \/ Sync(r) \/ Abandon(r)
      PROVE  StockOutWhileDelivered'
  BY <1>1, StockStaff, StockSync
<1>2. CASE UNCHANGED vars
  BY <1>2 DEF vars, tables, history, StockOutWhileDelivered, Exists
<1> QED BY <1>1, <1>2, StockOutside DEF Next

\* While saves of one order do not overlap, every order has its lines out of
\* stock exactly while it is delivered.
THEOREM StockFollowsStatus ==
  ASSUME ~MayOverlap
  PROVE  Spec => []StockOutWhileDelivered
<1>1. Init => SaveInv /\ StockOutWhileDelivered
  BY SaveInit, NotRows DEF Init, StockOutWhileDelivered, Exists, Absent
<1>2. SaveInv /\ StockOutWhileDelivered /\ [Next]_vars
        => SaveInv' /\ StockOutWhileDelivered'
  BY SaveStep, StockStep
<1> QED BY <1>1, <1>2, PTL DEF Spec

-----------------------------------------------------------------------------
(* Payments.                                                               *)

SettledInv == SettledOnce /\ SettledKnown

\* A step that leaves the payments as they are, and every order's settled.
LEMMA SettledUnmoved ==
  ASSUME SettledInv, remitted' = remitted,
         \A o \in Orders : Exists(o)' <=> Exists(o),
         \A o \in Orders : Exists(o) => order'[o].settled = order[o].settled
  PROVE  SettledInv'
  BY DEF SettledInv, SettledOnce, SettledKnown

\* A save, of a row that is what the database has, but for other columns.
LEMMA SaverSettles ==
  ASSUME SaveInv, SettledInv, NEW r \in Requests, Saving(r), remitted' = remitted,
         NEW new \in Rows, new.settled = request[r].row.settled,
         order' = [order EXCEPT ![request[r].order] = new]
  PROVE  SettledInv'
<1> DEFINE p == request[r].order
<1>1. p \in Orders /\ order[p] = request[r].row /\ order[p] \in Rows
  BY SavedRow DEF SaveInv, FreshRows
<1>2. ASSUME NEW o \in Orders
      PROVE  /\ Exists(o)' <=> Exists(o)
             /\ Exists(o) => order'[o].settled = order[o].settled
  <2>1. CASE o = p
    <3>1. order'[o] = new
      BY <1>1, <2>1 DEF SaveInv, TypeOK
    <3> QED BY <1>1, <2>1, <3>1 DEF Exists
  <2>2. CASE o # p
    <3>1. order'[o] = order[o]
      BY <1>1, <2>2 DEF SaveInv, TypeOK
    <3> QED BY <3>1 DEF Exists
  <2> QED BY <2>1, <2>2
<1> QED BY <1>2, SettledUnmoved

LEMMA ApplySettles ==
  ASSUME SaveInv, SettledInv, NEW r \in Requests, Saving(r),
         NEW status \in Statuses, ApplyStatus(r, status)
  PROVE  SettledInv'
<1> DEFINE row == request[r].row
           new == [row EXCEPT !.status = status, !.deducted = (status = "delivered")]
<1>1. row \in Rows
  BY SavedRow DEF SaveInv
<1>2. new \in Rows /\ new.settled = row.settled
  BY <1>1, RowUpdates DEF Rows
<1>3. order' = [order EXCEPT ![request[r].order] = new] /\ remitted' = remitted
  BY DEF ApplyStatus
<1> HIDE DEF new
<1> QED BY <1>2, <1>3, SaverSettles

LEMMA SettledOutside ==
  ASSUME SaveInv, SettledInv,
         \/ \E o \in Orders, t \in Trackings, q \in Quantities : Create(o, t, q)
         \/ \E n \in 1..MaxRemittances : RemovePayment(n)
         \/ \E t \in Trackings, state \in CourierStates : ParcelMoves(t, state)
         \/ \E n \in 0..MaxStock : CountStock(n)
  PROVE  SettledInv'
<1>1. ASSUME NEW p \in Orders, NEW t \in Trackings, NEW q \in Quantities, Create(p, t, q)
      PROVE  SettledInv'
  <2>1. ~Exists(p) /\ order'[p] = NewRow(t) /\ remitted' = remitted
    BY <1>1, NotRows DEF Create, SaveInv, TypeOK, Exists
  <2>2. order'[p].settled = 0
    BY <2>1 DEF NewRow
  <2>3. \A o \in Orders \ {p} : order'[o] = order[o]
    BY <1>1 DEF Create, SaveInv, TypeOK
  <2>4. \A n \in DOMAIN remitted : n # 0
    BY DEF SaveInv, TypeOK
  <2> QED BY <2>1, <2>2, <2>3, <2>4 DEF SettledInv, SettledOnce, SettledKnown, Exists
<1>2. ASSUME NEW n \in 1..MaxRemittances, RemovePayment(n)
      PROVE  SettledInv'
  <2>1. /\ n \in DOMAIN remitted /\ DOMAIN remitted' = DOMAIN remitted
        /\ remitted'[n] = {} /\ \A m \in DOMAIN remitted \ {n} : remitted'[m] = remitted[m]
    BY <1>2 DEF RemovePayment, SaveInv, TypeOK
  <2>2. ASSUME NEW o \in Orders
        PROVE  /\ Exists(o)' <=> Exists(o)
               /\ Exists(o) => order'[o].settled = IF order[o].settled = n THEN 0 ELSE order[o].settled
    <3>1. CASE Exists(o) /\ order[o].settled = n
      <4>1. order'[o] = [order[o] EXCEPT !.settled = 0]
        BY <1>2, <3>1 DEF RemovePayment
      <4>2. 0 \in 0..MaxRemittances
        OBVIOUS
      <4> QED BY <3>1, <4>1, <4>2, RowUpdates DEF Exists, Rows
    <3>2. CASE ~(Exists(o) /\ order[o].settled = n)
      <4>1. order'[o] = order[o]
        BY <1>2, <3>2 DEF RemovePayment
      <4> QED BY <3>2, <4>1 DEF Exists
    <3> QED BY <3>1, <3>2
  <2>3. n # 0 /\ \A m \in DOMAIN remitted : m # 0
    BY DEF SaveInv, TypeOK
  <2>4. SettledOnce'
    BY <2>1, <2>2, <2>3 DEF SettledInv, SettledOnce
  <2>5. SettledKnown'
    BY <2>1, <2>2 DEF SettledInv, SettledKnown
  <2> QED BY <2>4, <2>5 DEF SettledInv
<1>3. ASSUME NEW t \in Trackings, NEW state \in CourierStates, ParcelMoves(t, state)
      PROVE  SettledInv'
  BY <1>3, SettledUnmoved DEF ParcelMoves, tables, Exists
<1>4. ASSUME NEW n \in 0..MaxStock, CountStock(n)
      PROVE  SettledInv'
  BY <1>4, SettledUnmoved DEF CountStock, Exists
<1> QED BY <1>1, <1>2, <1>3, <1>4

LEMMA SettledStaff ==
  ASSUME SaveInv, SettledInv, NEW r \in Requests, Staff(r)
  PROVE  SettledInv'
<1>0. TypeOK
  BY DEF SaveInv
<1>1. ASSUME \/ \E p \in Orders, job \in {"status", "edit", "delete"} : ReadOrder(r, p, job)
             \/ \E S \in SUBSET Orders : CheckStatement(r, S)
      PROVE  SettledInv'
  BY <1>1, SettledUnmoved DEF ReadOrder, CheckStatement, Begin, tables, Exists
<1>2. ASSUME NEW status \in Statuses, SetStatus(r, status)
      PROVE  SettledInv'
  <2>1. CASE ApplyStatus(r, status)
    BY <1>2, <2>1, ApplySettles DEF SetStatus
  <2>2. CASE KeepStatus(r, status)
    BY <2>2, SettledUnmoved DEF KeepStatus, tables, Exists
  <2> QED BY <1>2, <2>1, <2>2 DEF SetStatus
<1>3. ASSUME NEW t \in Trackings, SetTracking(r, t) \/ \E q \in Quantities : UpdateOrder(r, t, q)
      PROVE  SettledInv'
  <2> DEFINE new == Shipped(request[r].row, t)
  <2>1. Saving(r) /\ request[r].row \in Rows
    BY <1>0, <1>3, SavedRow DEF SetTracking, UpdateOrder
  <2>2. new \in Rows /\ new.settled = request[r].row.settled
    BY <2>1, RowUpdates DEF Shipped, Rows
  <2>3. order' = [order EXCEPT ![request[r].order] = new] /\ remitted' = remitted
    BY <1>3 DEF SetTracking, UpdateOrder, SaveShipment
  <2> HIDE DEF new
  <2> QED BY <2>1, <2>2, <2>3, SaverSettles
<1>4. ASSUME DeleteOrder(r)
      PROVE  SettledInv'
  <2> DEFINE p == request[r].order
  <2>1. p \in Orders
    BY <1>0, <1>4, SavedRow DEF DeleteOrder
  <2>2. /\ order'[p] \notin Rows
        /\ \A o \in Orders \ {p} : order'[o] = order[o]
    BY <1>0, <1>4, <2>1, NotRows DEF DeleteOrder, TypeOK
  <2>3. /\ DOMAIN remitted' = DOMAIN remitted
        /\ \A n \in DOMAIN remitted : remitted'[n] = remitted[n] \ {p}
    BY <1>4 DEF DeleteOrder
  <2> QED BY <2>2, <2>3 DEF SettledInv, SettledOnce, SettledKnown, Exists
<1>5. ASSUME RecordPayment(r)
      PROVE  SettledInv'
  <2> DEFINE applied == StillUnsettled(request[r].orders)
             n == Len(remitted) + 1
  <2>1. applied \subseteq Orders /\ \A o \in applied : Exists(o) /\ order[o].settled = 0
    BY <1>0, <1>5, RecordedOrders DEF RecordPayment, StillUnsettled
  <2>2. /\ \A m \in DOMAIN remitted : m # n /\ m # 0 /\ remitted'[m] = remitted[m]
        /\ DOMAIN remitted' = DOMAIN remitted \union {n} /\ remitted'[n] = applied
        /\ n # 0 /\ n \in 0..MaxRemittances
    BY <1>0, <1>5, <2>1 DEF RecordPayment, TypeOK
  <2>3. ASSUME NEW o \in Orders
        PROVE  /\ Exists(o)' <=> Exists(o)
               /\ Exists(o) => order'[o].settled = IF o \in applied THEN n ELSE order[o].settled
    <3>1. CASE o \in applied
      <4>1. order'[o] = [order[o] EXCEPT !.settled = n]
        BY <1>5, <3>1 DEF RecordPayment
      <4>2. order[o] \in Rows /\ n \in 0..MaxRemittances
        BY <2>1, <2>2, <3>1 DEF Exists
      <4> HIDE DEF n, applied
      <4>3. order'[o] \in Rows
        BY <4>1, <4>2, RowUpdates
      <4>4. order'[o].settled = n
        BY <4>1, <4>2 DEF Rows
      <4> QED BY <3>1, <4>2, <4>3, <4>4 DEF Exists
    <3>2. CASE o \notin applied
      <4>1. order'[o] = order[o]
        BY <1>5, <3>2 DEF RecordPayment
      <4> QED BY <3>2, <4>1 DEF Exists
    <3> QED BY <3>1, <3>2
  <2> HIDE DEF applied, n
  <2>4. SettledOnce'
    BY <2>1, <2>2, <2>3 DEF SettledInv, SettledOnce, SettledKnown
  <2>5. SettledKnown'
    BY <2>1, <2>2, <2>3 DEF SettledInv, SettledKnown
  <2> QED BY <2>4, <2>5 DEF SettledInv
<1> QED BY <1>1, <1>2, <1>3, <1>4, <1>5 DEF Staff

LEMMA SettledSync ==
  ASSUME SaveInv, SettledInv, NEW r \in Requests, Sync(r) \/ Abandon(r)
  PROVE  SettledInv'
<1>1. ASSUME \/ \E o \in Orders : AskCourier(r, o)
             \/ CourierAnswers(r) \/ SyncReads(r) \/ Abandon(r)
      PROVE  SettledInv'
  BY <1>1, SettledUnmoved
  DEF AskCourier, Begin, CourierAnswers, SyncReads, Abandon, tables, Exists
<1>2. ASSUME SyncSaves(r)
      PROVE  SettledInv'
  <2>1. request[r].status \in Statuses
    BY <1>2, SavedRow DEF SyncSaves, SaveInv
  <2>2. CASE ApplyStatus(r, request[r].status)
    BY <1>2, <2>1, <2>2, ApplySettles DEF SyncSaves
  <2>3. CASE KeepStatus(r, request[r].status)
    BY <2>3, SettledUnmoved DEF KeepStatus, tables, Exists
  <2> QED BY <1>2, <2>2, <2>3 DEF SyncSaves
<1>3. ASSUME Stamp(r)
      PROVE  SettledInv'
  <2> DEFINE p == request[r].order
  <2>1. request[r].state \in CourierStates
    BY <1>3, SyncedOrder DEF Stamp, SaveInv
  <2>2. ASSUME NEW o \in Orders
        PROVE  /\ Exists(o)' <=> Exists(o)
               /\ Exists(o) => order'[o].settled = order[o].settled
    <3>1. CASE o = p /\ Exists(p)
      <4>1. order'[o] = [order[o] EXCEPT !.courier = request[r].state]
        BY <1>3, <3>1 DEF Stamp, SaveInv, TypeOK
      <4>2. [order[o] EXCEPT !.courier = request[r].state] \in Rows
        BY <2>1, <3>1, RowUpdates DEF Exists
      <4>3. order'[o] \in Rows /\ order'[o].settled = order[o].settled
        BY <3>1, <4>1, <4>2, ColumnUpdates DEF Exists
      <4> QED BY <3>1, <4>3 DEF Exists
    <3>2. CASE ~(o = p /\ Exists(p))
      <4>1. order'[o] = order[o]
        BY <1>3, <3>2 DEF Stamp, SaveInv, TypeOK
      <4> QED BY <4>1 DEF Exists
    <3> QED BY <3>1, <3>2
  <2> QED BY <1>3, <2>2, SettledUnmoved DEF Stamp
<1> QED BY <1>1, <1>2, <1>3 DEF Sync

LEMMA SettledStep ==
  ASSUME SaveInv, SettledInv, [Next]_vars
  PROVE  SettledInv'
<1>1. ASSUME NEW r \in Requests, Staff(r) \/ Sync(r) \/ Abandon(r)
      PROVE  SettledInv'
  BY <1>1, SettledStaff, SettledSync
<1>2. CASE UNCHANGED vars
  BY <1>2, SettledUnmoved DEF vars, tables, Exists
<1> QED BY <1>1, <1>2, SettledOutside DEF Next

\* While saves of one order do not overlap, an order is on the payment that its
\* remittance_id names and on no other, however statements overlap.
THEOREM OrdersSettledOnce ==
  ASSUME ~MayOverlap
  PROVE  Spec => []SettledOnce
<1>1. Init => SaveInv /\ SettledInv
  BY SaveInit, NotRows DEF Init, SettledInv, SettledOnce, SettledKnown, Exists
<1>2. SaveInv /\ SettledInv /\ [Next]_vars => SaveInv' /\ SettledInv'
  BY SaveStep, SettledStep
<1>3. SettledInv => SettledOnce
  BY DEF SettledInv
<1> QED BY <1>1, <1>2, <1>3, PTL DEF Spec

-----------------------------------------------------------------------------
(* Corrections.                                                            *)

\* A step that keeps a corrected order's row, but for its status, stock and
\* payment, keeps its parcel, and adds no sync with an answer.
LEMMA CorrectionKept ==
  ASSUME CorrectedAtRest,
         \A o \in Orders : corrected'[o] =>
           /\ corrected[o] /\ Exists(o)'
           /\ order'[o].courier = order[o].courier /\ order'[o].tracking = order[o].tracking
           /\ parcel'[order[o].tracking] = parcel[order[o].tracking],
         \A r \in Requests, o \in Orders : SyncOn(r, o)' /\ corrected'[o] =>
           \/ SyncOn(r, o) /\ request'[r] = request[r]
           \/ request'[r].pc = "asking" /\ request'[r].row = order[o]
  PROVE  CorrectedAtRest'
  BY DEF CorrectedAtRest, SyncOn

\* An update of the payment's column keeps the rest of the row.
LEMMA SettlingKeeps ==
  ASSUME NEW o \in Orders, Exists(o), NEW n \in 0..MaxRemittances,
         order'[o] = [order[o] EXCEPT !.settled = n]
  PROVE  /\ Exists(o)' /\ order'[o].courier = order[o].courier
         /\ order'[o].tracking = order[o].tracking
<1>1. order[o] \in Rows
  BY DEF Exists
<1>2. order'[o] \in Rows
  BY <1>1, RowUpdates
<1> QED BY <1>1, <1>2, ColumnUpdates DEF Exists

LEMMA CorrectionOutside ==
  ASSUME SaveInv, CorrectedAtRest,
         \/ \E o \in Orders, t \in Trackings, q \in Quantities : Create(o, t, q)
         \/ \E n \in 1..MaxRemittances : RemovePayment(n)
         \/ \E t \in Trackings, state \in CourierStates : ParcelMoves(t, state)
         \/ \E n \in 0..MaxStock : CountStock(n)
  PROVE  CorrectedAtRest'
<1>1. ASSUME NEW p \in Orders, NEW t \in Trackings, NEW q \in Quantities, Create(p, t, q)
      PROVE  CorrectedAtRest'
  <2>1. ~corrected[p] /\ \A o \in Orders \ {p} : order'[o] = order[o]
    BY <1>1, NotRows DEF Create, CorrectedAtRest, Exists, SaveInv, TypeOK
  <2>2. corrected' = corrected /\ parcel' = parcel /\ request' = request
    BY <1>1 DEF Create, history
  <2>3. \A o \in Orders : corrected[o] => Exists(o) /\ order'[o] = order[o]
    BY <2>1 DEF CorrectedAtRest
  <2> QED BY <2>2, <2>3, CorrectionKept DEF SyncOn, Exists
<1>2. ASSUME NEW n \in 1..MaxRemittances, RemovePayment(n)
      PROVE  CorrectedAtRest'
  <2>1. corrected' = corrected /\ parcel' = parcel /\ request' = request
    BY <1>2 DEF RemovePayment, history
  <2>2. ASSUME NEW o \in Orders, corrected[o]
        PROVE  /\ Exists(o)' /\ order'[o].courier = order[o].courier
               /\ order'[o].tracking = order[o].tracking
    <3>1. Exists(o) /\ 0 \in 0..MaxRemittances
      BY <2>2 DEF CorrectedAtRest
    <3>2. CASE order[o].settled = n
      <4>1. order'[o] = [order[o] EXCEPT !.settled = 0]
        BY <1>2, <3>1, <3>2 DEF RemovePayment
      <4> QED BY <3>1, <4>1, SettlingKeeps
    <3>3. CASE order[o].settled # n
      <4>1. order'[o] = order[o]
        BY <1>2, <3>3 DEF RemovePayment
      <4> QED BY <3>1, <4>1 DEF Exists
    <3> QED BY <3>2, <3>3
  <2> QED BY <2>1, <2>2, CorrectionKept DEF SyncOn
<1>3. ASSUME NEW t \in Trackings, NEW state \in CourierStates, ParcelMoves(t, state)
      PROVE  CorrectedAtRest'
  <2>1. order' = order /\ request' = request
    BY <1>3 DEF ParcelMoves, tables
  <2>2. \A o \in Orders : corrected'[o] => /\ corrected[o] /\ order[o].tracking # t
    BY <1>3 DEF ParcelMoves
  <2>3. \A o \in Orders : corrected[o] => Exists(o) /\ order[o].tracking \in Trackings
    BY DEF CorrectedAtRest, Exists, Rows
  <2>4. \A u \in Trackings \ {t} : parcel'[u] = parcel[u]
    BY <1>3 DEF ParcelMoves, SaveInv, TypeOK
  <2> QED BY <2>1, <2>2, <2>3, <2>4, CorrectionKept DEF SyncOn, Exists
<1>4. ASSUME NEW n \in 0..MaxStock, CountStock(n)
      PROVE  CorrectedAtRest'
  BY <1>4 DEF CountStock, history, CorrectedAtRest, SyncOn, Exists
<1> QED BY <1>1, <1>2, <1>3, <1>4

\* A sync with a request's locals is in one of four places.
LEMMA SyncPlaces ==
  ASSUME TypeOK, NEW r \in Requests, NEW o \in Orders, SyncOn(r, o)
  PROVE  Syncing(o)
<1>1. request[r] \in Requesting /\ request[r] # Idle /\ request[r].job = "sync"
  BY DEF TypeOK, SyncOn
<1>2. request[r].pc \in {"asking", "moving", "saving", "stamping"}
  BY <1>1 DEF Requesting
<1> QED BY <1>2 DEF Syncing, SyncOn

LEMMA CorrectionStaff ==
  ASSUME SaveInv, CorrectedAtRest, NEW r \in Requests, Staff(r)
  PROVE  CorrectedAtRest'
<1> DEFINE p == request[r].order
           row == request[r].row
<1>0. TypeOK
  BY DEF SaveInv
<1>1. ASSUME \/ \E o \in Orders, job \in {"status", "edit", "delete"} : ReadOrder(r, o, job)
             \/ \E S \in SUBSET Orders : CheckStatement(r, S)
      PROVE  CorrectedAtRest'
  <2>1. order' = order /\ corrected' = corrected /\ parcel' = parcel
    BY <1>1 DEF ReadOrder, CheckStatement, Begin, tables, history
  <2>2. /\ request'[r].job # "sync"
        /\ \A s \in Requests \ {r} : request'[s] = request[s]
    BY <1>0, <1>1 DEF ReadOrder, CheckStatement, Begin, TypeOK
  <2> QED BY <2>1, <2>2 DEF CorrectedAtRest, SyncOn, Exists
<1>2. ASSUME Saving(r), End(r), parcel' = parcel, p \in Orders, row \in Rows, order[p] = row,
             \A o \in Orders \ {p} : order'[o] = order[o] /\ corrected'[o] = corrected[o],
             corrected'[p] =>
               /\ order'[p] \in Rows /\ order'[p].tracking = row.tracking
               /\ order'[p].courier = row.courier
               /\ \/ corrected[p]
                  \/ ~Syncing(p) /\ row.courier = parcel[row.tracking]
      PROVE  CorrectedAtRest'
  <2>1. \A s \in Requests, o \in Orders : SyncOn(s, o)' => SyncOn(s, o) /\ request'[s] = request[s]
    BY <1>0, <1>2, EndLocals DEF SyncOn
  <2>2. ASSUME NEW o \in Orders, corrected'[o]
        PROVE  /\ order'[o] \in Rows /\ order'[o].courier = parcel[order'[o].tracking]
               /\ \A s \in Requests : SyncOn(s, o) =>
                    /\ request[s].pc = "asking"
                    /\ request[s].row.tracking = order'[o].tracking
                    /\ request[s].row.courier = order'[o].courier
    <3>1. CASE corrected[o]
      BY <1>2, <2>2, <3>1 DEF CorrectedAtRest, Exists
    <3>2. CASE ~corrected[o]
      <4>1. o = p /\ ~Syncing(p) /\ row.courier = parcel[row.tracking]
        BY <1>2, <2>2, <3>2
      <4>2. \A s \in Requests : ~SyncOn(s, p)
        BY <1>0, <1>2, <4>1, SyncPlaces
      <4> QED BY <1>2, <2>2, <4>1, <4>2
    <3> QED BY <3>1, <3>2
  <2> QED BY <1>2, <2>1, <2>2 DEF CorrectedAtRest, Exists
<1>3. Saving(r) => p \in Orders /\ row \in Rows /\ order[p] = row
  BY SavedRow DEF SaveInv, FreshRows
<1>4. ASSUME NEW status \in Statuses, SetStatus(r, status)
      PROVE  CorrectedAtRest'
  <2>1. CASE ApplyStatus(r, status) /\ corrected' = [corrected EXCEPT ![p] =
                 ~Syncing(p) /\ row.courier = parcel[row.tracking]]
    <3> DEFINE new == [row EXCEPT !.status = status, !.deducted = (status = "delivered")]
    <3>1. Saving(r) /\ End(r) /\ p \in Orders /\ row \in Rows /\ order[p] = row
      BY <1>3, <1>4 DEF SetStatus
    <3>2. new \in Rows /\ new.tracking = row.tracking /\ new.courier = row.courier
      BY <3>1, RowUpdates DEF Rows
    <3>3. order' = [order EXCEPT ![p] = new] /\ parcel' = parcel
      BY <2>1 DEF ApplyStatus
    <3> HIDE DEF new
    <3>4. order'[p] = new /\ \A o \in Orders \ {p} : order'[o] = order[o]
      BY <1>0, <3>1, <3>3 DEF TypeOK
    <3>5. /\ corrected'[p] => ~Syncing(p) /\ row.courier = parcel[row.tracking]
          /\ \A o \in Orders \ {p} : corrected'[o] = corrected[o]
      BY <1>0, <2>1, <3>1 DEF TypeOK
    <3> QED BY <1>2, <3>1, <3>2, <3>3, <3>4, <3>5
  <2>2. CASE KeepStatus(r, status) /\ UNCHANGED corrected
    <3>1. Saving(r) /\ End(r) /\ order' = order /\ parcel' = parcel
      BY <1>4, <2>2 DEF SetStatus, KeepStatus, tables
    <3> QED BY <1>2, <1>3, <2>2, <3>1
  <2> QED BY <1>4, <2>1, <2>2 DEF SetStatus
<1>5. ASSUME NEW t \in Trackings, SetTracking(r, t) \/ \E q \in Quantities : UpdateOrder(r, t, q)
      PROVE  CorrectedAtRest'
  <2> DEFINE new == Shipped(row, t)
  <2>1. Saving(r) /\ End(r) /\ p \in Orders /\ row \in Rows /\ order[p] = row
    BY <1>3, <1>5 DEF SetTracking, UpdateOrder
  <2>2. new \in Rows /\ (t = row.tracking => new.tracking = row.tracking /\ new.courier = row.courier)
    BY <2>1, RowUpdates DEF Shipped, Rows
  <2>3. /\ order' = [order EXCEPT ![p] = new] /\ parcel' = parcel
        /\ corrected' = [corrected EXCEPT ![p] = @ /\ t = row.tracking]
    BY <1>5 DEF SetTracking, UpdateOrder, SaveShipment
  <2> HIDE DEF new
  <2>4. order'[p] = new /\ \A o \in Orders \ {p} : order'[o] = order[o]
    BY <1>0, <2>1, <2>3 DEF TypeOK
  <2>5. /\ corrected'[p] => corrected[p] /\ t = row.tracking
        /\ \A o \in Orders \ {p} : corrected'[o] = corrected[o]
    BY <1>0, <2>1, <2>3 DEF TypeOK
  <2> QED BY <1>2, <2>1, <2>2, <2>3, <2>4, <2>5
<1>6. ASSUME DeleteOrder(r)
      PROVE  CorrectedAtRest'
  <2>1. Saving(r) /\ End(r) /\ p \in Orders /\ row \in Rows /\ order[p] = row
    BY <1>3, <1>6 DEF DeleteOrder
  <2>2. /\ parcel' = parcel /\ ~corrected'[p]
        /\ \A o \in Orders \ {p} : order'[o] = order[o] /\ corrected'[o] = corrected[o]
    BY <1>0, <1>6, <2>1 DEF DeleteOrder, TypeOK
  <2> QED BY <1>2, <2>1, <2>2
<1>7. ASSUME RecordPayment(r)
      PROVE  CorrectedAtRest'
  <2>1. corrected' = corrected /\ parcel' = parcel /\ Len(remitted) + 1 \in 0..MaxRemittances
    BY <1>0, <1>7 DEF RecordPayment, history, TypeOK
  <2>2. ASSUME NEW o \in Orders, corrected[o]
        PROVE  /\ Exists(o)' /\ order'[o].courier = order[o].courier
               /\ order'[o].tracking = order[o].tracking
    <3>1. Exists(o)
      BY <2>2 DEF CorrectedAtRest
    <3>2. CASE o \in StillUnsettled(request[r].orders)
      <4>1. order'[o] = [order[o] EXCEPT !.settled = Len(remitted) + 1]
        BY <1>7, <3>2 DEF RecordPayment
      <4> QED BY <2>1, <3>1, <4>1, SettlingKeeps
    <3>3. CASE o \notin StillUnsettled(request[r].orders)
      <4>1. order'[o] = order[o]
        BY <1>7, <3>3 DEF RecordPayment
      <4> QED BY <3>1, <4>1 DEF Exists
    <3> QED BY <3>2, <3>3
  <2>3. \A s \in Requests, o \in Orders : SyncOn(s, o)' => SyncOn(s, o) /\ request'[s] = request[s]
    BY <1>0, <1>7, EndLocals DEF SyncOn, RecordPayment
  <2> QED BY <2>1, <2>2, <2>3, CorrectionKept
<1> QED BY <1>1, <1>4, <1>5, <1>6, <1>7 DEF Staff

LEMMA CorrectionSync ==
  ASSUME SaveInv, CorrectedAtRest, NEW r \in Requests, Sync(r) \/ Abandon(r)
  PROVE  CorrectedAtRest'
<1>0. TypeOK
  BY DEF SaveInv
<1>1. ASSUME NEW o \in Orders, AskCourier(r, o)
      PROVE  CorrectedAtRest'
  <2>1. order' = order /\ corrected' = corrected /\ parcel' = parcel
    BY <1>1 DEF AskCourier, Begin, tables, history
  <2>2. /\ request'[r] = [pc |-> "asking", job |-> "sync", order |-> o, row |-> order[o]]
        /\ \A s \in Requests \ {r} : request'[s] = request[s]
    BY <1>0, <1>1 DEF AskCourier, Begin, TypeOK
  <2> QED BY <2>1, <2>2 DEF CorrectedAtRest, SyncOn, Exists
<1>2. ASSUME CourierAnswers(r)
      PROVE  CorrectedAtRest'
  <2> DEFINE p == request[r].order
             row == request[r].row
  <2>1. order' = order /\ corrected' = corrected /\ parcel' = parcel
    BY <1>2 DEF CourierAnswers, tables, history
  <2>2. request[r].job = "sync" /\ p \in Orders /\ request[r] # Idle
    <3>1. request[r] \in Requesting /\ request[r].pc = "asking"
      BY <1>0, <1>2 DEF CourierAnswers, TypeOK
    <3>2. request[r] \in [pc: {"asking"}, job: {"sync"}, order: Orders, row: Rows]
      BY <3>1 DEF Requesting, Idle
    <3> QED BY <3>1, <3>2 DEF Idle
  <2>3. corrected[p] => ~NewState(row, parcel[row.tracking])
    BY <2>2 DEF CorrectedAtRest, SyncOn, NewState
  <2>4. /\ request'[r] = Idle \/ (request'[r].order = p /\ NewState(row, parcel[row.tracking]))
        /\ \A s \in Requests \ {r} : request'[s] = request[s]
    BY <1>0, <1>2 DEF CourierAnswers, TypeOK
  <2>5. \A s \in Requests, o \in Orders : SyncOn(s, o)' /\ corrected[o] =>
          SyncOn(s, o) /\ request'[s] = request[s]
    BY <2>2, <2>3, <2>4 DEF SyncOn
  <2> QED BY <2>1, <2>5 DEF CorrectedAtRest, Exists
<1>3. ASSUME SyncReads(r)
      PROVE  CorrectedAtRest'
  <2> DEFINE p == request[r].order
  <2>1. order' = order /\ corrected' = corrected /\ parcel' = parcel
    BY <1>3 DEF SyncReads, tables, history
  <2>2. p \in Orders /\ ~corrected[p]
    BY <1>0, <1>3, SyncedOrder DEF SyncReads, CorrectedAtRest, SyncOn, Idle
  <2>3. /\ request'[r].order = p
        /\ \A s \in Requests \ {r} : request'[s] = request[s]
    BY <1>0, <1>3 DEF SyncReads, TypeOK
  <2>4. \A s \in Requests, o \in Orders : SyncOn(s, o)' /\ corrected[o] =>
          SyncOn(s, o) /\ request'[s] = request[s]
    BY <2>2, <2>3 DEF SyncOn
  <2> QED BY <2>1, <2>4 DEF CorrectedAtRest, Exists
<1>4. ASSUME NEW p \in Orders, SyncOn(r, p), request[r].pc # "asking",
             corrected' = corrected, parcel' = parcel,
             \A o \in Orders \ {p} : order'[o] = order[o],
             \A s \in Requests \ {r} : request'[s] = request[s],
             request'[r] = Idle \/ request'[r].order = p
      PROVE  CorrectedAtRest'
  <2>1. ~corrected[p]
    BY <1>4 DEF CorrectedAtRest
  <2>2. \A s \in Requests, o \in Orders : SyncOn(s, o)' /\ corrected[o] =>
          SyncOn(s, o) /\ request'[s] = request[s]
    BY <1>4, <2>1 DEF SyncOn
  <2> QED BY <1>4, <2>1, <2>2 DEF CorrectedAtRest, Exists
<1>5. ASSUME SyncSaves(r)
      PROVE  CorrectedAtRest'
  <2> DEFINE p == request[r].order
  <2>1. p \in Orders /\ SyncOn(r, p) /\ request[r].pc # "asking"
    BY <1>0, <1>5, SavedRow DEF SyncSaves, SyncOn, Saving, Idle
  <2>2. /\ corrected' = corrected /\ parcel' = parcel
        /\ \A o \in Orders \ {p} : order'[o] = order[o]
    BY <1>0, <1>5 DEF SyncSaves, ApplyStatus, KeepStatus, tables, TypeOK
  <2>3. /\ \A s \in Requests \ {r} : request'[s] = request[s]
        /\ request'[r].order = p
    BY <1>0, <1>5 DEF SyncSaves, TypeOK
  <2> HIDE DEF p
  <2> QED BY <1>4, <2>1, <2>2, <2>3
<1>6. ASSUME Stamp(r)
      PROVE  CorrectedAtRest'
  <2> DEFINE p == request[r].order
  <2>1. p \in Orders /\ SyncOn(r, p) /\ request[r].pc # "asking"
    BY <1>0, <1>6, SyncedOrder DEF Stamp, SyncOn, Idle
  <2>2. /\ corrected' = corrected /\ parcel' = parcel
        /\ \A o \in Orders \ {p} : order'[o] = order[o]
    BY <1>0, <1>6 DEF Stamp, history, TypeOK
  <2>3. /\ \A s \in Requests \ {r} : request'[s] = request[s]
        /\ request'[r] = Idle
    BY <1>0, <1>6, EndLocals DEF Stamp
  <2> HIDE DEF p
  <2> QED BY <1>4, <2>1, <2>2, <2>3
<1>7. ASSUME Abandon(r)
      PROVE  CorrectedAtRest'
  <2>1. order' = order /\ corrected' = corrected /\ parcel' = parcel
    BY <1>7 DEF Abandon, tables, history
  <2>2. \A s \in Requests, o \in Orders : SyncOn(s, o)' => SyncOn(s, o) /\ request'[s] = request[s]
    BY <1>0, <1>7, EndLocals DEF SyncOn, Abandon
  <2> QED BY <2>1, <2>2 DEF CorrectedAtRest, Exists
<1> QED BY <1>1, <1>2, <1>3, <1>5, <1>6, <1>7 DEF Sync

LEMMA CorrectionStep ==
  ASSUME SaveInv, CorrectedAtRest, [Next]_vars
  PROVE  CorrectedAtRest'
<1>1. ASSUME NEW r \in Requests, Staff(r) \/ Sync(r) \/ Abandon(r)
      PROVE  CorrectedAtRest'
  BY <1>1, CorrectionStaff, CorrectionSync
<1>2. CASE UNCHANGED vars
  BY <1>2 DEF vars, tables, history, CorrectedAtRest, SyncOn, Exists
<1> QED BY <1>1, <1>2, CorrectionOutside DEF Next

\* While saves of one order do not overlap, the sync leaves a status alone that
\* staff set after it had acted on the parcel's state.
THEOREM CorrectionsStick ==
  ASSUME ~MayOverlap
  PROVE  Spec => CorrectionSticks
<1>1. Init => SaveInv /\ CorrectedAtRest
  BY SaveInit DEF Init, CorrectedAtRest
<1>2. SaveInv /\ CorrectedAtRest /\ [Next]_vars => SaveInv' /\ CorrectedAtRest'
  BY SaveStep, CorrectionStep
<1>3. SaveInv /\ CorrectedAtRest =>
        [\A r \in Requests : LET o == request[r].order IN
           (Saving(r) /\ request[r].job = "sync" /\ request'[r].pc = "stamping" /\ corrected[o])
             => order'[o].status = order[o].status]_vars
  BY SavedRow DEF SaveInv, CorrectedAtRest, SyncOn, Saving, Idle
<1> QED BY <1>1, <1>2, <1>3, PTL DEF Spec, CorrectionSticks

-----------------------------------------------------------------------------
(* Sales on credit.                                                        *)

\* The request is about sale s.
About(me, s) == "sale" \in DOMAIN me /\ me.sale = s

\* What a request about a sale knows of its papers.
TillKnows(me, s) ==
  /\ "pc" \in DOMAIN me
  /\ me.pc \in {"check", "items", "credit"} => credit[s] = NoCredit /\ received[s] = 0
  /\ me.pc \in {"items", "credit", "payment", "balance"} => sale[s] # NoPaper
  /\ me.pc = "payment" => me.amount \in Nat /\ me.to.paid = received[s] + me.amount
  /\ me.pc = "balance" => me.to.paid = received[s]
  /\ me.pc \in {"payment", "balance"} =>
       /\ me.to.paid \in Nat /\ me.to.paid <= Total[s]
       /\ me.to.status = "paid" => me.to.paid = Total[s]

Settled(s) ==
  /\ received[s] = credit[s].paid /\ received[s] <= Total[s]
  /\ credit[s].status = "paid" => received[s] = Total[s]

\* A sale no two requests were about at a time: its balance is behind only while
\* the one request that took the payment has yet to save it.
Orderly(s) ==
  /\ received[s] \in Nat /\ {"status", "items"} \subseteq DOMAIN sale[s]
  /\ sale[s] = NoPaper => credit[s] = NoCredit /\ received[s] = 0
  /\ \A c, d \in Tills : About(till[c], s) /\ About(till[d], s) => c = d
  /\ \A c \in Tills : About(till[c], s) => TillKnows(till[c], s)
  /\ (\A c \in Tills : About(till[c], s) => till[c].pc # "balance") => Settled(s)

HasSale(me) ==
  me.pc \in {"check", "items", "credit", "payment", "balance"} => "sale" \in DOMAIN me

CreditInv ==
  /\ DOMAIN credit = Sales /\ DOMAIN received = Sales
  /\ DOMAIN sale = Sales /\ DOMAIN till = Tills
  /\ \A c \in Tills : HasSale(till[c])
  /\ \A s \in Sales : <<"sale", s>> \notin muddled => Orderly(s)

LEMMA ConcernsSale ==
  ASSUME NEW me, NEW s
  PROVE  <<"sale", s>> \in Concerns(me) <=> About(me, s)
  BY DEF Concerns, About

LEMMA QuietAbout == HasSale(Quiet) /\ \A s : ~About(Quiet, s)
  BY DEF Quiet, About, HasSale

LEMMA CreditInit == ShopInit => CreditInv
<1> SUFFICES ASSUME ShopInit PROVE CreditInv
  OBVIOUS
<1>1. ASSUME NEW s \in Sales PROVE Orderly(s)
  <2>1. Total[s] \in Nat
    BY ShopAssumption
  <2>2. \A c \in Tills : ~About(till[c], s)
    BY QuietAbout DEF ShopInit
  <2> QED
    BY <2>1, <2>2 DEF ShopInit, Orderly, Settled, NoPaper, NoCredit
<1> QED
  BY <1>1, QuietAbout DEF ShopInit, CreditInv

\* A step of till c that leaves the credit of s alone: its new locals v are about
\* s only if the old were, or nobody's were.
LEMMA CreditKeeps ==
  ASSUME NEW s \in Sales, Orderly(s), NEW c \in Tills, NEW v,
         DOMAIN till = Tills, till' = [till EXCEPT ![c] = v],
         credit'[s] = credit[s], received'[s] = received[s],
         {"status", "items"} \subseteq DOMAIN sale'[s], sale'[s] = NoPaper => sale[s] = NoPaper,
         About(till[c], s) => till[c].pc # "balance",
         About(v, s) =>
           /\ About(till[c], s) \/ \A d \in Tills : ~About(till[d], s)
           /\ TillKnows(v, s)' /\ v.pc # "balance"
  PROVE  Orderly(s)'
<1>1. till'[c] = v /\ \A d \in Tills \ {c} : till'[d] = till[d]
  OBVIOUS
<1>2. \A d, e \in Tills : About(till'[d], s) /\ About(till'[e], s) => d = e
  BY <1>1 DEF Orderly
<1>3. ASSUME NEW d \in Tills, About(till'[d], s) PROVE TillKnows(till[d], s)'
  <2>1. CASE d = c
    BY <1>1, <1>3, <2>1 DEF TillKnows
  <2>2. CASE d # c
    <3>1. TillKnows(till[d], s) /\ till'[d] = till[d]
      BY <1>1, <1>3, <2>2 DEF Orderly
    <3> QED
      BY <3>1 DEF TillKnows
  <2> QED
    BY <2>1, <2>2
<1>4. (\A d \in Tills : About(till'[d], s) => till'[d].pc # "balance") => Settled(s)'
  <2>1. ASSUME \A d \in Tills : About(till'[d], s) => till'[d].pc # "balance" PROVE Settled(s)
    BY <1>1, <2>1 DEF Orderly
  <2> QED
    BY <2>1 DEF Settled
<1> QED
  BY <1>2, <1>3, <1>4 DEF Orderly, About

\* Nobody else is about the sale of a request that begins.
LEMMA ServeFrame ==
  ASSUME NEW c \in Tills, NEW v, NEW again, Serve(c, v, again), DOMAIN till = Tills,
         NEW s \in Sales, <<"sale", s>> \notin muddled'
  PROVE  /\ till' = [till EXCEPT ![c] = v] /\ UNCHANGED <<credit, received, sale>>
         /\ <<"sale", s>> \notin muddled /\ ~About(till[c], s)
         /\ About(v, s) => \A d \in Tills : ~About(till[d], s)
<1>1. /\ till' = [till EXCEPT ![c] = v] /\ UNCHANGED <<credit, received, sale>>
      /\ till[c] = Quiet
      /\ <<"sale", s>> \notin muddled
      /\ <<"sale", s>> \notin UNION {Concerns(v) \cap Concerns(till[d]) : d \in Tills}
  BY DEF Serve
<1>2. ASSUME About(v, s), NEW d \in Tills PROVE ~About(till[d], s)
  BY <1>1, <1>2, ConcernsSale
<1> QED
  BY <1>1, <1>2, QuietAbout

LEMMA CreditServes ==
  ASSUME CreditInv, NEW c \in Tills, NEW v, NEW again, Serve(c, v, again), HasSale(v),
         \A s \in Sales : About(v, s) /\ Orderly(s) /\ (\A d \in Tills : ~About(till[d], s))
           => TillKnows(v, s) /\ v.pc # "balance"
  PROVE  CreditInv'
<1>1. DOMAIN till = Tills
  BY DEF CreditInv
<1>2. ASSUME NEW s \in Sales, <<"sale", s>> \notin muddled' PROVE Orderly(s)'
  <2>1. /\ till' = [till EXCEPT ![c] = v] /\ UNCHANGED <<credit, received, sale>>
        /\ <<"sale", s>> \notin muddled /\ ~About(till[c], s)
        /\ About(v, s) => \A d \in Tills : ~About(till[d], s)
    BY <1>1, <1>2, ServeFrame
  <2>2. Orderly(s)
    BY <2>1 DEF CreditInv
  <2>3. About(v, s) => TillKnows(v, s)' /\ v.pc # "balance"
    BY <2>1, <2>2 DEF TillKnows
  <2>4. {"status", "items"} \subseteq DOMAIN sale'[s]
    BY <2>1, <2>2 DEF Orderly
  <2> QED
    BY <1>1, <2>1, <2>2, <2>3, <2>4, CreditKeeps
<1>3. \A d \in Tills : HasSale(till'[d])
  BY DEF CreditInv, Serve
<1> QED
  BY <1>1, <1>2, <1>3 DEF CreditInv, Serve, HasSale

LEMMA CreditBegins ==
  ASSUME CreditInv, NEW c \in Tills
  PROVE  /\ \A s \in Sales :
              \/ BeginSale(c, s) \/ BeginVoid(c, s)
              \/ \E amount \in 1..Total[s] : BeginPayment(c, s, amount)
              => CreditInv'
         /\ \A o \in Purchases :
              BeginOrder(c, o) \/ BeginReceive(c, o) \/ BeginCancelOrder(c, o) => CreditInv'
         /\ \A g \in Goods, by \in {-1, 1} : BeginAdjust(c, g, by) => CreditInv'
<1>1. ASSUME NEW s \in Sales, BeginSale(c, s) PROVE CreditInv'
  <2> DEFINE v == [pc |-> "check", sale |-> s, todo |-> LinesOf(s)]
  <2>1. Serve(c, v, FALSE) /\ sale[s] = NoPaper
    BY <1>1 DEF BeginSale
  <2>2. \A t \in Sales : About(v, t) /\ Orderly(t) => TillKnows(v, t) /\ v.pc # "balance"
    BY <2>1 DEF About, Orderly, TillKnows
  <2>3. HasSale(v)
    BY DEF HasSale
  <2> HIDE DEF v
  <2> QED
    BY <2>1, <2>2, <2>3, CreditServes
<1>2. ASSUME NEW s \in Sales, BeginVoid(c, s) PROVE CreditInv'
  <2>1. PICK todo : Serve(c, [pc |-> "restore", sale |-> s, todo |-> todo], FALSE)
    BY <1>2 DEF BeginVoid
  <2> DEFINE v == [pc |-> "restore", sale |-> s, todo |-> todo]
  <2>2. HasSale(v) /\ \A t \in Sales : TillKnows(v, t) /\ v.pc # "balance"
    BY DEF TillKnows, HasSale
  <2>3. Serve(c, v, FALSE)
    BY <2>1
  <2> HIDE DEF v
  <2> QED
    BY <2>2, <2>3, CreditServes
<1>3. ASSUME NEW s \in Sales, NEW amount \in 1..Total[s], BeginPayment(c, s, amount)
      PROVE  CreditInv'
  <2> DEFINE paid == credit[s].paid + amount
             to == [paid |-> paid, status |-> IF paid >= Total[s] THEN "paid" ELSE "partial"]
             v == [pc |-> "payment", sale |-> s, amount |-> amount, to |-> to]
  <2>1. Serve(c, v, FALSE) /\ credit[s].status # "none" /\ paid <= Total[s]
    BY <1>3 DEF BeginPayment, MayPay
  <2>2. ASSUME NEW t \in Sales, About(v, t), Orderly(t), \A d \in Tills : ~About(till[d], t)
        PROVE  TillKnows(v, t) /\ v.pc # "balance"
    <3>1. t = s /\ Total[s] \in Nat /\ amount \in Nat
      BY <2>2, ShopAssumption DEF About
    <3>2. received[s] = credit[s].paid /\ received[s] \in Nat /\ sale[s] # NoPaper
      BY <2>1, <2>2, <3>1 DEF Orderly, Settled, NoCredit
    <3>3. paid \in Nat /\ paid = received[s] + amount
      BY <3>1, <3>2
    <3>4. to.paid = paid /\ (to.status = "paid" => paid = Total[s])
      BY <2>1, <3>1, <3>3
    <3>5. v.pc = "payment" /\ v.amount = amount /\ v.to = to /\ "pc" \in DOMAIN v
      OBVIOUS
    <3> HIDE DEF v, to, paid
    <3> QED
      BY <2>1, <3>1, <3>2, <3>3, <3>4, <3>5 DEF TillKnows
  <2>3. Serve(c, v, FALSE) /\ HasSale(v)
    BY <2>1 DEF HasSale
  <2> HIDE DEF v
  <2> QED
    BY <2>2, <2>3, CreditServes
<1>4. ASSUME NEW v, NEW again, Serve(c, v, again), "sale" \notin DOMAIN v,
             v.pc \in {"purchase", "receive", "cancel", "adjust"}
      PROVE  CreditInv'
  <2>1. HasSale(v) /\ \A s \in Sales : ~About(v, s)
    BY <1>4 DEF About, HasSale
  <2> QED
    BY <1>4, <2>1, CreditServes
<1>5. ASSUME NEW o \in Purchases, BeginOrder(c, o) PROVE CreditInv'
  <2>1. /\ Serve(c, [pc |-> "purchase", purchase |-> o], FALSE)
        /\ "sale" \notin DOMAIN [pc |-> "purchase", purchase |-> o]
    BY <1>5 DEF BeginOrder
  <2> QED
    BY <1>4, <2>1
<1>6. ASSUME NEW o \in Purchases, BeginReceive(c, o) PROVE CreditInv'
  <2>1. PICK todo, again : Serve(c, [pc |-> "receive", purchase |-> o, todo |-> todo], again)
    BY <1>6 DEF BeginReceive
  <2> QED
    BY <1>4, <2>1
<1>7. ASSUME NEW o \in Purchases, BeginCancelOrder(c, o) PROVE CreditInv'
  <2>1. PICK again : Serve(c, [pc |-> "cancel", purchase |-> o], again)
    BY <1>7 DEF BeginCancelOrder
  <2> QED
    BY <1>4, <2>1
<1>8. ASSUME NEW g \in Goods, NEW by \in {-1, 1}, BeginAdjust(c, g, by) PROVE CreditInv'
  <2>1. PICK to : Serve(c, [pc |-> "adjust", good |-> g, by |-> by, to |-> to], FALSE)
    BY <1>8 DEF BeginAdjust
  <2>2. "sale" \notin DOMAIN [pc |-> "adjust", good |-> g, by |-> by, to |-> to]
    OBVIOUS
  <2> QED
    BY <1>4, <2>1, <2>2
<1> QED
  BY <1>1, <1>2, <1>3, <1>5, <1>6, <1>7, <1>8

\* A step of a request that leaves what was paid alone.
LEMMA CreditGoes ==
  ASSUME CreditInv, NEW c \in Tills, NEW v, till' = [till EXCEPT ![c] = v],
         UNCHANGED <<credit, received>>, muddled \subseteq muddled', DOMAIN sale' = Sales,
         HasSale(v),
         \A s \in Sales : <<"sale", s>> \notin muddled' /\ Orderly(s) =>
           /\ {"status", "items"} \subseteq DOMAIN sale'[s] /\ (sale'[s] = NoPaper => sale[s] = NoPaper)
           /\ About(till[c], s) => till[c].pc # "balance"
           /\ About(v, s) => About(till[c], s) /\ TillKnows(v, s)' /\ v.pc # "balance"
  PROVE  CreditInv'
<1>1. DOMAIN till = Tills
  BY DEF CreditInv
<1>2. ASSUME NEW s \in Sales, <<"sale", s>> \notin muddled' PROVE Orderly(s)'
  <2>1. Orderly(s)
    BY <1>2 DEF CreditInv
  <2> QED
    BY <1>1, <1>2, <2>1, CreditKeeps
<1>3. \A d \in Tills : HasSale(till'[d])
  BY DEF CreditInv
<1> QED
  BY <1>1, <1>2, <1>3 DEF CreditInv, HasSale

\* A request goes on with its sale; which locals change does not matter to it.
LEMMA GoesAbout ==
  ASSUME NEW me, NEW s
  PROVE  /\ \A pc : /\ About([me EXCEPT !.pc = pc], s) <=> About(me, s)
                    /\ "sale" \in DOMAIN me => HasSale([me EXCEPT !.pc = pc])
         /\ \A todo : /\ About([me EXCEPT !.todo = todo], s) <=> About(me, s)
                      /\ [me EXCEPT !.todo = todo].pc = me.pc
                      /\ HasSale(me) => HasSale([me EXCEPT !.todo = todo])
  BY DEF About, HasSale

\* Steps that end a request, or go on to what no balance depends on.
LEMMA CreditPasses ==
  ASSUME CreditInv, NEW c \in Tills, UNCHANGED <<credit, received, muddled, sale>>,
         \/ till' = [till EXCEPT ![c] = Quiet] /\ till[c].pc # "balance"
         \/ /\ \E todo : till' = [till EXCEPT ![c] = [till[c] EXCEPT !.todo = todo]]
            /\ till[c].pc \in {"check", "restore", "receive"}
  PROVE  CreditInv'
<1>1. CASE till' = [till EXCEPT ![c] = Quiet] /\ till[c].pc # "balance"
  <2>1. \A s \in Sales : Orderly(s) =>
          {"status", "items"} \subseteq DOMAIN sale'[s] /\ ~About(Quiet, s)
    BY QuietAbout DEF Orderly
  <2>2. DOMAIN sale' = Sales /\ muddled \subseteq muddled'
    BY DEF CreditInv
  <2> QED
    BY <1>1, <2>1, <2>2, QuietAbout, CreditGoes
<1>2. ASSUME NEW todo, till' = [till EXCEPT ![c] = [till[c] EXCEPT !.todo = todo]],
             till[c].pc \in {"check", "restore", "receive"}
      PROVE  CreditInv'
  <2>0. PICK v : v = [till[c] EXCEPT !.todo = todo]
    OBVIOUS
  <2>1. \A s \in Sales : Orderly(s) /\ About(v, s) =>
          About(till[c], s) /\ TillKnows(v, s)' /\ v.pc # "balance"
    <3>1. ASSUME NEW s \in Sales, Orderly(s), About(v, s)
          PROVE  About(till[c], s) /\ TillKnows(v, s)' /\ v.pc # "balance"
      <4>1. About(till[c], s) /\ v.pc = till[c].pc
        BY <2>0, <3>1, GoesAbout
      <4>2. TillKnows(till[c], s)
        BY <3>1, <4>1 DEF Orderly
      <4>3. "pc" \in DOMAIN v
        BY <2>0, <4>2 DEF TillKnows
      <4>4. UNCHANGED <<credit, received, sale>>
        OBVIOUS
      <4>5. TillKnows(v, s)'
        BY <1>2, <4>1, <4>2, <4>3, <4>4 DEF TillKnows
      <4> QED
        BY <1>2, <4>1, <4>5
    <3> QED
      BY <3>1
  <2>2. DOMAIN sale' = Sales /\ muddled \subseteq muddled'
        /\ \A s \in Sales : Orderly(s) => {"status", "items"} \subseteq DOMAIN sale'[s]
    BY DEF CreditInv, Orderly
  <2>3. till' = [till EXCEPT ![c] = v] /\ till[c].pc # "balance"
    BY <1>2, <2>0
  <2>4. HasSale(v)
    BY <2>0, GoesAbout DEF CreditInv
  <2> QED
    BY <2>1, <2>2, <2>3, <2>4, CreditGoes
<1> QED
  BY <1>1, <1>2

\* The sale's row is saved on the way to pc.
LEMMA SaleWritten ==
  ASSUME CreditInv, NEW c \in Tills, NEW v, till' = [till EXCEPT ![c] = v],
         UNCHANGED <<credit, received, muddled>>, till[c].pc # "balance", DOMAIN sale' = Sales,
         HasSale(v),
         \A s \in Sales : DOMAIN sale'[s] = DOMAIN sale[s] /\ (sale'[s] = NoPaper => sale[s] = NoPaper),
         \A s \in Sales : About(v, s) /\ Orderly(s) =>
           About(till[c], s) /\ (TillKnows(till[c], s) => TillKnows(v, s)') /\ v.pc # "balance"
  PROVE  CreditInv'
<1>1. ASSUME NEW s \in Sales, Orderly(s)
      PROVE  /\ {"status", "items"} \subseteq DOMAIN sale'[s]
             /\ About(v, s) => About(till[c], s) /\ TillKnows(v, s)' /\ v.pc # "balance"
  BY <1>1 DEF Orderly
<1> QED
  BY <1>1, CreditGoes

LEMMA SaleSteps ==
  ASSUME CreditInv, NEW c \in Tills,
         InsertSale(c) \/ InsertItems(c) \/ MarkVoided(c)
  PROVE  CreditInv'
<1> DEFINE me == till[c]
<1>1. CASE InsertSale(c)
  <2>0. PICK v : v = [me EXCEPT !.pc = "items"]
    OBVIOUS
  <2>1. /\ me.pc = "check" /\ till' = [till EXCEPT ![c] = v]
        /\ sale' = [sale EXCEPT ![me.sale].status = "completed"]
        /\ UNCHANGED <<credit, received, muddled>>
    BY <1>1, <2>0 DEF InsertSale, On, Go
  <2>2. \A s \in Sales : DOMAIN sale'[s] = DOMAIN sale[s] /\ (sale'[s] = NoPaper => sale[s] = NoPaper)
    BY <2>1 DEF CreditInv, NoPaper
  <2>3. ASSUME NEW s \in Sales, About(v, s), Orderly(s)
        PROVE  About(me, s) /\ (TillKnows(me, s) => TillKnows(v, s)') /\ v.pc # "balance"
    <3>1. About(me, s)
      BY <2>0, <2>3, GoesAbout
    <3>2. sale'[s] # NoPaper
      BY <2>1, <2>3, <3>1 DEF About, CreditInv, Orderly, NoPaper
    <3>3. TillKnows(me, s) /\ "pc" \in DOMAIN me
      BY <2>3, <3>1 DEF Orderly, TillKnows
    <3>4. v.pc = "items" /\ "pc" \in DOMAIN v
      BY <2>0, <3>3
    <3>5. TillKnows(v, s)'
      BY <2>1, <3>2, <3>3, <3>4 DEF TillKnows
    <3> QED
      BY <2>0, <3>1, <3>4, <3>5
  <2>4. DOMAIN sale' = Sales /\ "sale" \in DOMAIN me
    BY <2>1 DEF CreditInv, HasSale
  <2>5. HasSale(v) /\ till[c].pc # "balance"
    BY <2>0, <2>1, <2>4, GoesAbout
  <2>6. till' = [till EXCEPT ![c] = v] /\ UNCHANGED <<credit, received, muddled>>
    BY <2>1
  <2> QED
    BY <2>2, <2>3, <2>4, <2>5, <2>6, SaleWritten
<1>2. CASE InsertItems(c)
  <2>1. /\ me.pc = "items" /\ sale' = [sale EXCEPT ![me.sale].items = TRUE]
        /\ UNCHANGED <<credit, received, muddled>>
    BY <1>2 DEF InsertItems, On
  <2>2. \A s \in Sales : DOMAIN sale'[s] = DOMAIN sale[s] /\ (sale'[s] = NoPaper => sale[s] = NoPaper)
    BY <2>1 DEF CreditInv, NoPaper
  <2>3. PICK v : till' = [till EXCEPT ![c] = v] /\ (v = Quiet \/ v = [me EXCEPT !.pc = "credit"])
    BY <1>2 DEF InsertItems, Go, Serves
  <2>4. ASSUME NEW s \in Sales, About(v, s), Orderly(s)
        PROVE  About(me, s) /\ (TillKnows(me, s) => TillKnows(v, s)') /\ v.pc # "balance"
    <3>1. v = [me EXCEPT !.pc = "credit"] /\ About(me, s)
      BY <2>3, <2>4, GoesAbout, QuietAbout
    <3>2. TillKnows(me, s) /\ "pc" \in DOMAIN me
      BY <2>4, <3>1 DEF Orderly, TillKnows
    <3>3. v.pc = "credit" /\ "pc" \in DOMAIN v
      BY <3>1, <3>2
    <3>4. sale'[s] # NoPaper
      BY <2>1, <2>2, <3>2 DEF TillKnows
    <3>5. TillKnows(v, s)'
      BY <2>1, <3>2, <3>3, <3>4 DEF TillKnows
    <3> QED
      BY <3>1, <3>3, <3>5
  <2>5. DOMAIN sale' = Sales /\ "sale" \in DOMAIN me
    BY <2>1 DEF CreditInv, HasSale
  <2>6. till' = [till EXCEPT ![c] = v] /\ till[c].pc # "balance" /\ HasSale(v)
    BY <2>1, <2>3, <2>5, GoesAbout, QuietAbout
  <2>7. UNCHANGED <<credit, received, muddled>>
    BY <2>1
  <2> QED
    BY <2>2, <2>4, <2>5, <2>6, <2>7, SaleWritten
<1>3. CASE MarkVoided(c)
  <2>1. /\ me.pc = "restore" /\ till' = [till EXCEPT ![c] = Quiet]
        /\ sale' = [sale EXCEPT ![me.sale].status = "voided"]
        /\ UNCHANGED <<credit, received, muddled>>
    BY <1>3 DEF MarkVoided, On, Serves
  <2>2. \A s \in Sales : DOMAIN sale'[s] = DOMAIN sale[s] /\ (sale'[s] = NoPaper => sale[s] = NoPaper)
    BY <2>1 DEF CreditInv, NoPaper
  <2>3. DOMAIN sale' = Sales
    BY <2>1 DEF CreditInv
  <2>4. PICK v : v = Quiet
    OBVIOUS
  <2>5. \A s \in Sales : About(v, s) /\ Orderly(s) =>
          About(till[c], s) /\ (TillKnows(till[c], s) => TillKnows(v, s)') /\ v.pc # "balance"
    BY <2>4, QuietAbout
  <2>6. till' = [till EXCEPT ![c] = v] /\ till[c].pc # "balance" /\ HasSale(v)
    BY <2>1, <2>4, QuietAbout
  <2>7. UNCHANGED <<credit, received, muddled>>
    BY <2>1
  <2> QED
    BY <2>2, <2>3, <2>5, <2>6, <2>7, SaleWritten
<1> QED
  BY <1>1, <1>2, <1>3

\* Requests that are about no sale, and listeners.
LEMMA QuietSteps ==
  ASSUME CreditInv, UNCHANGED <<credit, received, sale>>, muddled \subseteq muddled',
         \/ UNCHANGED till
         \/ \E c \in Tills : \E v : /\ till' = [till EXCEPT ![c] = v] /\ HasSale(v) /\ \A s : ~About(v, s)
                                /\ \/ till[c].pc # "balance"
                                   \/ \A s \in Sales : <<"sale", s>> \notin muddled' => ~About(till[c], s)
  PROVE  CreditInv'
<1>1. CASE UNCHANGED till
  <2>1. ASSUME NEW s \in Sales, Orderly(s) PROVE Orderly(s)'
    BY <1>1, <2>1 DEF Orderly, About, TillKnows, Settled
  <2> QED
    BY <1>1, <2>1 DEF CreditInv
<1>2. ASSUME NEW c \in Tills, NEW v, till' = [till EXCEPT ![c] = v], HasSale(v), \A s : ~About(v, s),
             \/ till[c].pc # "balance"
             \/ \A s \in Sales : <<"sale", s>> \notin muddled' => ~About(till[c], s)
      PROVE  CreditInv'
  <2>1. DOMAIN sale' = Sales
        /\ \A s \in Sales : Orderly(s) => {"status", "items"} \subseteq DOMAIN sale'[s]
    BY DEF CreditInv, Orderly
  <2>2. \A s \in Sales : <<"sale", s>> \notin muddled' /\ Orderly(s) =>
           /\ {"status", "items"} \subseteq DOMAIN sale'[s] /\ (sale'[s] = NoPaper => sale[s] = NoPaper)
           /\ About(till[c], s) => till[c].pc # "balance"
           /\ About(v, s) => About(till[c], s) /\ TillKnows(v, s)' /\ v.pc # "balance"
    BY <1>2, <2>1
  <2> QED
    BY <1>2, <2>1, <2>2, CreditGoes
<1> QED
  BY <1>1, <1>2

\* The credit of the sale, its one payment, and the balance.
LEMMA CreditMoves ==
  ASSUME CreditInv, NEW c \in Tills, InsertCredit(c) \/ InsertPayment(c) \/ SaveCredit(c)
  PROVE  CreditInv'
<1> DEFINE me == till[c]
<1>1. PICK v : /\ till' = [till EXCEPT ![c] = v] /\ UNCHANGED <<sale, muddled>>
               /\ \/ v = Quiet
                  \/ InsertPayment(c) /\ v = [me EXCEPT !.pc = "balance"]
  <2>1. CASE InsertCredit(c) \/ SaveCredit(c)
    BY <2>1 DEF InsertCredit, SaveCredit, Serves
  <2>2. CASE InsertPayment(c)
    BY <2>2 DEF InsertPayment, Go
  <2> QED
    BY <2>1, <2>2
<1>2. \A s : About(v, s) => About(me, s)
  BY <1>1, GoesAbout, QuietAbout
<1>3. \A s \in Sales : s # me.sale => credit'[s] = credit[s] /\ received'[s] = received[s]
  BY DEF CreditInv, InsertCredit, InsertPayment, SaveCredit
<1>4. DOMAIN till = Tills /\ DOMAIN credit' = Sales /\ DOMAIN received' = Sales /\ DOMAIN till' = Tills
      /\ DOMAIN sale' = Sales
  BY <1>1 DEF CreditInv, InsertCredit, InsertPayment, SaveCredit
<1>5. ASSUME NEW s \in Sales, <<"sale", s>> \notin muddled, ~About(me, s), s # me.sale
      PROVE Orderly(s)'
  <2>1. Orderly(s) /\ ~About(v, s)
    BY <1>2, <1>5 DEF CreditInv
  <2>2. credit'[s] = credit[s] /\ received'[s] = received[s]
        /\ {"status", "items"} \subseteq DOMAIN sale'[s] /\ (sale'[s] = NoPaper => sale[s] = NoPaper)
    BY <1>1, <1>3, <1>5, <2>1 DEF Orderly
  <2> QED
    BY <1>1, <1>4, <1>5, <2>1, <2>2, CreditKeeps
<1>6. ASSUME NEW s \in Sales, <<"sale", s>> \notin muddled, About(me, s) PROVE Orderly(s)'
  <2>1. Orderly(s) /\ TillKnows(me, s) /\ me.sale = s /\ "pc" \in DOMAIN me
    BY <1>6 DEF CreditInv, Orderly, TillKnows, About
  <2>2. \A d \in Tills \ {c} : ~About(till[d], s)
    BY <1>6, <2>1 DEF Orderly
  <2>3. till'[c] = v /\ \A d \in Tills \ {c} : till'[d] = till[d]
    BY <1>1, <1>4
  <2>4. \A d \in Tills \ {c} : ~About(till'[d], s)
    BY <2>2, <2>3
  <2>5. \A d, e \in Tills : About(till'[d], s) /\ About(till'[e], s) => d = e
    BY <2>4
  <2>6. Total[s] \in Nat
    BY ShopAssumption
  <2>7. CASE InsertCredit(c)
    <3>1. /\ me.pc = "credit" /\ v = Quiet
          /\ credit' = [credit EXCEPT ![s].status = "outstanding"] /\ received' = received
      <4>1. me.pc = "credit" /\ till' = [till EXCEPT ![c] = Quiet]
            /\ credit' = [credit EXCEPT ![s].status = "outstanding"] /\ received' = received
        BY <2>1, <2>7 DEF InsertCredit, On, Serves
      <4> QED
        BY <1>4, <2>3, <4>1
    <3>2. credit[s] = NoCredit /\ received[s] = 0 /\ sale[s] # NoPaper
      BY <2>1, <3>1 DEF TillKnows
    <3>3. credit'[s] = [NoCredit EXCEPT !.status = "outstanding"]
      BY <3>1, <3>2 DEF CreditInv
    <3>4. Settled(s)' /\ received'[s] \in Nat
      BY <2>6, <3>1, <3>2, <3>3 DEF Settled, NoCredit
    <3>5. \A d \in Tills : ~About(till'[d], s)
      BY <2>3, <2>4, <3>1, QuietAbout
    <3> QED
      BY <1>1, <2>1, <3>2, <3>4, <3>5 DEF Orderly, About
  <2>8. CASE InsertPayment(c)
    <3>1. /\ me.pc = "payment" /\ v = [me EXCEPT !.pc = "balance"] /\ credit' = credit
          /\ received' = [received EXCEPT ![s] = received[s] + me.amount]
      <4>1. /\ me.pc = "payment" /\ till' = [till EXCEPT ![c] = [me EXCEPT !.pc = "balance"]]
            /\ credit' = credit
            /\ received' = [received EXCEPT ![s] = received[s] + me.amount]
        BY <2>1, <2>8 DEF InsertPayment, On, Go, Books
      <4> QED
        BY <1>4, <2>3, <4>1
    <3>2. /\ v.pc = "balance" /\ v.to = me.to /\ "pc" \in DOMAIN v /\ About(v, s)
      BY <1>6, <2>1, <3>1, GoesAbout
    <3>3. received'[s] = me.to.paid /\ me.to.paid \in Nat /\ sale[s] # NoPaper
      BY <2>1, <3>1 DEF TillKnows, CreditInv
    <3>4. TillKnows(v, s)'
      BY <1>1, <2>1, <3>1, <3>2, <3>3 DEF TillKnows
    <3>5. \A d \in Tills : About(till'[d], s) => TillKnows(till[d], s)'
      <4>1. ASSUME NEW d \in Tills, About(till'[d], s) PROVE TillKnows(till[d], s)'
        <5>1. till'[d] = v
          BY <2>3, <2>4, <4>1
        <5> QED
          BY <3>4, <5>1 DEF TillKnows
      <4> QED
        BY <4>1
    <3> QED
      BY <1>1, <2>1, <2>3, <2>5, <3>2, <3>3, <3>5 DEF Orderly, About
  <2>9. CASE SaveCredit(c)
    <3>1. /\ me.pc = "balance" /\ v = Quiet
          /\ credit' = [credit EXCEPT ![s] = me.to] /\ received' = received
      <4>1. me.pc = "balance" /\ till' = [till EXCEPT ![c] = Quiet]
            /\ credit' = [credit EXCEPT ![s] = me.to] /\ received' = received
        BY <2>1, <2>9 DEF SaveCredit, On, Serves
      <4> QED
        BY <1>4, <2>3, <4>1
    <3>2. /\ me.to.paid = received[s] /\ sale[s] # NoPaper /\ me.to.paid <= Total[s]
          /\ me.to.status = "paid" => me.to.paid = Total[s]
      BY <2>1, <3>1 DEF TillKnows
    <3>3. credit'[s] = me.to
      BY <3>1 DEF CreditInv
    <3>4. Settled(s)' /\ received'[s] \in Nat
      BY <2>1, <3>1, <3>2, <3>3 DEF Settled, Orderly
    <3>5. \A d \in Tills : ~About(till'[d], s)
      BY <2>3, <2>4, <3>1, QuietAbout
    <3> QED
      BY <1>1, <2>1, <3>2, <3>4, <3>5 DEF Orderly, About
  <2> QED
    BY <2>7, <2>8, <2>9
<1>7. "sale" \in DOMAIN me
  BY DEF CreditInv, HasSale, InsertCredit, InsertPayment, SaveCredit, On
<1>8. ASSUME NEW s \in Sales, <<"sale", s>> \notin muddled, s = me.sale PROVE About(me, s)
  BY <1>7, <1>8 DEF About
<1>9. HasSale(v)
  BY <1>1, <1>7, GoesAbout, QuietAbout
<1>10. \A d \in Tills : HasSale(till'[d])
  BY <1>1, <1>9 DEF CreditInv
<1> QED
  BY <1>1, <1>4, <1>5, <1>6, <1>8, <1>10 DEF CreditInv, HasSale

LEMMA BreakLeads == ASSUME CreditInv, NEW c \in Tills, Break(c) PROVE CreditInv'
<1>1. till' = [till EXCEPT ![c] = Quiet] /\ UNCHANGED <<credit, received, sale>>
      /\ muddled' = muddled \union Concerns(till[c])
  BY DEF Break, Serves
<1>2. \A s \in Sales : <<"sale", s>> \notin muddled' => ~About(till[c], s)
  BY <1>1, ConcernsSale
<1>3. PICK v : v = Quiet /\ HasSale(v) /\ \A s : ~About(v, s)
  BY QuietAbout
<1> QED
  BY <1>1, <1>2, <1>3, QuietSteps

LEMMA CreditStep == CreditInv /\ [ShopNext]_shopVars => CreditInv'
<1> SUFFICES ASSUME CreditInv, [ShopNext]_shopVars PROVE CreditInv'
  OBVIOUS
<1>1. CASE UNCHANGED shopVars
  BY <1>1, QuietSteps DEF shopVars
<1>2. ASSUME NEW c \in Tills, On(c, "check"), CheckLine(c) PROVE CreditInv'
  <2>1. UNCHANGED <<credit, received, muddled, sale>> /\ till[c].pc = "check"
    BY <1>2 DEF CheckLine, On
  <2>2. \/ till' = [till EXCEPT ![c] = Quiet]
        \/ \E todo : till' = [till EXCEPT ![c] = [till[c] EXCEPT !.todo = todo]]
    BY <1>2 DEF CheckLine, Serves
  <2> QED
    BY <2>1, <2>2, CreditPasses
<1>3. ASSUME NEW c \in Tills, RestoreLine(c) \/ ReceiveLine(c) PROVE CreditInv'
  <2>1. /\ UNCHANGED <<credit, received, muddled, sale>> /\ till[c].pc \in {"restore", "receive"}
        /\ \E todo : till' = [till EXCEPT ![c] = [till[c] EXCEPT !.todo = todo]]
    BY <1>3 DEF RestoreLine, ReceiveLine, On
  <2> QED
    BY <2>1, CreditPasses
<1>4. ASSUME NEW c \in Tills,
             InsertOrderItems(c) \/ MarkReceived(c) \/ MarkCancelled(c) \/ SaveStock(c)
      PROVE  CreditInv'
  <2>1. /\ UNCHANGED <<credit, received, muddled, sale>> /\ till[c].pc # "balance"
        /\ till' = [till EXCEPT ![c] = Quiet]
    BY <1>4 DEF InsertOrderItems, MarkReceived, MarkCancelled, SaveStock, On, Serves
  <2> QED
    BY <2>1, CreditPasses
<1>5. ASSUME NEW c \in Tills, InsertOrder(c) PROVE CreditInv'
  <2>1. PICK v : v = [till[c] EXCEPT !.pc = "orderItems"]
    OBVIOUS
  <2>2. /\ UNCHANGED <<credit, received, muddled, sale>> /\ till[c].pc = "purchase"
        /\ till' = [till EXCEPT ![c] = v]
    BY <1>5, <2>1 DEF InsertOrder, On, Go
  <2>3. ASSUME NEW s \in Sales, Orderly(s), About(v, s)
        PROVE  About(till[c], s) /\ TillKnows(v, s)' /\ v.pc # "balance"
    <3>1. About(till[c], s)
      BY <2>1, <2>3, GoesAbout
    <3>2. "pc" \in DOMAIN till[c]
      BY <2>3, <3>1 DEF Orderly, TillKnows
    <3>3. v.pc = "orderItems" /\ "pc" \in DOMAIN v
      BY <2>1, <3>2
    <3> QED
      BY <3>1, <3>3 DEF TillKnows
  <2>4. HasSale(v)
    <3>1. CASE "pc" \in DOMAIN till[c]
      BY <2>1, <3>1 DEF HasSale
    <3>2. CASE "pc" \notin DOMAIN till[c]
      BY <2>1, <2>2, <3>2 DEF HasSale
    <3> QED
      BY <3>1, <3>2
  <2>5. /\ DOMAIN sale' = Sales /\ muddled \subseteq muddled'
        /\ \A s \in Sales : Orderly(s) => {"status", "items"} \subseteq DOMAIN sale'[s]
    BY <2>2 DEF CreditInv, Orderly
  <2> QED
    BY <2>2, <2>3, <2>4, <2>5, CreditGoes
<1>6. ASSUME NEW l \in falling, LoseListener(l) \/ \E i \in l.todo : Decrement(l, i)
      PROVE  CreditInv'
  <2>1. UNCHANGED <<credit, received, sale, till>> /\ muddled \subseteq muddled'
    BY <1>6 DEF LoseListener, Decrement
  <2> QED
    BY <2>1, QuietSteps
<1> QED
  BY <1>1, <1>2, <1>3, <1>4, <1>5, <1>6, CreditBegins, SaleSteps, CreditMoves, BreakLeads
  DEF ShopNext

\* What a customer on credit paid is what was taken from his balance, never more
\* than he owed, and he is paid up when nothing is left; unless two payments of
\* his overlapped or one stopped.
THEOREM CreditBalances == ShopSpec => []CreditAddsUp
<1>1. CreditInv => CreditAddsUp
  <2> SUFFICES ASSUME CreditInv, NEW s \in OnCredit, <<"sale", s>> \notin muddled,
                      \A c \in Tills : <<"sale", s>> \notin Concerns(till[c])
               PROVE  Settled(s)
    BY DEF CreditAddsUp, Settled
  <2>1. s \in Sales /\ \A c \in Tills : ~About(till[c], s)
    BY ShopAssumption, ConcernsSale
  <2> QED
    BY <2>1 DEF CreditInv, Orderly
<1> QED
  BY CreditInit, CreditStep, <1>1, PTL DEF ShopSpec

-----------------------------------------------------------------------------
(* The stock of a shop.                                                    *)

USE ShopAssumption


\* The locals of a request, and the lines it and the listeners have to do.
TillState ==
  {Quiet}
    \union [pc: {"check", "items", "credit", "restore"}, sale: Sales, todo: SUBSET Items]
    \union [pc: {"payment", "balance"}, sale: Sales, amount: Nat,
            to: [paid: Nat, status: {"partial", "paid"}]]
    \union [pc: {"purchase", "orderItems", "cancel"}, purchase: Purchases]
    \union [pc: {"receive"}, purchase: Purchases, todo: SUBSET Items]
    \union [pc: {"adjust"}, good: Goods, by: {-1, 1}, to: Nat]

LinesTodo(me) ==
  /\ me.pc \in {"check", "restore"} => me.todo \subseteq LinesOf(me.sale)
  /\ me.pc = "receive" => me.todo \subseteq LinesOf(me.purchase)

ShopTypes ==
  /\ ShopTypeOK
  /\ till \in [Tills -> TillState] /\ \A c \in Tills : LinesTodo(till[c])
  /\ \A l \in falling : l.todo \subseteq LinesOf(l.sale)

\* The request is about order o, or a correction of g.
ForOrder(me, o) == me.pc \in {"purchase", "orderItems", "cancel", "receive"} /\ me.purchase = o
Sells(me, s) ==
  me.pc \in {"check", "items", "credit", "restore", "payment", "balance"} /\ me.sale = s
Corrects(me, g) == me.pc = "adjust" /\ me.good = g

\* The papers of a sale no two requests were about at a time.
SaleClear(s) ==
  /\ \A c, d \in Tills : Sells(till[c], s) /\ Sells(till[d], s) => c = d
  /\ sale[s].status \in {"none", "completed", "voided"}
  /\ \A c \in Tills : Sells(till[c], s) =>
       /\ till[c].pc \in {"check", "items", "credit"} => \A l \in falling : l.sale # s
       /\ till[c].pc = "check" => sale[s] = NoPaper
       /\ till[c].pc \in {"items", "credit", "restore"} => sale[s].status = "completed"
  /\ sale[s].status = "none" => sale[s] = NoPaper /\ \A l \in falling : l.sale # s
  /\ sale[s].status # "none" =>
       sale[s].items \/ \E c \in Tills : Sells(till[c], s) /\ till[c].pc = "items"
  /\ \A k, l \in falling : k.sale = s /\ l.sale = s => k = l

OrderClear(o) ==
  /\ \A c, d \in Tills : ForOrder(till[c], o) /\ ForOrder(till[d], o) => c = d
  /\ purchase[o].status \in {"none", "pending", "received", "cancelled"}
  /\ \A c \in Tills : ForOrder(till[c], o) =>
       /\ till[c].pc = "purchase" => purchase[o] = NoPaper
       /\ till[c].pc = "orderItems" => purchase[o].status = "pending"
       /\ till[c].pc \in {"receive", "cancel"} => purchase[o].status \in {"pending", "cancelled"}
  /\ purchase[o].status = "none" => purchase[o] = NoPaper
  /\ purchase[o].status # "none" =>
       purchase[o].items \/ \E c \in Tills : ForOrder(till[c], o) /\ till[c].pc = "orderItems"

GoodClear(g) ==
  \A c \in Tills : Corrects(till[c], g) =>
    /\ till[c].to = shelf[g] + till[c].by
    /\ falling = {} /\ \A d \in Tills : till[d].pc \notin Moving
    /\ \A d \in Tills : Corrects(till[d], g) => d = c

AllClear ==
  /\ \A s \in Sales : <<"sale", s>> \notin muddled => SaleClear(s)
  /\ \A o \in Purchases : <<"purchase", o>> \notin muddled => OrderClear(o)
  /\ \A g \in Goods : <<"good", g>> \notin muddled => GoodClear(g)

\* The lines of a product: in one paper, in all sales, in all orders.
Of(paper, g) == {i \in Items : PaperOf[i] = paper /\ GoodOf[i] = g}
SaleLines(g) == {i \in Items : PaperOf[i] \in Sales /\ GoodOf[i] = g}
OrderLines(g) == {i \in Items : PaperOf[i] \in Purchases /\ GoodOf[i] = g}

\* The listener took line i of the sale off the stock; a void put it back; a
\* delivery brought line i of an order.
TakenOff(s, i) ==
  /\ sale[s].status # "none"
  /\ \A c \in Tills : Sells(till[c], s) => till[c].pc \notin {"items", "credit"}
  /\ \A l \in falling : l.sale = s => i \notin l.todo
PutBack(s, i) ==
  \/ sale[s].status = "voided"
  \/ \E c \in Tills : Sells(till[c], s) /\ till[c].pc = "restore" /\ i \notin till[c].todo
Brought(o, i) ==
  \/ purchase[o].status = "received"
  \/ \E c \in Tills : ForOrder(till[c], o) /\ till[c].pc = "receive" /\ i \notin till[c].todo

SoldLine(s, i) ==
  (IF TakenOff(s, i) THEN Quantity[i] ELSE 0) - (IF PutBack(s, i) THEN Quantity[i] ELSE 0)
BroughtLine(o, i) == IF Brought(o, i) THEN Quantity[i] ELSE 0
Sold(g) == [i \in SaleLines(g) |-> SoldLine(PaperOf[i], i)]
Delivered(g) == [i \in OrderLines(g) |-> BroughtLine(PaperOf[i], i)]

AddsUp(g) ==
  shelf[g] = Stocked[g] + adjusted[g]
               + SumOf(Delivered(g), OrderLines(g)) - SumOf(Sold(g), SaleLines(g))

\* Line i of sale s has yet to be taken off the stock; it has yet to be checked.
InFlight(s, i) ==
  \/ \E c \in Tills : Sells(till[c], s) /\ till[c].pc \in {"check", "items", "credit"}
  \/ \E l \in falling : l.sale = s /\ i \in l.todo
Unchecked(s, i) ==
  \E c \in Tills : Sells(till[c], s) /\ till[c].pc = "check" /\ i \in till[c].todo

Enough(g) ==
  /\ shelf[g] >= 0
  /\ \A s, t \in Sales : \A i \in Of(s, g), j \in Of(t, g) : InFlight(s, i) /\ InFlight(t, j) => i = j
  /\ \A s \in Sales : \A i \in Of(s, g) : InFlight(s, i) => Unchecked(s, i) \/ shelf[g] >= Quantity[i]

-----------------------------------------------------------------------------
LEMMA TillKinds ==
  ASSUME ShopTypes, NEW c \in Tills
  PROVE  /\ till[c] \in TillState /\ LinesTodo(till[c])
         /\ till[c].pc \in {"idle", "check", "items", "credit", "restore", "payment", "balance",
                            "purchase", "orderItems", "cancel", "receive", "adjust"}
         /\ till[c].pc = "idle" => till[c] = Quiet
         /\ till[c].pc \in {"check", "items", "credit", "restore"} =>
              till[c] \in [pc: {"check", "items", "credit", "restore"}, sale: Sales, todo: SUBSET Items]
         /\ till[c].pc \in {"payment", "balance"} =>
              till[c] \in [pc: {"payment", "balance"}, sale: Sales, amount: Nat,
                           to: [paid: Nat, status: {"partial", "paid"}]]
         /\ till[c].pc \in {"purchase", "orderItems", "cancel"} =>
              till[c] \in [pc: {"purchase", "orderItems", "cancel"}, purchase: Purchases]
         /\ till[c].pc = "receive" =>
              till[c] \in [pc: {"receive"}, purchase: Purchases, todo: SUBSET Items]
         /\ till[c].pc = "adjust" => till[c] \in [pc: {"adjust"}, good: Goods, by: {-1, 1}, to: Nat]
  BY DEF ShopTypes, TillState, Quiet

LEMMA ListenerLines ==
  ASSUME ShopTypes, NEW l \in falling
  PROVE  /\ l \in [sale: Sales, todo: SUBSET Items] /\ l.todo \subseteq LinesOf(l.sale)
  BY DEF ShopTypes, ShopTypeOK

LEMMA ShopTypesInit == ShopInit => ShopTypes
  BY DEF ShopInit, ShopTypes, ShopTypeOK, TillState, LinesTodo, Quiet, NoPaper, NoCredit, Papers

\* A request begins, goes on or ends, and nothing else changes but what is typed.
LEMMA TillTypes ==
  ASSUME ShopTypes, NEW c \in Tills, NEW v \in TillState, LinesTodo(v),
         till' = [till EXCEPT ![c] = v], UNCHANGED falling
  PROVE  /\ till' \in [Tills -> TillState] /\ \A d \in Tills : LinesTodo(till'[d])
         /\ \A l \in falling' : l.todo \subseteq LinesOf(l.sale)
  BY DEF ShopTypes

LEMMA QuietTyped == Quiet \in TillState /\ LinesTodo(Quiet)
  BY DEF TillState, LinesTodo, Quiet

LEMMA ShopServes ==
  ASSUME ShopTypes, NEW c \in Tills, NEW v, NEW again, Serve(c, v, again), v \in TillState, LinesTodo(v)
  PROVE  ShopTypes'
<1>1. till' = [till EXCEPT ![c] = v] /\ UNCHANGED <<shelf, sale, credit, received, purchase, falling, adjusted>>
  BY DEF Serve
<1> QED
  BY <1>1, TillTypes DEF ShopTypes, ShopTypeOK, LinesTodo

LEMMA LinesOfItems == \A p : LinesOf(p) \subseteq Items
  BY DEF LinesOf

LEMMA ShopTypesBegin ==
  ASSUME ShopTypes, NEW c \in Tills
  PROVE  /\ \A s \in Sales : \/ BeginSale(c, s) \/ BeginVoid(c, s)
                             \/ \E amount \in 1..Total[s] : BeginPayment(c, s, amount)
                             => ShopTypes'
         /\ \A o \in Purchases :
              BeginOrder(c, o) \/ BeginReceive(c, o) \/ BeginCancelOrder(c, o) => ShopTypes'
         /\ \A g \in Goods, by \in {-1, 1} : BeginAdjust(c, g, by) => ShopTypes'
<1>1. ASSUME NEW s \in Sales, BeginSale(c, s) PROVE ShopTypes'
  <2> DEFINE v == [pc |-> "check", sale |-> s, todo |-> LinesOf(s)]
  <2>1. v \in TillState /\ LinesTodo(v)
    BY LinesOfItems DEF TillState, LinesTodo
  <2> QED
    BY <1>1, <2>1, ShopServes DEF BeginSale
<1>2. ASSUME NEW s \in Sales, BeginVoid(c, s) PROVE ShopTypes'
  <2> DEFINE v == [pc |-> "restore", sale |-> s,
                   todo |-> IF sale[s].items THEN LinesOf(s) ELSE {}]
  <2>1. v \in TillState /\ LinesTodo(v)
    BY LinesOfItems DEF TillState, LinesTodo
  <2> QED
    BY <1>2, <2>1, ShopServes DEF BeginVoid
<1>3. ASSUME NEW s \in Sales, NEW amount \in 1..Total[s], BeginPayment(c, s, amount) PROVE ShopTypes'
  <2> DEFINE paid == credit[s].paid + amount
             v == [pc |-> "payment", sale |-> s, amount |-> amount,
                   to |-> [paid |-> paid, status |-> IF paid >= Total[s] THEN "paid" ELSE "partial"]]
  <2>1. paid \in Nat
    BY DEF ShopTypes, ShopTypeOK
  <2>2. v \in TillState /\ LinesTodo(v)
    BY <2>1 DEF TillState, LinesTodo
  <2> QED
    BY <1>3, <2>2, ShopServes DEF BeginPayment
<1>4. ASSUME NEW o \in Purchases, BeginOrder(c, o) PROVE ShopTypes'
  <2> DEFINE v == [pc |-> "purchase", purchase |-> o]
  <2>1. v \in TillState /\ LinesTodo(v)
    BY DEF TillState, LinesTodo
  <2> QED
    BY <1>4, <2>1, ShopServes DEF BeginOrder
<1>5. ASSUME NEW o \in Purchases, BeginReceive(c, o) PROVE ShopTypes'
  <2> DEFINE v == [pc |-> "receive", purchase |-> o,
                   todo |-> IF purchase[o].items THEN LinesOf(o) ELSE {}]
  <2>1. v \in TillState /\ LinesTodo(v)
    BY LinesOfItems DEF TillState, LinesTodo
  <2> QED
    BY <1>5, <2>1, ShopServes DEF BeginReceive
<1>6. ASSUME NEW o \in Purchases, BeginCancelOrder(c, o) PROVE ShopTypes'
  <2> DEFINE v == [pc |-> "cancel", purchase |-> o]
  <2>1. v \in TillState /\ LinesTodo(v)
    BY DEF TillState, LinesTodo
  <2> QED
    BY <1>6, <2>1, ShopServes DEF BeginCancelOrder
<1>7. ASSUME NEW g \in Goods, NEW by \in {-1, 1}, BeginAdjust(c, g, by) PROVE ShopTypes'
  <2> DEFINE v == [pc |-> "adjust", good |-> g, by |-> by, to |-> shelf[g] + by]
  <2>1. shelf[g] + by \in Nat
    BY <1>7 DEF BeginAdjust, ShopTypes, ShopTypeOK
  <2>2. v \in TillState /\ LinesTodo(v)
    BY <2>1 DEF TillState, LinesTodo
  <2> QED
    BY <1>7, <2>2, ShopServes DEF BeginAdjust
<1> QED
  BY <1>1, <1>2, <1>3, <1>4, <1>5, <1>6, <1>7

\* The places a request goes on to.
LEMMA TillGoesOn ==
  ASSUME ShopTypes, NEW c \in Tills
  PROVE  /\ \A todo \in SUBSET till[c].todo :
              till[c].pc \in {"check", "restore", "receive"} =>
                /\ [till[c] EXCEPT !.todo = todo] \in TillState
                /\ LinesTodo([till[c] EXCEPT !.todo = todo])
         /\ \A pc \in {"items", "credit"} : till[c].pc \in {"check", "items"} =>
              [till[c] EXCEPT !.pc = pc] \in TillState /\ LinesTodo([till[c] EXCEPT !.pc = pc])
         /\ till[c].pc = "payment" => /\ [till[c] EXCEPT !.pc = "balance"] \in TillState
                                      /\ LinesTodo([till[c] EXCEPT !.pc = "balance"])
         /\ till[c].pc = "purchase" => /\ [till[c] EXCEPT !.pc = "orderItems"] \in TillState
                                       /\ LinesTodo([till[c] EXCEPT !.pc = "orderItems"])
<1>1. ASSUME NEW todo \in SUBSET till[c].todo, till[c].pc \in {"check", "restore"}
      PROVE  /\ [till[c] EXCEPT !.todo = todo] \in TillState
             /\ LinesTodo([till[c] EXCEPT !.todo = todo])
  BY <1>1, TillKinds DEF TillState, LinesTodo
<1>2. ASSUME NEW todo \in SUBSET till[c].todo, till[c].pc = "receive"
      PROVE  /\ [till[c] EXCEPT !.todo = todo] \in TillState
             /\ LinesTodo([till[c] EXCEPT !.todo = todo])
  BY <1>2, TillKinds DEF TillState, LinesTodo
<1>3. ASSUME NEW pc \in {"items", "credit"}, till[c].pc \in {"check", "items"}
      PROVE  [till[c] EXCEPT !.pc = pc] \in TillState /\ LinesTodo([till[c] EXCEPT !.pc = pc])
  BY <1>3, TillKinds DEF TillState, LinesTodo
<1>4. ASSUME till[c].pc = "payment"
      PROVE  [till[c] EXCEPT !.pc = "balance"] \in TillState /\ LinesTodo([till[c] EXCEPT !.pc = "balance"])
  BY <1>4, TillKinds DEF TillState, LinesTodo
<1>5. ASSUME till[c].pc = "purchase"
      PROVE  /\ [till[c] EXCEPT !.pc = "orderItems"] \in TillState
             /\ LinesTodo([till[c] EXCEPT !.pc = "orderItems"])
  BY <1>5, TillKinds DEF TillState, LinesTodo
<1> QED
  BY <1>1, <1>2, <1>3, <1>4, <1>5

LEMMA PaperSaved ==
  ASSUME NEW p \in Papers
  PROVE  /\ \A status \in {"completed", "voided", "pending", "received", "cancelled"} :
              [p EXCEPT !.status = status] \in Papers
         /\ [p EXCEPT !.items = TRUE] \in Papers
  BY DEF Papers

LEMMA ShopTypesGoOn ==
  ASSUME ShopTypes, NEW c \in Tills,
         \/ On(c, "check") /\ (CheckLine(c) \/ InsertSale(c))
         \/ InsertItems(c) \/ InsertCredit(c)
         \/ On(c, "restore") /\ (RestoreLine(c) \/ MarkVoided(c))
         \/ InsertOrder(c) \/ InsertOrderItems(c)
         \/ On(c, "receive") /\ (ReceiveLine(c) \/ MarkReceived(c))
         \/ MarkCancelled(c) \/ SaveStock(c) \/ InsertPayment(c) \/ SaveCredit(c)
         \/ Break(c)
  PROVE  ShopTypes'
<1> DEFINE me == till[c]
<1>1. CASE CheckLine(c)
  <2>1. PICK v \in TillState : LinesTodo(v) /\ till' = [till EXCEPT ![c] = v]
    <3>1. PICK g \in me.todo :
             till' = [till EXCEPT ![c] = Quiet] \/ till' = [till EXCEPT ![c] = [me EXCEPT !.todo = @ \ {g}]]
      BY <1>1 DEF CheckLine, Serves
    <3>2. me.pc = "check" /\ me.todo \ {g} \in SUBSET me.todo
      BY <1>1 DEF CheckLine, On
    <3> QED
      BY <3>1, <3>2, TillGoesOn, QuietTyped
  <2>2. UNCHANGED <<shelf, sale, credit, received, purchase, falling, adjusted>>
    BY <1>1 DEF CheckLine
  <2> QED
    BY <2>1, <2>2, TillTypes DEF ShopTypes, ShopTypeOK, LinesTodo
<1>2. CASE InsertSale(c)
  <2>1. me.pc = "check" /\ till' = [till EXCEPT ![c] = [me EXCEPT !.pc = "items"]]
    BY <1>2 DEF InsertSale, On, Go
  <2>2. sale' = [sale EXCEPT ![me.sale].status = "completed"] /\ me.sale \in Sales
        /\ UNCHANGED <<shelf, credit, received, purchase, falling, adjusted>>
    BY <1>2, <2>1, TillKinds DEF InsertSale
  <2>3. sale' \in [Sales -> Papers]
    BY <2>2, PaperSaved DEF ShopTypes, ShopTypeOK
  <2> QED
    BY <2>1, <2>2, <2>3, TillTypes, TillGoesOn DEF ShopTypes, ShopTypeOK, LinesTodo
<1>3. CASE InsertItems(c)
  <2> DEFINE new == [sale |-> me.sale, todo |-> LinesOf(me.sale)]
  <2>1. me.pc = "items" /\ me.sale \in Sales
    BY <1>3, TillKinds DEF InsertItems, On
  <2>2. sale' = [sale EXCEPT ![me.sale].items = TRUE]
        /\ UNCHANGED <<shelf, credit, received, purchase, adjusted>>
    BY <1>3 DEF InsertItems
  <2>3. sale' \in [Sales -> Papers]
    BY <2>1, <2>2, PaperSaved DEF ShopTypes, ShopTypeOK
  <2>4. CASE me.sale \in OnCredit
    <3>1. till' = [till EXCEPT ![c] = [me EXCEPT !.pc = "credit"]] /\ UNCHANGED falling
      BY <1>3, <2>4 DEF InsertItems, Go
    <3> QED
      BY <2>1, <2>2, <2>3, <3>1, TillTypes, TillGoesOn DEF ShopTypes, ShopTypeOK, LinesTodo
  <2>5. CASE me.sale \notin OnCredit
    <3>1. till' = [till EXCEPT ![c] = Quiet] /\ falling' = falling \union {new}
      BY <1>3, <2>5 DEF InsertItems, Serves, Announced
    <3>2. falling' \subseteq [sale: Sales, todo: SUBSET Items]
          /\ \A l \in falling' : l.todo \subseteq LinesOf(l.sale)
      BY <2>1, <3>1, LinesOfItems DEF ShopTypes, ShopTypeOK
    <3> QED
      BY <2>1, <2>2, <2>3, <3>1, <3>2, QuietTyped DEF ShopTypes, ShopTypeOK, LinesTodo
  <2> QED
    BY <2>4, <2>5
<1>4. CASE InsertCredit(c)
  <2> DEFINE new == [sale |-> me.sale, todo |-> LinesOf(me.sale)]
  <2>1. me.pc = "credit" /\ me.sale \in Sales
    BY <1>4, TillKinds DEF InsertCredit, On
  <2>2. credit' = [credit EXCEPT ![me.sale].status = "outstanding"]
        /\ till' = [till EXCEPT ![c] = Quiet] /\ falling' = falling \union {new}
        /\ UNCHANGED <<shelf, sale, received, purchase, adjusted>>
    BY <1>4 DEF InsertCredit, Serves, Announced
  <2>3. credit' \in [Sales -> [paid: Nat, status: {"none", "outstanding", "partial", "paid"}]]
    BY <2>1, <2>2 DEF ShopTypes, ShopTypeOK
  <2>4. falling' \subseteq [sale: Sales, todo: SUBSET Items]
        /\ \A l \in falling' : l.todo \subseteq LinesOf(l.sale)
    BY <2>1, <2>2, LinesOfItems DEF ShopTypes, ShopTypeOK
  <2> QED
    BY <2>2, <2>3, <2>4, QuietTyped DEF ShopTypes, ShopTypeOK, LinesTodo
<1>5. CASE RestoreLine(c)
  <2>1. PICK i \in me.todo : till' = [till EXCEPT ![c] = [me EXCEPT !.todo = @ \ {i}]]
                             /\ shelf' = [shelf EXCEPT ![GoodOf[i]] = @ + Quantity[i]]
    BY <1>5 DEF RestoreLine
  <2>2. me.pc = "restore" /\ me.sale \in Sales /\ i \in Items /\ me.todo \ {i} \in SUBSET me.todo
    BY <1>5, TillKinds DEF RestoreLine, On
  <2>3. Quantity[i] \in Int /\ GoodOf[i] \in Goods /\ UNCHANGED <<sale, credit, received, purchase, falling, adjusted>>
    BY <1>5, <2>2 DEF RestoreLine
  <2>4. shelf' \in [Goods -> Int]
    BY <2>1, <2>2, <2>3 DEF ShopTypes, ShopTypeOK
  <2> QED
    BY <2>1, <2>2, <2>3, <2>4, TillTypes, TillGoesOn DEF ShopTypes, ShopTypeOK, LinesTodo
<1>6. CASE MarkVoided(c)
  <2>1. me.pc = "restore" /\ me.sale \in Sales /\ till' = [till EXCEPT ![c] = Quiet]
    BY <1>6, TillKinds DEF MarkVoided, On, Serves
  <2>2. sale' = [sale EXCEPT ![me.sale].status = "voided"]
        /\ UNCHANGED <<shelf, credit, received, purchase, falling, adjusted>>
    BY <1>6 DEF MarkVoided
  <2>3. sale' \in [Sales -> Papers]
    BY <2>1, <2>2, PaperSaved DEF ShopTypes, ShopTypeOK
  <2> QED
    BY <2>1, <2>2, <2>3, TillTypes, QuietTyped DEF ShopTypes, ShopTypeOK, LinesTodo
<1>7. CASE InsertOrder(c)
  <2>1. me.pc = "purchase" /\ me.purchase \in Purchases
        /\ till' = [till EXCEPT ![c] = [me EXCEPT !.pc = "orderItems"]]
    BY <1>7, TillKinds DEF InsertOrder, On, Go
  <2>2. purchase' = [purchase EXCEPT ![me.purchase].status = "pending"]
        /\ UNCHANGED <<shelf, sale, credit, received, falling, adjusted>>
    BY <1>7 DEF InsertOrder
  <2>3. purchase' \in [Purchases -> Papers]
    BY <2>1, <2>2, PaperSaved DEF ShopTypes, ShopTypeOK
  <2> QED
    BY <2>1, <2>2, <2>3, TillTypes, TillGoesOn DEF ShopTypes, ShopTypeOK, LinesTodo
<1>8. CASE InsertOrderItems(c) \/ MarkReceived(c) \/ MarkCancelled(c)
  <2>1. me.purchase \in Purchases /\ till' = [till EXCEPT ![c] = Quiet]
    BY <1>8, TillKinds DEF InsertOrderItems, MarkReceived, MarkCancelled, On, Serves
  <2>2. UNCHANGED <<shelf, sale, credit, received, falling, adjusted>>
    BY <1>8 DEF InsertOrderItems, MarkReceived, MarkCancelled
  <2>3. purchase' \in [Purchases -> Papers]
    <3>1. CASE InsertOrderItems(c)
      BY <2>1, <3>1, PaperSaved DEF InsertOrderItems, ShopTypes, ShopTypeOK
    <3>2. CASE MarkReceived(c)
      BY <2>1, <3>2, PaperSaved DEF MarkReceived, ShopTypes, ShopTypeOK
    <3>3. CASE MarkCancelled(c)
      BY <2>1, <3>3, PaperSaved DEF MarkCancelled, ShopTypes, ShopTypeOK
    <3> QED
      BY <1>8, <3>1, <3>2, <3>3
  <2> QED
    BY <2>1, <2>2, <2>3, TillTypes, QuietTyped DEF ShopTypes, ShopTypeOK, LinesTodo
<1>9. CASE ReceiveLine(c)
  <2>1. PICK i \in me.todo : till' = [till EXCEPT ![c] = [me EXCEPT !.todo = @ \ {i}]]
                             /\ shelf' = [shelf EXCEPT ![GoodOf[i]] = @ + Quantity[i]]
    BY <1>9 DEF ReceiveLine
  <2>2. me.pc = "receive" /\ me.purchase \in Purchases /\ i \in Items /\ me.todo \ {i} \in SUBSET me.todo
    BY <1>9, TillKinds DEF ReceiveLine, On
  <2>3. Quantity[i] \in Int /\ GoodOf[i] \in Goods /\ UNCHANGED <<sale, credit, received, purchase, falling, adjusted>>
    BY <1>9, <2>2 DEF ReceiveLine
  <2>4. shelf' \in [Goods -> Int]
    BY <2>1, <2>2, <2>3 DEF ShopTypes, ShopTypeOK
  <2> QED
    BY <2>1, <2>2, <2>3, <2>4, TillTypes, TillGoesOn DEF ShopTypes, ShopTypeOK, LinesTodo
<1>10. CASE SaveStock(c)
  <2>1. me.pc = "adjust" /\ me.good \in Goods /\ me.to \in Int /\ me.by \in Int
        /\ till' = [till EXCEPT ![c] = Quiet]
    BY <1>10, TillKinds DEF SaveStock, On, Serves
  <2>2. /\ shelf' = [shelf EXCEPT ![me.good] = me.to]
        /\ adjusted' = [adjusted EXCEPT ![me.good] = @ + me.by]
        /\ UNCHANGED <<sale, credit, received, purchase, falling>>
    BY <1>10 DEF SaveStock
  <2>3. shelf' \in [Goods -> Int] /\ adjusted' \in [Goods -> Int]
    BY <2>1, <2>2 DEF ShopTypes, ShopTypeOK
  <2> QED
    BY <2>1, <2>2, <2>3, TillTypes, QuietTyped DEF ShopTypes, ShopTypeOK, LinesTodo
<1>11. CASE InsertPayment(c)
  <2>1. me.pc = "payment" /\ me.sale \in Sales /\ me.amount \in Nat
        /\ till' = [till EXCEPT ![c] = [me EXCEPT !.pc = "balance"]]
    BY <1>11, TillKinds DEF InsertPayment, On, Go
  <2>2. received' = [received EXCEPT ![me.sale] = received[me.sale] + me.amount]
        /\ UNCHANGED <<shelf, sale, credit, purchase, falling, adjusted>>
    BY <1>11 DEF InsertPayment, Books
  <2>3. received' \in [Sales -> Nat]
    BY <2>1, <2>2 DEF ShopTypes, ShopTypeOK
  <2> QED
    BY <2>1, <2>2, <2>3, TillTypes, TillGoesOn DEF ShopTypes, ShopTypeOK, LinesTodo
<1>12. CASE SaveCredit(c)
  <2>1. me.pc = "balance" /\ me.sale \in Sales /\ me.to \in [paid: Nat, status: {"partial", "paid"}]
        /\ till' = [till EXCEPT ![c] = Quiet]
    BY <1>12, TillKinds DEF SaveCredit, On, Serves
  <2>2. credit' = [credit EXCEPT ![me.sale] = me.to]
        /\ UNCHANGED <<shelf, sale, received, purchase, falling, adjusted>>
    BY <1>12 DEF SaveCredit
  <2>3. credit' \in [Sales -> [paid: Nat, status: {"none", "outstanding", "partial", "paid"}]]
    BY <2>1, <2>2 DEF ShopTypes, ShopTypeOK
  <2> QED
    BY <2>1, <2>2, <2>3, TillTypes, QuietTyped DEF ShopTypes, ShopTypeOK, LinesTodo
<1>13. CASE Break(c)
  BY <1>13, TillTypes, QuietTyped DEF Break, Serves, ShopTypes, ShopTypeOK, LinesTodo
<1> QED
  BY <1>1, <1>2, <1>3, <1>4, <1>5, <1>6, <1>7, <1>8, <1>9, <1>10, <1>11, <1>12, <1>13

LEMMA ShopTypesListen ==
  ASSUME ShopTypes, NEW l \in falling, LoseListener(l) \/ \E i \in l.todo : Decrement(l, i)
  PROVE  ShopTypes'
<1>1. CASE LoseListener(l)
  BY <1>1 DEF LoseListener, ShopTypes, ShopTypeOK, LinesTodo
<1>2. ASSUME NEW i \in l.todo, Decrement(l, i) PROVE ShopTypes'
  <2> DEFINE less == [l EXCEPT !.todo = @ \ {i}]
  <2>1. l.sale \in Sales /\ i \in Items /\ GoodOf[i] \in Goods /\ Quantity[i] \in Int
    BY ListenerLines
  <2>2. less \in [sale: Sales, todo: SUBSET Items] /\ less.todo \subseteq LinesOf(less.sale)
    BY ListenerLines
  <2>3. /\ shelf' = [shelf EXCEPT ![GoodOf[i]] = @ - Quantity[i]] /\ falling' \subseteq falling \union {less}
        /\ UNCHANGED <<sale, credit, received, purchase, till, adjusted>>
    BY <1>2 DEF Decrement
  <2>4. shelf' \in [Goods -> Int]
    BY <2>1, <2>3 DEF ShopTypes, ShopTypeOK
  <2>5. falling' \subseteq [sale: Sales, todo: SUBSET Items]
        /\ \A k \in falling' : k.todo \subseteq LinesOf(k.sale)
    <3> HIDE DEF less
    <3> QED
      BY <2>2, <2>3 DEF ShopTypes, ShopTypeOK
  <2> QED
    BY <2>3, <2>4, <2>5 DEF ShopTypes, ShopTypeOK, LinesTodo
<1> QED
  BY <1>1, <1>2

LEMMA ShopTypesStep == ShopTypes /\ [ShopNext]_shopVars => ShopTypes'
<1> SUFFICES ASSUME ShopTypes, [ShopNext]_shopVars PROVE ShopTypes'
  OBVIOUS
<1>1. CASE UNCHANGED shopVars
  BY <1>1 DEF shopVars, ShopTypes, ShopTypeOK, LinesTodo
<1> QED
  BY <1>1, ShopTypesBegin, ShopTypesGoOn, ShopTypesListen DEF ShopNext

-----------------------------------------------------------------------------
(* What requests know of the papers they are alone with.                   *)

LEMMA ConcernsKinds ==
  ASSUME NEW me \in TillState
  PROVE  /\ \A s : <<"sale", s>> \in Concerns(me) <=> Sells(me, s)
         /\ \A o : <<"purchase", o>> \in Concerns(me) <=> ForOrder(me, o)
         /\ \A g : <<"good", g>> \in Concerns(me) <=> Corrects(me, g)
<1>1. CASE me = Quiet
  BY <1>1 DEF Quiet, Concerns, Sells, ForOrder, Corrects
<1>2. CASE me \in [pc: {"check", "items", "credit", "restore"}, sale: Sales, todo: SUBSET Items]
  BY <1>2 DEF Concerns, Sells, ForOrder, Corrects
<1>3. CASE me \in [pc: {"payment", "balance"}, sale: Sales, amount: Nat,
                   to: [paid: Nat, status: {"partial", "paid"}]]
  BY <1>3 DEF Concerns, Sells, ForOrder, Corrects
<1>4. CASE me \in [pc: {"purchase", "orderItems", "cancel"}, purchase: Purchases]
  BY <1>4 DEF Concerns, Sells, ForOrder, Corrects
<1>5. CASE me \in [pc: {"receive"}, purchase: Purchases, todo: SUBSET Items]
  BY <1>5 DEF Concerns, Sells, ForOrder, Corrects
<1>6. CASE me \in [pc: {"adjust"}, good: Goods, by: {-1, 1}, to: Nat]
  BY <1>6 DEF Concerns, Sells, ForOrder, Corrects
<1> QED
  BY <1>1, <1>2, <1>3, <1>4, <1>5, <1>6 DEF TillState

LEMMA QuietIsAbout ==
  \A x : ~Sells(Quiet, x) /\ ~ForOrder(Quiet, x) /\ ~Corrects(Quiet, x)
  BY DEF Quiet, Sells, ForOrder, Corrects

LEMMA OneKind ==
  ASSUME NEW me, NEW s, NEW o, NEW g
  PROVE  /\ ~(Sells(me, s) /\ ForOrder(me, o)) /\ ~(Sells(me, s) /\ Corrects(me, g))
         /\ ~(ForOrder(me, o) /\ Corrects(me, g))
  BY DEF Sells, ForOrder, Corrects

\* A step of till c that leaves the papers of s alone.
LEMMA SaleFrame ==
  ASSUME ShopTypes, NEW s \in Sales, SaleClear(s), NEW c \in Tills, NEW v, till' = [till EXCEPT ![c] = v],
         sale'[s] = sale[s], \A l : l.sale = s => (l \in falling' <=> l \in falling),
         Sells(till[c], s) /\ till[c].pc = "items" => Sells(v, s) /\ v.pc = "items",
         Sells(v, s) =>
           \/ Sells(till[c], s) /\ v.pc \in {till[c].pc, "balance"}
           \/ /\ \A d \in Tills : ~Sells(till[d], s)
              /\ v.pc \in {"check", "restore", "payment"}
              /\ v.pc = "check" => sale[s] = NoPaper
              /\ v.pc = "restore" => sale[s].status = "completed"
  PROVE  SaleClear(s)'
<1>1. till'[c] = v /\ \A d \in Tills \ {c} : till'[d] = till[d]
  BY DEF ShopTypes
<1>2. \A d, e \in Tills : Sells(till'[d], s) /\ Sells(till'[e], s) => d = e
  BY <1>1 DEF SaleClear
<1>3. ASSUME NEW d \in Tills, Sells(till'[d], s)
      PROVE  /\ till'[d].pc \in {"check", "items", "credit"} => \A l \in falling' : l.sale # s
             /\ till'[d].pc = "check" => sale'[s] = NoPaper
             /\ till'[d].pc \in {"items", "credit", "restore"} => sale'[s].status = "completed"
  <2>1. CASE Sells(till[d], s) /\ till'[d].pc \in {till[d].pc, "balance"}
    BY <2>1 DEF SaleClear
  <2>2. CASE d = c /\ ~(Sells(till[d], s) /\ till'[d].pc \in {till[d].pc, "balance"})
    BY <1>1, <1>3, <2>2 DEF SaleClear, NoPaper
  <2> QED
    BY <1>1, <1>3, <2>1, <2>2
<1>4. sale'[s].status # "none" =>
        sale'[s].items \/ \E d \in Tills : Sells(till'[d], s) /\ till'[d].pc = "items"
  <2>1. ASSUME NEW d \in Tills, Sells(till[d], s), till[d].pc = "items"
        PROVE  Sells(till'[d], s) /\ till'[d].pc = "items"
    BY <1>1, <2>1
  <2> QED
    BY <2>1 DEF SaleClear
<1>5. \A k, l \in falling' : k.sale = s /\ l.sale = s => k = l
  BY DEF SaleClear
<1>6. sale'[s].status \in {"none", "completed", "voided"}
      /\ (sale'[s].status = "none" => sale'[s] = NoPaper /\ \A l \in falling' : l.sale # s)
  BY DEF SaleClear
<1>7. \A d \in Tills : \A t : Sells(till[d], t)' <=> Sells(till'[d], t)
  BY DEF Sells
<1> QED
  BY <1>2, <1>3, <1>4, <1>5, <1>6, <1>7 DEF SaleClear

LEMMA OrderFrame ==
  ASSUME ShopTypes, NEW o \in Purchases, OrderClear(o), NEW c \in Tills, NEW v,
         till' = [till EXCEPT ![c] = v], purchase'[o] = purchase[o],
         ForOrder(till[c], o) /\ till[c].pc = "orderItems" => ForOrder(v, o) /\ v.pc = "orderItems",
         ForOrder(v, o) =>
           \/ ForOrder(till[c], o) /\ v.pc = till[c].pc
           \/ /\ \A d \in Tills : ~ForOrder(till[d], o)
              /\ v.pc \in {"purchase", "receive", "cancel"}
              /\ v.pc = "purchase" => purchase[o] = NoPaper
              /\ v.pc \in {"receive", "cancel"} => purchase[o].status \in {"pending", "cancelled"}
  PROVE  OrderClear(o)'
<1>1. till'[c] = v /\ \A d \in Tills \ {c} : till'[d] = till[d]
  BY DEF ShopTypes
<1>2. \A d, e \in Tills : ForOrder(till'[d], o) /\ ForOrder(till'[e], o) => d = e
  BY <1>1 DEF OrderClear
<1>3. ASSUME NEW d \in Tills, ForOrder(till'[d], o)
      PROVE  /\ till'[d].pc = "purchase" => purchase'[o] = NoPaper
             /\ till'[d].pc = "orderItems" => purchase'[o].status = "pending"
             /\ till'[d].pc \in {"receive", "cancel"} => purchase'[o].status \in {"pending", "cancelled"}
  <2>1. CASE ForOrder(till[d], o) /\ till'[d].pc = till[d].pc
    BY <2>1 DEF OrderClear
  <2>2. CASE d = c /\ ~(ForOrder(till[d], o) /\ till'[d].pc = till[d].pc)
    BY <1>1, <1>3, <2>2
  <2> QED
    BY <1>1, <1>3, <2>1, <2>2
<1>4. purchase'[o].status # "none" =>
        purchase'[o].items \/ \E d \in Tills : ForOrder(till'[d], o) /\ till'[d].pc = "orderItems"
  <2>1. ASSUME NEW d \in Tills, ForOrder(till[d], o), till[d].pc = "orderItems"
        PROVE  ForOrder(till'[d], o) /\ till'[d].pc = "orderItems"
    BY <1>1, <2>1
  <2> QED
    BY <2>1 DEF OrderClear
<1>5. purchase'[o].status \in {"none", "pending", "received", "cancelled"}
      /\ (purchase'[o].status = "none" => purchase'[o] = NoPaper)
  BY DEF OrderClear
<1>6. \A d \in Tills : \A t : ForOrder(till[d], t)' <=> ForOrder(till'[d], t)
  BY DEF ForOrder
<1> QED
  BY <1>2, <1>3, <1>4, <1>5, <1>6 DEF OrderClear

\* A step of till c that moves no stock while g is corrected.
LEMMA GoodFrame ==
  ASSUME ShopTypes, NEW g \in Goods, GoodClear(g), NEW c \in Tills, NEW v,
         till' = [till EXCEPT ![c] = v],
         \/ /\ \A d \in Tills : ~Corrects(till[d], g)
            /\ ~Corrects(v, g)
         \/ /\ shelf'[g] = shelf[g] /\ falling' = falling
            /\ v.pc \in Moving => till[c].pc \in Moving
            /\ Corrects(v, g) => /\ \A d \in Tills : ~Corrects(till[d], g)
                                 /\ v.to = shelf[g] + v.by /\ v.pc \notin Moving
                                 /\ falling = {} /\ \A d \in Tills : till[d].pc \notin Moving
  PROVE  GoodClear(g)'
<1>1. till'[c] = v /\ \A d \in Tills \ {c} : till'[d] = till[d]
  BY DEF ShopTypes
<1>2. \A d \in Tills : Corrects(till[d], g)' <=> Corrects(till'[d], g)
  BY DEF Corrects
<1>3. ASSUME NEW d \in Tills, Corrects(till'[d], g)
      PROVE  /\ till'[d].to = shelf'[g] + till'[d].by
             /\ falling' = {} /\ \A e \in Tills : till'[e].pc \notin Moving
             /\ \A e \in Tills : Corrects(till'[e], g) => e = d
  <2>1. CASE d = c
    BY <1>1, <1>3, <2>1
  <2>2. CASE d # c
    BY <1>1, <1>3, <2>2 DEF GoodClear
  <2> QED
    BY <2>1, <2>2
<1> QED
  BY <1>2, <1>3 DEF GoodClear

\* What a request that begins makes muddled.
LEMMA ServeMuddles ==
  ASSUME NEW c \in Tills, NEW v, NEW again, Serve(c, v, again)
  PROVE  /\ muddled \subseteq muddled' /\ (again => Concerns(v) \subseteq muddled')
         /\ \A d \in Tills : Concerns(v) \cap Concerns(till[d]) \subseteq muddled'
         /\ v.pc = "adjust" /\ StockMoves => Concerns(v) \subseteq muddled'
         /\ v.pc \in Moving => \A d \in Adjusting : Concerns(till[d]) \subseteq muddled'
         /\ v.pc = "check" => \A i \in v.todo : \A k \in (OnSale \union v.todo) \ {i} :
                              GoodOf[k] = GoodOf[i] => <<"rush", GoodOf[i]>> \in muddled'
<1>1. muddled \subseteq muddled'
  BY DEF Serve
<1>2. ASSUME again PROVE Concerns(v) \subseteq muddled'
  BY <1>2 DEF Serve
<1>3. ASSUME NEW d \in Tills, NEW x \in Concerns(v) \cap Concerns(till[d]) PROVE x \in muddled'
  BY DEF Serve
<1>4. ASSUME v.pc = "adjust", StockMoves, NEW x \in Concerns(v) PROVE x \in muddled'
  BY <1>4 DEF Serve
<1>5. ASSUME v.pc \in Moving, NEW d \in Adjusting, NEW x \in Concerns(till[d]) PROVE x \in muddled'
  BY <1>5 DEF Serve
<1>6. ASSUME v.pc = "check", NEW i \in v.todo, NEW k \in (OnSale \union v.todo) \ {i},
             GoodOf[k] = GoodOf[i]
      PROVE  <<"rush", GoodOf[i]>> \in muddled'
  <2>1. <<"rush", GoodOf[i]>> \in Rushed(v.todo)
    BY <1>6 DEF Rushed
  <2> QED
    BY <1>6, <2>1 DEF Serve
<1> QED
  BY <1>1, <1>2, <1>3, <1>4, <1>5, <1>6

LEMMA ClearServes ==
  ASSUME ShopTypes, AllClear, NEW c \in Tills, NEW v \in TillState, NEW again, Serve(c, v, again),
         \A s \in Sales : Sells(v, s) => /\ v.pc \in {"check", "restore", "payment"}
                                         /\ v.pc = "check" => sale[s] = NoPaper
                                         /\ v.pc = "restore" => sale[s].status = "completed",
         \A o \in Purchases : ForOrder(v, o) /\ <<"purchase", o>> \notin muddled' =>
           /\ v.pc \in {"purchase", "receive", "cancel"}
           /\ v.pc = "purchase" => purchase[o] = NoPaper
           /\ OrderClear(o) /\ v.pc \in {"receive", "cancel"} =>
                purchase[o].status \in {"pending", "cancelled"},
         \A g \in Goods : Corrects(v, g) => v.to = shelf[g] + v.by
  PROVE  AllClear'
<1>1. /\ till[c] = Quiet /\ till' = [till EXCEPT ![c] = v]
      /\ UNCHANGED <<shelf, sale, purchase, falling>> /\ muddled \subseteq muddled'
      /\ \A d \in Tills : Concerns(v) \cap Concerns(till[d]) \subseteq muddled'
      /\ v.pc = "adjust" /\ StockMoves => Concerns(v) \subseteq muddled'
      /\ v.pc \in Moving => \A d \in Adjusting : Concerns(till[d]) \subseteq muddled'
  BY ServeMuddles DEF Serve
<1>2. \A d \in Tills : till[d] \in TillState
  BY DEF ShopTypes
<1>3. ASSUME NEW s \in Sales, <<"sale", s>> \notin muddled' PROVE SaleClear(s)'
  <2>1. SaleClear(s) /\ ~Sells(till[c], s)
    BY <1>1, <1>3, QuietIsAbout DEF AllClear
  <2>2. Sells(v, s) => \A d \in Tills : ~Sells(till[d], s)
    BY <1>1, <1>2, <1>3, ConcernsKinds
  <2>3. sale'[s] = sale[s] /\ \A l : l.sale = s => (l \in falling' <=> l \in falling)
    BY <1>1
  <2> QED
    BY <1>1, <2>1, <2>2, <2>3, SaleFrame
<1>4. ASSUME NEW o \in Purchases, <<"purchase", o>> \notin muddled' PROVE OrderClear(o)'
  <2>1. OrderClear(o) /\ ~ForOrder(till[c], o)
    BY <1>1, <1>4, QuietIsAbout DEF AllClear
  <2>2. ForOrder(v, o) => \A d \in Tills : ~ForOrder(till[d], o)
    BY <1>1, <1>2, <1>4, ConcernsKinds
  <2>3. purchase'[o] = purchase[o]
    BY <1>1
  <2> QED
    BY <1>1, <1>4, <2>1, <2>2, <2>3, OrderFrame
<1>5. ASSUME NEW g \in Goods, <<"good", g>> \notin muddled' PROVE GoodClear(g)'
  <2>1. GoodClear(g)
    BY <1>1, <1>5 DEF AllClear
  <2>2. CASE v.pc \in Moving
    <3>1. ASSUME NEW d \in Tills, Corrects(till[d], g) PROVE FALSE
      <4>1. d \in Adjusting /\ <<"good", g>> \in Concerns(till[d])
        BY <1>2, <3>1, ConcernsKinds DEF Adjusting, Corrects
      <4> QED
        BY <1>1, <1>5, <2>2, <4>1
    <3>2. ~Corrects(v, g)
      BY <2>2 DEF Moving, Corrects
    <3> QED
      BY <1>1, <2>1, <3>1, <3>2, GoodFrame
  <2>3. CASE v.pc \notin Moving
    <3>1. ASSUME Corrects(v, g)
          PROVE  /\ \A d \in Tills : ~Corrects(till[d], g)
                 /\ v.to = shelf[g] + v.by /\ falling = {} /\ \A d \in Tills : till[d].pc \notin Moving
      <4>1. <<"good", g>> \in Concerns(v) /\ v.pc = "adjust"
        BY <3>1, ConcernsKinds DEF Corrects
      <4>2. ~StockMoves
        BY <1>1, <1>5, <4>1
      <4>3. \A d \in Tills : ~Corrects(till[d], g)
        BY <1>1, <1>2, <1>5, <4>1, ConcernsKinds
      <4> QED
        BY <3>1, <4>2, <4>3 DEF StockMoves
    <3>2. shelf'[g] = shelf[g] /\ falling' = falling
      BY <1>1
    <3> QED
      BY <1>1, <2>1, <2>3, <3>1, <3>2, GoodFrame
  <2> QED
    BY <2>2, <2>3
<1> QED
  BY <1>3, <1>4, <1>5 DEF AllClear

LEMMA BeginSaleClear ==
  ASSUME ShopTypes, AllClear, NEW c \in Tills, NEW s \in Sales,
         \/ BeginSale(c, s) \/ BeginVoid(c, s)
         \/ \E amount \in 1..Total[s] : BeginPayment(c, s, amount)
  PROVE  AllClear'
<1>1. CASE BeginSale(c, s)
  <2>0. PICK v : v = [pc |-> "check", sale |-> s, todo |-> LinesOf(s)]
    OBVIOUS
  <2>1. v \in TillState /\ v.pc = "check"
    BY <2>0, LinesOfItems DEF TillState
  <2>2. Serve(c, v, FALSE) /\ sale[s] = NoPaper
    BY <1>1, <2>0 DEF BeginSale
  <2>3. \A t : Sells(v, t) => t = s
    BY <2>0 DEF Sells
  <2>4. \A t : ~ForOrder(v, t) /\ ~Corrects(v, t)
    BY <2>1 DEF ForOrder, Corrects
  <2> QED
    BY <2>1, <2>2, <2>3, <2>4, ClearServes
<1>2. CASE BeginVoid(c, s)
  <2>0. PICK v : v = [pc |-> "restore", sale |-> s,
                      todo |-> IF sale[s].items THEN LinesOf(s) ELSE {}]
    OBVIOUS
  <2>1. v \in TillState /\ v.pc = "restore"
    BY <2>0, LinesOfItems DEF TillState
  <2>2. Serve(c, v, FALSE) /\ sale[s].status = "completed"
    BY <1>2, <2>0 DEF BeginVoid, Voidable
  <2>3. \A t : Sells(v, t) => t = s
    BY <2>0 DEF Sells
  <2>4. \A t : ~ForOrder(v, t) /\ ~Corrects(v, t)
    BY <2>1 DEF ForOrder, Corrects
  <2> QED
    BY <2>1, <2>2, <2>3, <2>4, ClearServes
<1>3. ASSUME NEW amount \in 1..Total[s], BeginPayment(c, s, amount) PROVE AllClear'
  <2> DEFINE paid == credit[s].paid + amount
  <2>0. PICK v : v = [pc |-> "payment", sale |-> s, amount |-> amount,
             to |-> [paid |-> paid, status |-> IF paid >= Total[s] THEN "paid" ELSE "partial"]]
    OBVIOUS
  <2>1. v \in TillState /\ v.pc = "payment"
    BY <2>0 DEF ShopTypes, ShopTypeOK, TillState
  <2>2. Serve(c, v, FALSE)
    BY <1>3, <2>0 DEF BeginPayment
  <2>3. \A t : Sells(v, t) => t = s
    BY <2>0 DEF Sells
  <2>4. \A t : ~ForOrder(v, t) /\ ~Corrects(v, t)
    BY <2>1 DEF ForOrder, Corrects
  <2> QED
    BY <2>1, <2>2, <2>3, <2>4, ClearServes
<1> QED
  BY <1>1, <1>2, <1>3

LEMMA BeginOrderClear ==
  ASSUME ShopTypes, AllClear, NEW c \in Tills, NEW o \in Purchases,
         BeginOrder(c, o) \/ BeginReceive(c, o) \/ BeginCancelOrder(c, o)
  PROVE  AllClear'
<1>1. PICK v \in TillState, again \in BOOLEAN :
        /\ Serve(c, v, again) /\ v.purchase = o /\ v.pc \in {"purchase", "receive", "cancel"}
        /\ v.pc = "purchase" => purchase[o] = NoPaper
        /\ v.pc \in {"receive", "cancel"} =>
             purchase[o] # NoPaper /\ again = (purchase[o].status = "received")
  <2>1. CASE BeginOrder(c, o)
    <3> DEFINE v == [pc |-> "purchase", purchase |-> o]
    <3>1. v \in TillState
      BY DEF TillState
    <3> QED
      BY <2>1, <3>1 DEF BeginOrder
  <2>2. CASE BeginReceive(c, o)
    <3> DEFINE v == [pc |-> "receive", purchase |-> o,
                     todo |-> IF purchase[o].items THEN LinesOf(o) ELSE {}]
    <3>1. v \in TillState
      BY LinesOfItems DEF TillState
    <3> QED
      BY <2>2, <3>1 DEF BeginReceive
  <2>3. CASE BeginCancelOrder(c, o)
    <3> DEFINE v == [pc |-> "cancel", purchase |-> o]
    <3>1. v \in TillState
      BY DEF TillState
    <3> QED
      BY <2>3, <3>1 DEF BeginCancelOrder
  <2> QED
    BY <2>1, <2>2, <2>3
<1>2. \A t : /\ ForOrder(v, t) => t = o
             /\ ~Sells(v, t) /\ ~Corrects(v, t)
  BY <1>1 DEF ForOrder, Sells, Corrects
<1>3. again => Concerns(v) \subseteq muddled'
  BY <1>1 DEF Serve
<1>4. <<"purchase", o>> \in Concerns(v)
  BY <1>1, ConcernsKinds DEF ForOrder
<1>5. <<"purchase", o>> \notin muddled' /\ OrderClear(o) /\ v.pc \in {"receive", "cancel"} =>
        purchase[o].status \in {"pending", "cancelled"}
  BY <1>1, <1>3, <1>4 DEF OrderClear
<1> QED
  BY <1>1, <1>2, <1>5, ClearServes

LEMMA BeginAdjustClear ==
  ASSUME ShopTypes, AllClear, NEW c \in Tills, NEW g \in Goods, NEW by \in {-1, 1}, BeginAdjust(c, g, by)
  PROVE  AllClear'
<1>0. PICK v : v = [pc |-> "adjust", good |-> g, by |-> by, to |-> shelf[g] + by]
  OBVIOUS
<1>1. v \in TillState /\ v.pc = "adjust" /\ v.to = shelf[g] + v.by
  BY <1>0 DEF BeginAdjust, ShopTypes, ShopTypeOK, TillState
<1>2. Serve(c, v, FALSE)
  BY <1>0 DEF BeginAdjust
<1>3. \A t : /\ Corrects(v, t) => t = g
             /\ ~Sells(v, t) /\ ~ForOrder(v, t)
  BY <1>0 DEF ForOrder, Sells, Corrects
<1> QED
  BY <1>1, <1>2, <1>3, ClearServes

\* A request that goes on: with its own paper it knows what it did, and every other
\* paper is as it was.
LEMMA ClearGoes ==
  ASSUME ShopTypes, AllClear, NEW c \in Tills, NEW v, till' = [till EXCEPT ![c] = v],
         muddled \subseteq muddled',
         \A s \in Sales : <<"sale", s>> \notin muddled' =>
           \/ SaleClear(s)'
           \/ /\ sale'[s] = sale[s] /\ \A l : l.sale = s => (l \in falling' <=> l \in falling)
              /\ Sells(till[c], s) /\ till[c].pc = "items" => Sells(v, s) /\ v.pc = "items"
              /\ Sells(v, s) => Sells(till[c], s) /\ v.pc \in {till[c].pc, "balance"},
         \A o \in Purchases : <<"purchase", o>> \notin muddled' =>
           \/ OrderClear(o)'
           \/ /\ purchase'[o] = purchase[o]
              /\ ForOrder(till[c], o) /\ till[c].pc = "orderItems" => ForOrder(v, o) /\ v.pc = "orderItems"
              /\ ForOrder(v, o) => ForOrder(till[c], o) /\ v.pc = till[c].pc,
         v.pc \in Moving => till[c].pc \in Moving, v.pc # "adjust",
         \A g \in Goods : \/ till[c].pc \in Moving
                          \/ shelf'[g] = shelf[g] /\ falling' = falling
                          \/ Corrects(till[c], g) /\ falling' = falling
  PROVE  AllClear'
<1>1. ASSUME NEW s \in Sales, <<"sale", s>> \notin muddled' PROVE SaleClear(s)'
  BY <1>1, SaleFrame DEF AllClear
<1>2. ASSUME NEW o \in Purchases, <<"purchase", o>> \notin muddled' PROVE OrderClear(o)'
  BY <1>2, OrderFrame DEF AllClear
<1>3. ASSUME NEW g \in Goods, <<"good", g>> \notin muddled' PROVE GoodClear(g)'
  <2>1. GoodClear(g) /\ ~Corrects(v, g)
    BY <1>3 DEF AllClear, Corrects
  <2>2. CASE till[c].pc \in Moving
    <3>1. \A d \in Tills : ~Corrects(till[d], g)
      BY <2>1, <2>2 DEF GoodClear
    <3> QED
      BY <2>1, <3>1, GoodFrame
  <2>3. CASE shelf'[g] = shelf[g] /\ falling' = falling
    BY <2>1, <2>3, GoodFrame
  <2>4. CASE Corrects(till[c], g)
    <3>1. \A d \in Tills : Corrects(till'[d], g) => Corrects(till[d], g) /\ d # c
      BY <2>1 DEF ShopTypes
    <3>2. \A d \in Tills : ~Corrects(till'[d], g)
      BY <2>1, <2>4, <3>1 DEF GoodClear
    <3>3. \A d \in Tills : Corrects(till[d], g)' <=> Corrects(till'[d], g)
      BY DEF Corrects
    <3> QED
      BY <3>2, <3>3 DEF GoodClear
  <2> QED
    BY <2>2, <2>3, <2>4
<1> QED
  BY <1>1, <1>2, <1>3 DEF AllClear

\* A request about a sale is about nothing else.
LEMMA SalePaper ==
  ASSUME ShopTypes, NEW c \in Tills, Sells(till[c], till[c].sale)
  PROVE  /\ till[c].sale \in Sales
         /\ \A s : Sells(till[c], s) => s = till[c].sale
         /\ \A o : ~ForOrder(till[c], o)
         /\ \A g : ~Corrects(till[c], g)
  BY TillKinds DEF Sells, ForOrder, Corrects

\* The saves of a sale and of an order: where the request goes, and what is written.
SaleSaved(c, s, v) ==
  \/ /\ till[c].pc = "check" /\ Sells(v, s) /\ v.pc = "items" /\ falling' = falling
     /\ sale' = [sale EXCEPT ![s].status = "completed"]
  \/ /\ till[c].pc = "items" /\ Sells(v, s) /\ v.pc = "credit" /\ falling' = falling
     /\ sale' = [sale EXCEPT ![s].items = TRUE]
  \/ /\ till[c].pc = "items" /\ v = Quiet /\ falling' = Announced(s)
     /\ sale' = [sale EXCEPT ![s].items = TRUE]
  \/ /\ till[c].pc = "credit" /\ v = Quiet /\ falling' = Announced(s) /\ sale' = sale
  \/ /\ till[c].pc = "restore" /\ till[c].todo = {} /\ v = Quiet /\ falling' = falling
     /\ sale' = [sale EXCEPT ![s].status = "voided"]

OrderSaved(c, o, v) ==
  \/ /\ till[c].pc = "purchase" /\ ForOrder(v, o) /\ v.pc = "orderItems"
     /\ purchase' = [purchase EXCEPT ![o].status = "pending"]
  \/ /\ till[c].pc = "orderItems" /\ v = Quiet
     /\ purchase' = [purchase EXCEPT ![o].items = TRUE]
  \/ /\ till[c].pc = "receive" /\ till[c].todo = {} /\ v = Quiet
     /\ purchase' = [purchase EXCEPT ![o].status = "received"]
  \/ /\ till[c].pc = "cancel" /\ v = Quiet
     /\ purchase' = [purchase EXCEPT ![o].status = "cancelled"]

\* The sale's own request writes its row, or announces it.
LEMMA SaleWrittenClear ==
  ASSUME ShopTypes, NEW s \in Sales, SaleClear(s), NEW c \in Tills, NEW v,
         till' = [till EXCEPT ![c] = v], Sells(till[c], s), SaleSaved(c, s, v)
  PROVE  SaleClear(s)'
<1>1. till'[c] = v /\ \A d \in Tills \ {c} : till'[d] = till[d]
  BY DEF ShopTypes
<1>2. \A d \in Tills \ {c} : ~Sells(till[d], s)
  BY DEF SaleClear
<1>3. \A d \in Tills : Sells(till'[d], s) => d = c
  BY <1>1, <1>2
<1>4. \A d \in Tills : \A t : Sells(till[d], t)' <=> Sells(till'[d], t)
  BY DEF Sells
<1>5. ~Sells(Quiet, s) /\ sale[s] \in Papers /\ DOMAIN sale = Sales
  BY QuietIsAbout DEF ShopTypes, ShopTypeOK
<1>6. CASE /\ till[c].pc = "check" /\ Sells(v, s) /\ v.pc = "items" /\ falling' = falling
           /\ sale' = [sale EXCEPT ![s].status = "completed"]
  <2>1. sale'[s].status = "completed" /\ (\A l \in falling' : l.sale # s)
    BY <1>5, <1>6 DEF SaleClear, Papers
  <2> QED
    BY <1>1, <1>3, <1>4, <1>6, <2>1 DEF SaleClear
<1>7. CASE /\ till[c].pc = "items" /\ Sells(v, s) /\ v.pc = "credit" /\ falling' = falling
           /\ sale' = [sale EXCEPT ![s].items = TRUE]
  <2>1. sale'[s].status = "completed" /\ sale'[s].items /\ (\A l \in falling' : l.sale # s)
    BY <1>5, <1>7 DEF SaleClear, Papers
  <2> QED
    BY <1>1, <1>3, <1>4, <1>7, <2>1 DEF SaleClear
<1>8. CASE /\ till[c].pc \in {"items", "credit"} /\ v = Quiet /\ falling' = Announced(s)
           /\ sale' = [sale EXCEPT ![s].items = TRUE] \/ (till[c].pc = "credit" /\ sale' = sale)
  <2>1. sale'[s].status = "completed" /\ sale'[s].items
    <3>1. CASE sale' = [sale EXCEPT ![s].items = TRUE]
      BY <1>5, <1>8, <3>1 DEF SaleClear, Papers
    <3>2. CASE till[c].pc = "credit" /\ sale' = sale
      <4>1. sale[s].status = "completed"
        BY <3>2 DEF SaleClear
      <4>2. ~ \E d \in Tills : Sells(till[d], s) /\ till[d].pc = "items"
        BY <1>2, <3>2
      <4> QED
        BY <3>2, <4>1, <4>2 DEF SaleClear
    <3> QED
      BY <1>8, <3>1, <3>2
  <2>2. \A d \in Tills : ~Sells(till'[d], s)
    BY <1>1, <1>3, <1>5, <1>8
  <2>3. \A k, l \in falling' : k.sale = s /\ l.sale = s => k = l
    BY <1>8 DEF SaleClear, Announced
  <2> QED
    BY <1>4, <2>1, <2>2, <2>3 DEF SaleClear
<1>9. CASE /\ till[c].pc = "restore" /\ v = Quiet /\ falling' = falling
           /\ sale' = [sale EXCEPT ![s].status = "voided"]
  <2>1. \A d \in Tills : ~Sells(till'[d], s)
    BY <1>1, <1>3, <1>5, <1>9
  <2>2. sale[s].status = "completed" /\ ~ \E d \in Tills : Sells(till[d], s) /\ till[d].pc = "items"
    BY <1>2, <1>9 DEF SaleClear
  <2>3. sale'[s].status = "voided" /\ sale'[s].items
    BY <1>5, <1>9, <2>2 DEF SaleClear, Papers
  <2> QED
    BY <1>4, <1>9, <2>1, <2>3 DEF SaleClear
<1> QED
  BY <1>6, <1>7, <1>8, <1>9 DEF SaleSaved

LEMMA OrderWrittenClear ==
  ASSUME ShopTypes, NEW o \in Purchases, OrderClear(o), NEW c \in Tills, NEW v,
         till' = [till EXCEPT ![c] = v], ForOrder(till[c], o), OrderSaved(c, o, v)
  PROVE  OrderClear(o)'
<1>1. till'[c] = v /\ \A d \in Tills \ {c} : till'[d] = till[d]
  BY DEF ShopTypes
<1>2. \A d \in Tills \ {c} : ~ForOrder(till[d], o)
  BY DEF OrderClear
<1>3. \A d \in Tills : ForOrder(till'[d], o) => d = c
  BY <1>1, <1>2
<1>4. \A d \in Tills : \A t : ForOrder(till[d], t)' <=> ForOrder(till'[d], t)
  BY DEF ForOrder
<1>5. ~ForOrder(Quiet, o) /\ purchase[o] \in Papers /\ DOMAIN purchase = Purchases
  BY QuietIsAbout DEF ShopTypes, ShopTypeOK
<1>6. CASE /\ till[c].pc = "purchase" /\ ForOrder(v, o) /\ v.pc = "orderItems"
           /\ purchase' = [purchase EXCEPT ![o].status = "pending"]
  <2>1. purchase'[o].status = "pending"
    BY <1>5, <1>6 DEF Papers
  <2> QED
    BY <1>1, <1>3, <1>4, <1>6, <2>1 DEF OrderClear
<1>7. CASE /\ till[c].pc \in {"receive", "cancel"} /\ v = Quiet
           /\ \E status \in {"received", "cancelled"} :
                purchase' = [purchase EXCEPT ![o].status = status]
  <2>1. purchase[o].items /\ purchase'[o].items /\ purchase'[o].status \in {"received", "cancelled"}
    <3>1. purchase[o].status # "none" /\ ~ \E d \in Tills : ForOrder(till[d], o) /\ till[d].pc = "orderItems"
      BY <1>2, <1>7 DEF OrderClear
    <3> QED
      BY <1>5, <1>7, <3>1 DEF OrderClear, Papers
  <2>2. \A d \in Tills : ~ForOrder(till'[d], o)
    BY <1>1, <1>3, <1>5, <1>7
  <2> QED
    BY <1>4, <2>1, <2>2 DEF OrderClear
<1>8. CASE till[c].pc = "orderItems" /\ v = Quiet /\ purchase' = [purchase EXCEPT ![o].items = TRUE]
  <2>1. purchase'[o].items /\ purchase'[o].status = "pending"
    BY <1>5, <1>8 DEF OrderClear, Papers
  <2>2. \A d \in Tills : ~ForOrder(till'[d], o)
    BY <1>1, <1>3, <1>5, <1>8
  <2> QED
    BY <1>4, <2>1, <2>2 DEF OrderClear
<1> QED
  BY <1>6, <1>7, <1>8 DEF OrderSaved

\* A request about an order is about nothing else.
LEMMA OrderPaper ==
  ASSUME ShopTypes, NEW c \in Tills, ForOrder(till[c], till[c].purchase)
  PROVE  /\ till[c].purchase \in Purchases
         /\ \A o : ForOrder(till[c], o) => o = till[c].purchase
         /\ \A s : ~Sells(till[c], s)
         /\ \A g : ~Corrects(till[c], g)
  BY TillKinds DEF Sells, ForOrder, Corrects

LEMMA SaleSaves ==
  ASSUME ShopTypes, NEW c \in Tills, InsertSale(c) \/ InsertItems(c) \/ InsertCredit(c) \/ MarkVoided(c)
  PROVE  \E s \in Sales, v \in TillState :
           /\ till' = [till EXCEPT ![c] = v] /\ Sells(till[c], s) /\ SaleSaved(c, s, v)
           /\ UNCHANGED <<shelf, received, purchase, adjusted, muddled>>
<1> DEFINE me == till[c]
           s == me.sale
<1>1. CASE InsertSale(c)
  <2> DEFINE v == [me EXCEPT !.pc = "items"]
  <2>1. me.pc = "check" /\ Sells(me, s) /\ s \in Sales /\ v \in TillState /\ Sells(v, s) /\ v.pc = "items"
    BY <1>1, TillKinds, TillGoesOn DEF InsertSale, On, Sells
  <2> QED
    BY <1>1, <2>1 DEF InsertSale, Go, SaleSaved
<1>2. CASE InsertItems(c) /\ s \in OnCredit
  <2> DEFINE v == [me EXCEPT !.pc = "credit"]
  <2>1. me.pc = "items" /\ Sells(me, s) /\ s \in Sales /\ v \in TillState /\ Sells(v, s) /\ v.pc = "credit"
    BY <1>2, TillKinds, TillGoesOn DEF InsertItems, On, Sells
  <2> QED
    BY <1>2, <2>1 DEF InsertItems, Go, SaleSaved
<1>3. CASE InsertItems(c) /\ s \notin OnCredit
  <2>1. me.pc = "items" /\ Sells(me, s) /\ s \in Sales
    BY <1>3, TillKinds DEF InsertItems, On, Sells
  <2> QED
    BY <1>3, <2>1, QuietTyped DEF InsertItems, Serves, SaleSaved
<1>4. CASE InsertCredit(c)
  <2>1. me.pc = "credit" /\ Sells(me, s) /\ s \in Sales
    BY <1>4, TillKinds DEF InsertCredit, On, Sells
  <2> QED
    BY <1>4, <2>1, QuietTyped DEF InsertCredit, Serves, SaleSaved
<1>5. CASE MarkVoided(c)
  <2>1. me.pc = "restore" /\ Sells(me, s) /\ s \in Sales
    BY <1>5, TillKinds DEF MarkVoided, On, Sells
  <2> QED
    BY <1>5, <2>1, QuietTyped DEF MarkVoided, Serves, SaleSaved
<1> QED
  BY <1>1, <1>2, <1>3, <1>4, <1>5

LEMMA OrderSaves ==
  ASSUME ShopTypes, NEW c \in Tills,
         InsertOrder(c) \/ InsertOrderItems(c) \/ MarkReceived(c) \/ MarkCancelled(c)
  PROVE  \E o \in Purchases, v \in TillState :
           /\ till' = [till EXCEPT ![c] = v] /\ ForOrder(till[c], o) /\ OrderSaved(c, o, v)
           /\ UNCHANGED <<shelf, sale, received, falling, adjusted, muddled>>
<1> DEFINE me == till[c]
           o == me.purchase
<1>1. CASE InsertOrder(c)
  <2> DEFINE v == [me EXCEPT !.pc = "orderItems"]
  <2>1. /\ me.pc = "purchase" /\ ForOrder(me, o) /\ o \in Purchases /\ v \in TillState
        /\ ForOrder(v, o) /\ v.pc = "orderItems"
    BY <1>1, TillKinds, TillGoesOn DEF InsertOrder, On, ForOrder
  <2> QED
    BY <1>1, <2>1 DEF InsertOrder, Go, OrderSaved
<1>2. CASE InsertOrderItems(c)
  <2>1. me.pc = "orderItems" /\ ForOrder(me, o) /\ o \in Purchases
    BY <1>2, TillKinds DEF InsertOrderItems, On, ForOrder
  <2> QED
    BY <1>2, <2>1, QuietTyped DEF InsertOrderItems, Serves, OrderSaved
<1>3. CASE MarkReceived(c)
  <2>1. me.pc = "receive" /\ ForOrder(me, o) /\ o \in Purchases
    BY <1>3, TillKinds DEF MarkReceived, On, ForOrder
  <2> QED
    BY <1>3, <2>1, QuietTyped DEF MarkReceived, Serves, OrderSaved
<1>4. CASE MarkCancelled(c)
  <2>1. me.pc = "cancel" /\ ForOrder(me, o) /\ o \in Purchases
    BY <1>4, TillKinds DEF MarkCancelled, On, ForOrder
  <2> QED
    BY <1>4, <2>1, QuietTyped DEF MarkCancelled, Serves, OrderSaved
<1> QED
  BY <1>1, <1>2, <1>3, <1>4

\* Lines checked, put back or brought, payments, and requests that end: no paper is
\* written.
LEMMA PaperKept ==
  ASSUME ShopTypes, NEW c \in Tills,
         CheckLine(c) \/ RestoreLine(c) \/ ReceiveLine(c) \/ InsertPayment(c) \/ SaveCredit(c)
         \/ SaveStock(c) \/ Break(c)
  PROVE  \E v \in TillState :
           /\ till' = [till EXCEPT ![c] = v] /\ UNCHANGED <<sale, purchase, falling>>
           /\ \/ /\ v = Quiet /\ till[c].pc \in {"check", "balance", "adjust"}
                 /\ muddled' = muddled
              \/ v = Quiet /\ muddled' = muddled \union Concerns(till[c]) /\ UNCHANGED <<shelf, adjusted>>
              \/ /\ v.pc = till[c].pc /\ v.pc \in {"check", "restore", "receive"} /\ muddled' = muddled
                 /\ \A s : Sells(v, s) <=> Sells(till[c], s)
                 /\ \A o : ForOrder(v, o) <=> ForOrder(till[c], o)
              \/ /\ v.pc = "balance" /\ till[c].pc = "payment" /\ muddled' = muddled
                 /\ \A s : Sells(v, s) <=> Sells(till[c], s)
                 /\ UNCHANGED <<shelf, adjusted>>
           /\ \/ UNCHANGED <<shelf, adjusted>>
              \/ RestoreLine(c) \/ ReceiveLine(c) \/ SaveStock(c)
<1> DEFINE me == till[c]
<1>1. ASSUME NEW todo \in SUBSET me.todo, me.pc \in {"check", "restore", "receive"},
             till' = [till EXCEPT ![c] = [me EXCEPT !.todo = todo]]
      PROVE  \E v \in TillState :
               /\ till' = [till EXCEPT ![c] = v] /\ v.pc = me.pc
               /\ \A s : Sells(v, s) <=> Sells(me, s)
               /\ \A o : ForOrder(v, o) <=> ForOrder(me, o)
  <2> DEFINE v == [me EXCEPT !.todo = todo]
  <2>1. v \in TillState /\ v.pc = me.pc
    BY <1>1, TillGoesOn, TillKinds
  <2>2. \A s : Sells(v, s) <=> Sells(me, s)
    BY <1>1, <2>1, TillKinds DEF Sells
  <2>3. \A o : ForOrder(v, o) <=> ForOrder(me, o)
    BY <1>1, <2>1, TillKinds DEF ForOrder
  <2> QED
    BY <1>1, <2>1, <2>2, <2>3
<1>2. CASE CheckLine(c)
  <2>1. PICK g \in me.todo : \/ till' = [till EXCEPT ![c] = Quiet]
                             \/ till' = [till EXCEPT ![c] = [me EXCEPT !.todo = me.todo \ {g}]]
    BY <1>2 DEF CheckLine, Serves
  <2>2. me.pc = "check" /\ UNCHANGED <<sale, purchase, falling, muddled, shelf, adjusted>>
    BY <1>2 DEF CheckLine, On
  <2>3. CASE till' = [till EXCEPT ![c] = Quiet]
    BY <2>2, <2>3, QuietTyped
  <2>4. CASE till' = [till EXCEPT ![c] = [me EXCEPT !.todo = me.todo \ {g}]]
    <3>1. me.todo \ {g} \in SUBSET me.todo
      OBVIOUS
    <3>2. PICK v \in TillState :
               /\ till' = [till EXCEPT ![c] = v] /\ v.pc = me.pc
               /\ \A s : Sells(v, s) <=> Sells(me, s)
               /\ \A o : ForOrder(v, o) <=> ForOrder(me, o)
      BY <1>1, <2>2, <2>4, <3>1
    <3> QED
      BY <2>2, <3>2
  <2> QED
    BY <2>1, <2>3, <2>4
<1>3. CASE RestoreLine(c) \/ ReceiveLine(c)
  <2>1. PICK g \in me.todo : till' = [till EXCEPT ![c] = [me EXCEPT !.todo = me.todo \ {g}]]
    BY <1>3 DEF RestoreLine, ReceiveLine
  <2>2. me.pc \in {"restore", "receive"} /\ UNCHANGED <<sale, purchase, falling, muddled>>
    BY <1>3 DEF RestoreLine, ReceiveLine, On
  <2>3. PICK v \in TillState : /\ till' = [till EXCEPT ![c] = v] /\ v.pc = me.pc
                               /\ \A s : Sells(v, s) <=> Sells(me, s)
                               /\ \A o : ForOrder(v, o) <=> ForOrder(me, o)
    BY <1>1, <2>1, <2>2
  <2> QED
    BY <1>3, <2>2, <2>3
<1>4. CASE InsertPayment(c)
  <2> DEFINE v == [me EXCEPT !.pc = "balance"]
  <2>1. /\ me.pc = "payment" /\ till' = [till EXCEPT ![c] = v]
        /\ UNCHANGED <<sale, purchase, falling, muddled, shelf, adjusted>>
    BY <1>4 DEF InsertPayment, On, Go
  <2>2. v \in TillState /\ v.pc = "balance" /\ \A s : Sells(v, s) <=> Sells(me, s)
    BY <2>1, TillKinds, TillGoesOn DEF Sells
  <2> QED
    BY <2>1, <2>2
<1>5. CASE SaveCredit(c) \/ SaveStock(c)
  <2>1. /\ me.pc \in {"balance", "adjust"} /\ till' = [till EXCEPT ![c] = Quiet]
        /\ UNCHANGED <<sale, purchase, falling, muddled>>
        /\ UNCHANGED <<shelf, adjusted>> \/ SaveStock(c)
    BY <1>5 DEF SaveCredit, SaveStock, On, Serves
  <2> QED
    BY <1>5, <2>1, QuietTyped
<1>6. CASE Break(c)
  BY <1>6, QuietTyped DEF Break, Serves
<1> QED
  BY <1>2, <1>3, <1>4, <1>5, <1>6

LEMMA ClearGoOn ==
  ASSUME ShopTypes, AllClear, NEW c \in Tills,
         \/ CheckLine(c) \/ InsertSale(c) \/ InsertItems(c) \/ InsertCredit(c)
         \/ RestoreLine(c) \/ MarkVoided(c)
         \/ InsertOrder(c) \/ InsertOrderItems(c) \/ ReceiveLine(c) \/ MarkReceived(c)
         \/ MarkCancelled(c) \/ SaveStock(c) \/ InsertPayment(c) \/ SaveCredit(c) \/ Break(c)
  PROVE  AllClear'
<1> DEFINE me == till[c]
<1>1. CASE InsertSale(c) \/ InsertItems(c) \/ InsertCredit(c) \/ MarkVoided(c)
  <2>1. PICK s \in Sales, v \in TillState :
           /\ till' = [till EXCEPT ![c] = v] /\ Sells(me, s) /\ SaleSaved(c, s, v)
           /\ UNCHANGED <<shelf, received, purchase, adjusted, muddled>>
    BY <1>1, SaleSaves
  <2>2. <<"sale", s>> \notin muddled' => SaleClear(s)'
    BY <2>1, SaleWrittenClear DEF AllClear
  <2>3. /\ \A t : Sells(me, t) => t = s
        /\ \A o : ~ForOrder(me, o)
        /\ \A t : Sells(v, t) => t = s
        /\ \A o : ~ForOrder(v, o)
    BY <2>1, QuietIsAbout DEF Sells, ForOrder, SaleSaved
  <2>4. ASSUME NEW t \in Sales, t # s
        PROVE  sale'[t] = sale[t] /\ \A l : l.sale = t => (l \in falling' <=> l \in falling)
    BY <2>1, <2>4 DEF SaleSaved, Announced, ShopTypes, ShopTypeOK
  <2>5. me.pc \in Moving /\ v.pc # "adjust"
    BY <2>1 DEF SaleSaved, Moving, Quiet
  <2>6. \A t \in Sales : <<"sale", t>> \notin muddled' =>
           \/ SaleClear(t)'
           \/ /\ sale'[t] = sale[t] /\ \A l : l.sale = t => (l \in falling' <=> l \in falling)
              /\ Sells(till[c], t) /\ till[c].pc = "items" => Sells(v, t) /\ v.pc = "items"
              /\ Sells(v, t) => Sells(till[c], t) /\ v.pc \in {till[c].pc, "balance"}
    BY <2>2, <2>3, <2>4
  <2>7. \A o \in Purchases : <<"purchase", o>> \notin muddled' =>
           \/ OrderClear(o)'
           \/ /\ purchase'[o] = purchase[o]
              /\ ForOrder(till[c], o) /\ till[c].pc = "orderItems" => ForOrder(v, o) /\ v.pc = "orderItems"
              /\ ForOrder(v, o) => ForOrder(till[c], o) /\ v.pc = till[c].pc
    BY <2>1, <2>3
  <2>8. till' = [till EXCEPT ![c] = v] /\ muddled \subseteq muddled'
    BY <2>1
  <2> QED
    BY <2>5, <2>6, <2>7, <2>8, ClearGoes
<1>2. CASE InsertOrder(c) \/ InsertOrderItems(c) \/ MarkReceived(c) \/ MarkCancelled(c)
  <2>1. PICK o \in Purchases, v \in TillState :
           /\ till' = [till EXCEPT ![c] = v] /\ ForOrder(me, o) /\ OrderSaved(c, o, v)
           /\ UNCHANGED <<shelf, sale, received, falling, adjusted, muddled>>
    BY <1>2, OrderSaves
  <2>2. <<"purchase", o>> \notin muddled' => OrderClear(o)'
    BY <2>1, OrderWrittenClear DEF AllClear
  <2>3. /\ \A t : ForOrder(me, t) => t = o
        /\ \A s : ~Sells(me, s)
        /\ \A t : ForOrder(v, t) => t = o
        /\ \A s : ~Sells(v, s)
    BY <2>1, QuietIsAbout DEF Sells, ForOrder, OrderSaved
  <2>4. \A t \in Purchases : t # o => purchase'[t] = purchase[t]
    BY <2>1 DEF OrderSaved, ShopTypes, ShopTypeOK
  <2>5. (v.pc \in Moving => me.pc \in Moving) /\ v.pc # "adjust"
    BY <2>1 DEF OrderSaved, Moving, Quiet
  <2>6. \A t \in Sales : <<"sale", t>> \notin muddled' =>
           \/ SaleClear(t)'
           \/ /\ sale'[t] = sale[t] /\ \A l : l.sale = t => (l \in falling' <=> l \in falling)
              /\ Sells(till[c], t) /\ till[c].pc = "items" => Sells(v, t) /\ v.pc = "items"
              /\ Sells(v, t) => Sells(till[c], t) /\ v.pc \in {till[c].pc, "balance"}
    BY <2>1, <2>3
  <2>7. \A t \in Purchases : <<"purchase", t>> \notin muddled' =>
           \/ OrderClear(t)'
           \/ /\ purchase'[t] = purchase[t]
              /\ ForOrder(till[c], t) /\ till[c].pc = "orderItems" => ForOrder(v, t) /\ v.pc = "orderItems"
              /\ ForOrder(v, t) => ForOrder(till[c], t) /\ v.pc = till[c].pc
    BY <2>2, <2>3, <2>4
  <2>8. /\ till' = [till EXCEPT ![c] = v] /\ muddled \subseteq muddled'
        /\ \A g \in Goods : shelf'[g] = shelf[g] /\ falling' = falling
    BY <2>1
  <2> QED
    BY <2>5, <2>6, <2>7, <2>8, ClearGoes
<1>3. CASE CheckLine(c) \/ RestoreLine(c) \/ ReceiveLine(c) \/ InsertPayment(c) \/ SaveCredit(c)
           \/ SaveStock(c) \/ Break(c)
  <2>1. PICK v \in TillState :
           /\ till' = [till EXCEPT ![c] = v] /\ UNCHANGED <<sale, purchase, falling>>
           /\ \/ /\ v = Quiet /\ me.pc \in {"check", "balance", "adjust"}
                 /\ muddled' = muddled
              \/ v = Quiet /\ muddled' = muddled \union Concerns(me) /\ UNCHANGED <<shelf, adjusted>>
              \/ /\ v.pc = me.pc /\ v.pc \in {"check", "restore", "receive"} /\ muddled' = muddled
                 /\ \A s : Sells(v, s) <=> Sells(me, s)
                 /\ \A o : ForOrder(v, o) <=> ForOrder(me, o)
              \/ /\ v.pc = "balance" /\ me.pc = "payment" /\ muddled' = muddled
                 /\ \A s : Sells(v, s) <=> Sells(me, s)
                 /\ UNCHANGED <<shelf, adjusted>>
           /\ \/ UNCHANGED <<shelf, adjusted>>
              \/ RestoreLine(c) \/ ReceiveLine(c) \/ SaveStock(c)
    BY <1>3, PaperKept
  <2>2. \A s : <<"sale", s>> \notin muddled' =>
           /\ Sells(me, s) /\ me.pc = "items" => Sells(v, s) /\ v.pc = "items"
           /\ Sells(v, s) => Sells(me, s) /\ v.pc \in {me.pc, "balance"}
    BY <2>1, QuietIsAbout, ConcernsKinds, TillKinds
  <2>3. \A o : <<"purchase", o>> \notin muddled' =>
           /\ ForOrder(me, o) /\ me.pc = "orderItems" => ForOrder(v, o) /\ v.pc = "orderItems"
           /\ ForOrder(v, o) => ForOrder(me, o) /\ v.pc = me.pc
    <3>1. v.pc = "balance" => \A o : ~ForOrder(v, o)
      BY DEF ForOrder
    <3> QED
      BY <2>1, <3>1, QuietIsAbout, ConcernsKinds, TillKinds
  <2>4. (v.pc \in Moving => me.pc \in Moving) /\ v.pc # "adjust" /\ muddled \subseteq muddled'
    BY <2>1 DEF Moving, Quiet
  <2>5. \A g \in Goods : \/ me.pc \in Moving
                         \/ shelf'[g] = shelf[g] /\ falling' = falling
                         \/ Corrects(me, g) /\ falling' = falling
    <3>1. CASE UNCHANGED <<shelf, adjusted>>
      BY <2>1, <3>1
    <3>2. CASE RestoreLine(c) \/ ReceiveLine(c)
      BY <3>2 DEF RestoreLine, ReceiveLine, On, Moving
    <3>3. CASE SaveStock(c)
      <4>1. me.pc = "adjust" /\ shelf' = [shelf EXCEPT ![me.good] = me.to]
        BY <3>3 DEF SaveStock, On
      <4> QED
        BY <2>1, <4>1 DEF Corrects, ShopTypes, ShopTypeOK
    <3> QED
      BY <2>1, <3>1, <3>2, <3>3
  <2>6. sale' = sale /\ purchase' = purchase /\ falling' = falling
    BY <2>1
  <2> QED
    BY <2>1, <2>2, <2>3, <2>4, <2>5, <2>6, ClearGoes
<1> QED
  BY <1>1, <1>2, <1>3

LEMMA ClearListens ==
  ASSUME ShopTypes, AllClear, NEW l \in falling, LoseListener(l) \/ \E i \in l.todo : Decrement(l, i)
  PROVE  AllClear'
<1>1. /\ UNCHANGED <<sale, purchase, till>> /\ muddled \subseteq muddled'
      /\ \A k \in falling' : k \in falling \/ k.sale = l.sale
      /\ \A k \in falling : k \in falling' \/ k = l
      /\ \A k \in falling' \ falling : l \notin falling'
      /\ LoseListener(l) \/ \A k, m \in falling' \ falling : k = m
  <2>1. CASE LoseListener(l)
    BY <2>1 DEF LoseListener
  <2>2. ASSUME NEW g \in l.todo, Decrement(l, g)
        PROVE  \A k \in falling' : (k \in falling /\ k # l) \/ k = [l EXCEPT !.todo = @ \ {g}]
    BY <2>2 DEF Decrement
  <2>3. ASSUME NEW g \in l.todo
        PROVE  l # [l EXCEPT !.todo = @ \ {g}] /\ [l EXCEPT !.todo = @ \ {g}].sale = l.sale
    BY ListenerLines
  <2>4. ASSUME NEW g \in l.todo, Decrement(l, g)
        PROVE  /\ UNCHANGED <<sale, purchase, till, muddled>>
               /\ \A k \in falling : k \in falling' \/ k = l
    BY <2>4 DEF Decrement
  <2>5. ASSUME NEW g \in l.todo, Decrement(l, g)
        PROVE  /\ \A k \in falling' : k \in falling \/ k.sale = l.sale
               /\ \A k \in falling' \ falling : l \notin falling'
               /\ \A k, m \in falling' \ falling : k = m
    <3> DEFINE less == [l EXCEPT !.todo = @ \ {g}]
    <3>1. l # less /\ less.sale = l.sale
      BY <2>3
    <3>2. \A k \in falling' : (k \in falling /\ k # l) \/ k = less
      BY <2>2, <2>5
    <3> HIDE DEF less
    <3> QED
      BY <3>1, <3>2
  <2>6. CASE \E i \in l.todo : Decrement(l, i)
    BY <2>4, <2>5, <2>6
  <2> QED
    BY <2>1, <2>6
<1>2. ASSUME NEW s \in Sales, <<"sale", s>> \notin muddled' PROVE SaleClear(s)'
  <2>1. SaleClear(s)
    BY <1>1, <1>2 DEF AllClear
  <2>2. LoseListener(l) => l.sale # s
    <3>1. LoseListener(l) => Concerns(l) \subseteq muddled'
      BY DEF LoseListener
    <3>2. <<"sale", l.sale>> \in Concerns(l)
      BY ListenerLines DEF Concerns
    <3> QED
      BY <1>2, <3>1, <3>2
  <2>3. (\A k \in falling : k.sale # s) => \A k \in falling' : k.sale # s
    BY <1>1
  <2>4. \A k, m \in falling' : k.sale = s /\ m.sale = s => k = m
    <3> SUFFICES ASSUME NEW k \in falling', NEW m \in falling', k.sale = s, m.sale = s PROVE k = m
      OBVIOUS
    <3>1. CASE l.sale # s
      BY <1>1, <2>1, <3>1 DEF SaleClear
    <3>2. CASE l.sale = s
      BY <1>1, <2>1, <2>2, <3>2 DEF SaleClear
    <3> QED
      BY <3>1, <3>2
  <2>5. \A d \in Tills : \A t : Sells(till[d], t)' <=> Sells(till[d], t)
    BY <1>1 DEF Sells
  <2> QED
    BY <1>1, <2>1, <2>3, <2>4, <2>5 DEF SaleClear
<1>3. ASSUME NEW o \in Purchases, <<"purchase", o>> \notin muddled' PROVE OrderClear(o)'
  <2>1. OrderClear(o)
    BY <1>1, <1>3 DEF AllClear
  <2> QED
    BY <1>1, <2>1 DEF OrderClear, ForOrder
<1>4. ASSUME NEW g \in Goods, <<"good", g>> \notin muddled' PROVE GoodClear(g)'
  <2>1. \A d \in Tills : ~Corrects(till[d], g)
    BY <1>1, <1>4 DEF AllClear, GoodClear
  <2> QED
    BY <1>1, <2>1 DEF GoodClear, Corrects
<1> QED
  BY <1>2, <1>3, <1>4 DEF AllClear

LEMMA ClearInit == ShopInit => AllClear
<1> SUFFICES ASSUME ShopInit PROVE AllClear
  OBVIOUS
<1>1. \A c \in Tills : till[c] = Quiet
  BY DEF ShopInit
<1>2. \A s \in Sales : SaleClear(s)
  BY <1>1, QuietIsAbout DEF ShopInit, SaleClear, NoPaper
<1>3. \A o \in Purchases : OrderClear(o)
  BY <1>1, QuietIsAbout DEF ShopInit, OrderClear, NoPaper
<1>4. \A g \in Goods : GoodClear(g)
  BY <1>1, QuietIsAbout DEF GoodClear
<1> QED
  BY <1>2, <1>3, <1>4 DEF AllClear

LEMMA ClearStep == ShopTypes /\ AllClear /\ [ShopNext]_shopVars => AllClear'
<1> SUFFICES ASSUME ShopTypes, AllClear, [ShopNext]_shopVars PROVE AllClear'
  OBVIOUS
<1>1. CASE UNCHANGED shopVars
  BY <1>1 DEF shopVars, AllClear, SaleClear, OrderClear, GoodClear, Sells, ForOrder, Corrects
<1> QED
  BY <1>1, BeginSaleClear, BeginOrderClear, BeginAdjustClear, ClearGoOn, ClearListens DEF ShopNext

-----------------------------------------------------------------------------
(* The stock and the lines that make it up.                                *)

LEMMA LinesAreInts ==
  ASSUME ShopTypes, NEW g \in Goods
  PROVE  /\ \A s \in Sales : Of(s, g) \subseteq SaleLines(g) /\ \A i \in Of(s, g) : PaperOf[i] = s
         /\ \A o \in Purchases : Of(o, g) \subseteq OrderLines(g) /\ \A i \in Of(o, g) : PaperOf[i] = o
         /\ \A i \in SaleLines(g) : PaperOf[i] \in Sales /\ i \in Of(PaperOf[i], g)
         /\ \A i \in OrderLines(g) : PaperOf[i] \in Purchases /\ i \in Of(PaperOf[i], g)
         /\ \A i \in Items : Quantity[i] \in Nat /\ Quantity[i] > 0
         /\ shelf[g] \in Int /\ adjusted[g] \in Int /\ Stocked[g] \in Int
<1>1. \A i \in Items : Quantity[i] \in Nat /\ Quantity[i] > 0
  OBVIOUS
<1>2. shelf[g] \in Int /\ adjusted[g] \in Int /\ Stocked[g] \in Int
  BY DEF ShopTypes, ShopTypeOK
<1> QED
  BY <1>1, <1>2 DEF Of, SaleLines, OrderLines

LEMMA LinesMoveInts ==
  \A i \in Items : \A p : SoldLine(p, i) \in Int /\ BroughtLine(p, i) \in Int
<1> SUFFICES ASSUME NEW i \in Items, NEW p PROVE SoldLine(p, i) \in Int /\ BroughtLine(p, i) \in Int
  OBVIOUS
<1>1. Quantity[i] \in Int
  OBVIOUS
<1> QED
  BY <1>1 DEF SoldLine, BroughtLine

LEMMA SumsAreFinite ==
  \A g : IsFiniteSet(SaleLines(g)) /\ IsFiniteSet(OrderLines(g))
<1> SUFFICES ASSUME NEW g PROVE IsFiniteSet(SaleLines(g)) /\ IsFiniteSet(OrderLines(g))
  OBVIOUS
<1>1. SaleLines(g) \subseteq Items /\ OrderLines(g) \subseteq Items
  BY DEF SaleLines, OrderLines
<1> QED
  BY <1>1, FS_Subset

\* The stock still adds up when it moves as the lines do.
LEMMA AddsUpMoves ==
  ASSUME ShopTypes, ShopTypes', NEW g \in Goods, AddsUp(g), NEW gone \in Int, NEW brought \in Int,
         OneMoves(Sold(g), Sold(g)', SaleLines(g), gone),
         OneMoves(Delivered(g), Delivered(g)', OrderLines(g), brought),
         shelf'[g] = shelf[g] + (adjusted'[g] - adjusted[g]) + brought - gone
  PROVE  AddsUp(g)'
<1>1. PICK S : S = SaleLines(g)
  OBVIOUS
<1>2. PICK O : O = OrderLines(g)
  OBVIOUS
<1>3. /\ S \subseteq Items /\ O \subseteq Items /\ IsFiniteSet(S) /\ IsFiniteSet(O)
       /\ S = SaleLines(g)' /\ O = OrderLines(g)'
  BY <1>1, <1>2, SumsAreFinite DEF SaleLines, OrderLines
<1>4. PICK f : f = Sold(g)
  OBVIOUS
<1>5. PICK h : h = Sold(g)'
  OBVIOUS
<1>6. PICK p : p = Delivered(g)
  OBVIOUS
<1>7. PICK q : q = Delivered(g)'
  OBVIOUS
<1>8. \A i \in S : f[i] \in Int /\ h[i] \in Int
  <2>1. \A i \in S : SoldLine(PaperOf[i], i) \in Int
    BY <1>3, LinesMoveInts
  <2>2. ASSUME NEW i \in S PROVE SoldLine(PaperOf[i], i)' \in Int
    <3>1. Quantity[i] \in Int
      BY <1>3
    <3> QED
      BY <3>1 DEF SoldLine
  <2> QED
    BY <1>1, <1>4, <1>5, <2>1, <2>2 DEF Sold, SaleLines
<1>9. \A i \in O : p[i] \in Int /\ q[i] \in Int
  <2>1. \A i \in O : BroughtLine(PaperOf[i], i) \in Int
    BY <1>3, LinesMoveInts
  <2>2. ASSUME NEW i \in O PROVE BroughtLine(PaperOf[i], i)' \in Int
    <3>1. Quantity[i] \in Int
      BY <1>3
    <3> QED
      BY <3>1 DEF BroughtLine
  <2> QED
    BY <1>2, <1>6, <1>7, <2>1, <2>2 DEF Delivered, OrderLines
<1>10. OneMoves(f, h, S, gone) /\ OneMoves(p, q, O, brought)
  BY <1>1, <1>2, <1>4, <1>5, <1>6, <1>7
<1>11. SumOf(h, S) = SumOf(f, S) + gone /\ SumOf(f, S) \in Int
  BY <1>3, <1>8, <1>10, SumMoves
<1>12. SumOf(q, O) = SumOf(p, O) + brought /\ SumOf(p, O) \in Int
  BY <1>3, <1>9, <1>10, SumMoves
<1>13. shelf[g] = Stocked[g] + adjusted[g] + SumOf(p, O) - SumOf(f, S)
  BY <1>1, <1>2, <1>4, <1>6 DEF AddsUp
<1>14. shelf'[g] = Stocked[g] + adjusted'[g] + SumOf(q, O) - SumOf(h, S)
  <2>1. shelf[g] \in Int /\ adjusted[g] \in Int /\ Stocked[g] \in Int /\ adjusted'[g] \in Int
    BY DEF ShopTypes, ShopTypeOK
  <2> QED
    BY <1>11, <1>12, <1>13, <2>1
<1> QED
  BY <1>3, <1>5, <1>7, <1>14 DEF AddsUp

\* What is known of a product nothing soiled.
LEMMA Spotless ==
  ASSUME ShopTypes, AllClear, NEW g \in Goods, ~Soiled(g)
  PROVE  /\ GoodClear(g)
         /\ \A s \in Sales : \A i \in Of(s, g) : SaleClear(s) /\ <<"sale", s>> \notin muddled
         /\ \A o \in Purchases : \A i \in Of(o, g) : OrderClear(o) /\ <<"purchase", o>> \notin muddled
  BY DEF Soiled, AllClear, Of

LEMMA SoiledStays ==
  ASSUME NEW g \in Goods, muddled \subseteq muddled', ~Soiled(g)' PROVE ~Soiled(g)
  BY DEF Soiled

\* A sale's line stays what it was.
LEMMA SoldSame ==
  ASSUME ShopTypes, NEW s \in Sales, NEW i \in Items, NEW c \in Tills, NEW v,
         till' = [till EXCEPT ![c] = v],
         /\ sale'[s].status = sale[s].status
         /\ (\E l \in falling' : l.sale = s /\ i \in l.todo) <=> (\E l \in falling : l.sale = s /\ i \in l.todo)
         /\ (Sells(v, s) /\ v.pc \in {"items", "credit"})
              <=> (Sells(till[c], s) /\ till[c].pc \in {"items", "credit"})
         /\ (Sells(v, s) /\ v.pc = "restore" /\ i \notin v.todo)
              <=> (Sells(till[c], s) /\ till[c].pc = "restore" /\ i \notin till[c].todo)
  PROVE  SoldLine(s, i)' = SoldLine(s, i)
<1>1. till'[c] = v /\ \A d \in Tills \ {c} : till'[d] = till[d]
  BY DEF ShopTypes
<1>2. \A d \in Tills : Sells(till[d], s)' <=> Sells(till'[d], s)
  BY DEF Sells
<1>3. \A d \in Tills : (Sells(till'[d], s) /\ till'[d].pc \in {"items", "credit"})
                         <=> (Sells(till[d], s) /\ till[d].pc \in {"items", "credit"})
  BY <1>1
<1>4. \A d \in Tills : (Sells(till'[d], s) /\ till'[d].pc = "restore" /\ i \notin till'[d].todo)
                         <=> (Sells(till[d], s) /\ till[d].pc = "restore" /\ i \notin till[d].todo)
  BY <1>1
<1>5. TakenOff(s, i)' <=> TakenOff(s, i)
  BY <1>2, <1>3 DEF TakenOff
<1>6. PutBack(s, i)' <=> PutBack(s, i)
  BY <1>2, <1>4 DEF PutBack
<1> QED
  BY <1>5, <1>6 DEF SoldLine

LEMMA BroughtSame ==
  ASSUME ShopTypes, NEW o \in Purchases, NEW i \in Items, NEW c \in Tills, NEW v,
         till' = [till EXCEPT ![c] = v],
         /\ (purchase'[o].status = "received") <=> (purchase[o].status = "received")
         /\ (ForOrder(v, o) /\ v.pc = "receive" /\ i \notin v.todo)
              <=> (ForOrder(till[c], o) /\ till[c].pc = "receive" /\ i \notin till[c].todo)
  PROVE  BroughtLine(o, i)' = BroughtLine(o, i)
<1>1. till'[c] = v /\ \A d \in Tills \ {c} : till'[d] = till[d]
  BY DEF ShopTypes
<1>2. \A d \in Tills : ForOrder(till[d], o)' <=> ForOrder(till'[d], o)
  BY DEF ForOrder
<1>3. \A d \in Tills : (ForOrder(till'[d], o) /\ till'[d].pc = "receive" /\ i \notin till'[d].todo)
                         <=> (ForOrder(till[d], o) /\ till[d].pc = "receive" /\ i \notin till[d].todo)
  BY <1>1
<1>4. Brought(o, i)' <=> Brought(o, i)
  BY <1>2, <1>3 DEF Brought
<1> QED
  BY <1>4 DEF BroughtLine

\* Nobody comes into the way of the sales of a product.
LEMMA EnoughStays ==
  ASSUME ShopTypes, NEW g \in Goods, Enough(g), shelf'[g] \in Int, shelf'[g] >= shelf[g],
         \A s \in Sales : \A i \in Of(s, g) : InFlight(s, i)' =>
           InFlight(s, i) /\ (Unchecked(s, i) => Unchecked(s, i)' \/ shelf[g] >= Quantity[i])
  PROVE  Enough(g)'
<1>0. \A p : Of(p, g)' = Of(p, g)
  BY DEF Of
<1>1. shelf[g] \in Int /\ \A s \in Sales : \A i \in Of(s, g) : Quantity[i] \in Int
  BY LinesAreInts DEF Of
<1>2. \A s, t \in Sales : \A i \in Of(s, g), j \in Of(t, g) : InFlight(s, i)' /\ InFlight(t, j)' => i = j
  BY DEF Enough
<1>3. \A s \in Sales : \A i \in Of(s, g) : InFlight(s, i)' => Unchecked(s, i)' \/ shelf'[g] >= Quantity[i]
  BY <1>1 DEF Enough
<1>4. shelf'[g] >= 0
  BY <1>1 DEF Enough
<1> QED
  BY <1>0, <1>2, <1>3, <1>4 DEF Enough

-----------------------------------------------------------------------------
GoodKept(g) == ~Soiled(g) => AddsUp(g) /\ (<<"rush", g>> \notin muddled => Enough(g))

LEMMA GoodStays ==
  ASSUME ShopTypes, ShopTypes', NEW g \in Goods, GoodKept(g), muddled \subseteq muddled',
         ~Soiled(g)' =>
           /\ \A s \in Sales : \A i \in Of(s, g) : SoldLine(s, i)' = SoldLine(s, i)
           /\ \A o \in Purchases : \A i \in Of(o, g) : BroughtLine(o, i)' = BroughtLine(o, i)
           /\ shelf'[g] = shelf[g] + (adjusted'[g] - adjusted[g])
           /\ <<"rush", g>> \notin muddled' /\ Enough(g) => Enough(g)'
  PROVE  GoodKept(g)'
<1> SUFFICES ASSUME ~Soiled(g)' PROVE AddsUp(g)' /\ (<<"rush", g>> \notin muddled' => Enough(g)')
  BY DEF GoodKept
<1>1. AddsUp(g) /\ (<<"rush", g>> \notin muddled => Enough(g))
  BY SoiledStays DEF GoodKept
<1>2. OneMoves(Sold(g), Sold(g)', SaleLines(g), 0)
  <2>1. \A i \in SaleLines(g) : SoldLine(PaperOf[i], i)' = SoldLine(PaperOf[i], i)
    BY LinesAreInts
  <2> QED
    BY <2>1 DEF OneMoves, Sold, SaleLines
<1>3. OneMoves(Delivered(g), Delivered(g)', OrderLines(g), 0)
  <2>1. \A i \in OrderLines(g) : BroughtLine(PaperOf[i], i)' = BroughtLine(PaperOf[i], i)
    BY LinesAreInts
  <2> QED
    BY <2>1 DEF OneMoves, Delivered, OrderLines
<1>4. shelf'[g] = shelf[g] + (adjusted'[g] - adjusted[g]) + 0 - 0
  BY DEF ShopTypes, ShopTypeOK
<1>5. AddsUp(g)'
  BY <1>1, <1>2, <1>3, <1>4, AddsUpMoves
<1> QED
  BY <1>1, <1>5

\* A request begins.
LEMMA StockServes ==
  ASSUME ShopTypes, ShopTypes', AllClear, NEW g \in Goods, GoodKept(g), NEW c \in Tills, NEW v \in TillState,
         NEW again, Serve(c, v, again),
         \A s \in Sales : \A i \in Of(s, g) : Sells(v, s) =>
           /\ v.pc \in {"check", "restore", "payment"}
           /\ v.pc = "check" => v.todo = LinesOf(s)
           /\ v.pc = "restore" /\ <<"sale", s>> \notin muddled' => i \in v.todo,
         \A o \in Purchases : \A i \in Of(o, g) : ForOrder(v, o) /\ v.pc = "receive" =>
           \/ <<"purchase", o>> \in muddled'
           \/ i \in v.todo
  PROVE  GoodKept(g)'
<1>1. /\ till[c] = Quiet /\ till' = [till EXCEPT ![c] = v]
      /\ UNCHANGED <<shelf, sale, purchase, falling, adjusted>> /\ muddled \subseteq muddled'
      /\ v.pc = "check" => \A i \in v.todo : \A k \in (OnSale \union v.todo) \ {i} :
                              GoodOf[k] = GoodOf[i] => <<"rush", GoodOf[i]>> \in muddled'
  BY ServeMuddles DEF Serve
<1>2. /\ till'[c] = v
      /\ \A d \in Tills \ {c} : till'[d] = till[d]
  BY <1>1 DEF ShopTypes
<1>3. \A p : Of(p, g) \subseteq Items /\ Of(p, g)' = Of(p, g)
  BY DEF Of
<1>4. (\A s : ~Sells(till[c], s)) /\ (\A o : ~ForOrder(till[c], o))
  BY <1>1, QuietIsAbout
<1> SUFFICES ASSUME ~Soiled(g)'
             PROVE  /\ \A s \in Sales : \A i \in Of(s, g) : SoldLine(s, i)' = SoldLine(s, i)
                    /\ \A o \in Purchases : \A i \in Of(o, g) : BroughtLine(o, i)' = BroughtLine(o, i)
                    /\ shelf'[g] = shelf[g] + (adjusted'[g] - adjusted[g])
                    /\ <<"rush", g>> \notin muddled' /\ Enough(g) => Enough(g)'
  BY <1>1, GoodStays
<1>5. /\ \A s \in Sales : \A i \in Of(s, g) : <<"sale", s>> \notin muddled'
      /\ \A o \in Purchases : \A i \in Of(o, g) : <<"purchase", o>> \notin muddled'
  BY DEF Soiled, Of
<1>6. ASSUME NEW s \in Sales, NEW i \in Of(s, g) PROVE SoldLine(s, i)' = SoldLine(s, i)
  <2>1. /\ ~(Sells(v, s) /\ v.pc \in {"items", "credit"})
        /\ ~(Sells(v, s) /\ v.pc = "restore" /\ i \notin v.todo)
    BY <1>5
  <2>2. /\ sale'[s].status = sale[s].status
        /\ (\E l \in falling' : l.sale = s /\ i \in l.todo) <=> (\E l \in falling : l.sale = s /\ i \in l.todo)
        /\ (Sells(v, s) /\ v.pc \in {"items", "credit"})
             <=> (Sells(till[c], s) /\ till[c].pc \in {"items", "credit"})
        /\ (Sells(v, s) /\ v.pc = "restore" /\ i \notin v.todo)
             <=> (Sells(till[c], s) /\ till[c].pc = "restore" /\ i \notin till[c].todo)
    BY <1>1, <1>3, <1>4, <2>1
  <2> QED
    BY <1>1, <1>3, <2>2, SoldSame
<1>7. ASSUME NEW o \in Purchases, NEW i \in Of(o, g) PROVE BroughtLine(o, i)' = BroughtLine(o, i)
  <2>1. ~(ForOrder(v, o) /\ v.pc = "receive" /\ i \notin v.todo)
    BY <1>5
  <2>2. /\ (purchase'[o].status = "received") <=> (purchase[o].status = "received")
        /\ (ForOrder(v, o) /\ v.pc = "receive" /\ i \notin v.todo)
             <=> (ForOrder(till[c], o) /\ till[c].pc = "receive" /\ i \notin till[c].todo)
    BY <1>1, <1>3, <1>4, <2>1
  <2> QED
    BY <1>1, <1>3, <2>2, BroughtSame
<1>8. shelf'[g] = shelf[g] + (adjusted'[g] - adjusted[g])
  BY <1>1 DEF ShopTypes, ShopTypeOK
<1>9. ASSUME <<"rush", g>> \notin muddled', Enough(g) PROVE Enough(g)'
  <2>1. \A d \in Tills, s \in Sales : Sells(till[d], s)' <=> Sells(till'[d], s)
    BY DEF Sells
  <2>2. ASSUME NEW s \in Sales, NEW i \in Of(s, g), InFlight(s, i)', ~InFlight(s, i)
        PROVE  v.pc = "check" /\ Sells(v, s) /\ v.todo = LinesOf(s) /\ i \in v.todo
    <3>1. PICK d \in Tills : Sells(till'[d], s) /\ till'[d].pc \in {"check", "items", "credit"}
      BY <1>1, <2>1, <2>2 DEF InFlight
    <3>2. d = c
      BY <1>2, <2>2, <3>1 DEF InFlight
    <3>3. v.pc = "check" /\ v.todo = LinesOf(s)
      BY <1>2, <3>1, <3>2
    <3> QED
      BY <1>2, <3>1, <3>2, <3>3 DEF LinesOf, Of
  <2>3. ASSUME NEW s \in Sales, NEW i \in Of(s, g), Unchecked(s, i) PROVE Unchecked(s, i)'
    <3>1. PICK d \in Tills : Sells(till[d], s) /\ till[d].pc = "check" /\ i \in till[d].todo
      BY <2>3 DEF Unchecked
    <3>2. d # c
      BY <1>4, <3>1
    <3> QED
      BY <1>2, <2>1, <3>1, <3>2 DEF Unchecked
  <2>4. shelf'[g] \in Int /\ shelf'[g] >= shelf[g] /\ shelf'[g] = shelf[g]
    BY <1>1 DEF ShopTypes, ShopTypeOK
  <2>5. CASE \A s \in Sales : \A i \in Of(s, g) : InFlight(s, i)' => InFlight(s, i)
    <3>1. \A s \in Sales : \A i \in Of(s, g) : InFlight(s, i)' =>
            InFlight(s, i) /\ (Unchecked(s, i) => Unchecked(s, i)' \/ shelf[g] >= Quantity[i])
      BY <2>3, <2>5
    <3> QED
      BY <1>9, <2>4, <3>1, EnoughStays
  <2>6. ASSUME NEW s \in Sales, NEW i \in Of(s, g), InFlight(s, i)', ~InFlight(s, i) PROVE Enough(g)'
    <3>1. v.pc = "check" /\ Sells(v, s) /\ v.todo = LinesOf(s) /\ i \in v.todo /\ GoodOf[i] = g
      BY <2>2, <2>6 DEF Of
    <3>2. \A k \in OnSale \union v.todo : GoodOf[k] = g => k = i
      BY <1>1, <1>9, <3>1
    <3>3. ASSUME NEW t \in Sales, NEW j \in Of(t, g), InFlight(t, j) PROVE j = i
      <4>0. GoodOf[j] = g /\ j \in LinesOf(t)
        BY DEF Of, LinesOf
      <4>1. ASSUME NEW d \in Tills, Sells(till[d], t), till[d].pc \in {"check", "items", "credit"}
            PROVE  j \in OnSale
        BY <4>0, <4>1 DEF OnSale, Sells
      <4>2. ASSUME NEW l \in falling, j \in l.todo PROVE j \in OnSale
        BY <4>2 DEF OnSale
      <4> QED
        BY <3>2, <3>3, <4>0, <4>1, <4>2 DEF InFlight
    <3>4. ASSUME NEW t \in Sales, NEW j \in Of(t, g), InFlight(t, j)' PROVE j = i
      <4>1. CASE InFlight(t, j)
        BY <3>3, <4>1
      <4>2. CASE ~InFlight(t, j)
        BY <2>2, <3>2, <3>4, <4>2 DEF Of
      <4> QED
        BY <4>1, <4>2
    <3>5. Unchecked(s, i)'
      BY <1>2, <2>1, <3>1 DEF Unchecked
    <3>6. ASSUME NEW t \in Sales, NEW j \in Of(t, g), InFlight(t, j)' PROVE Unchecked(t, j)'
      <4>1. j = i /\ t = s
        BY <3>4, <3>6 DEF Of
      <4> QED
        BY <3>5, <4>1
    <3> QED
      BY <1>3, <1>9, <2>4, <3>4, <3>6 DEF Enough
  <2> QED
    BY <2>5, <2>6
<1> QED
  BY <1>6, <1>7, <1>8, <1>9

LEMMA BeginSaleStock ==
  ASSUME ShopTypes, ShopTypes', AllClear, NEW g \in Goods, GoodKept(g), NEW c \in Tills, NEW s \in Sales,
         \/ BeginSale(c, s) \/ BeginVoid(c, s)
         \/ \E amount \in 1..Total[s] : BeginPayment(c, s, amount)
  PROVE  GoodKept(g)'
<1>1. CASE BeginSale(c, s)
  <2>0. PICK v : v = [pc |-> "check", sale |-> s, todo |-> LinesOf(s)]
    OBVIOUS
  <2>1. v \in TillState /\ v.pc = "check" /\ v.todo = LinesOf(s)
    BY <2>0, LinesOfItems DEF TillState
  <2>2. Serve(c, v, FALSE)
    BY <1>1, <2>0 DEF BeginSale
  <2>3. \A t : Sells(v, t) => t = s
    BY <2>0 DEF Sells
  <2>4. \A t : ~ForOrder(v, t)
    BY <2>0 DEF ForOrder
  <2> QED
    BY <2>1, <2>2, <2>3, <2>4, StockServes
<1>2. CASE BeginVoid(c, s)
  <2>0. PICK v : v = [pc |-> "restore", sale |-> s, todo |-> IF sale[s].items THEN LinesOf(s) ELSE {}]
    OBVIOUS
  <2>1. v \in TillState /\ v.pc = "restore"
    BY <2>0, LinesOfItems DEF TillState
  <2>2. Serve(c, v, FALSE) /\ sale[s].status = "completed"
    BY <1>2, <2>0 DEF BeginVoid, Voidable
  <2>3. \A t : Sells(v, t) => t = s
    BY <2>0 DEF Sells
  <2>4. \A t : ~ForOrder(v, t)
    BY <2>0 DEF ForOrder
  <2>5. ASSUME NEW i \in Of(s, g), <<"sale", s>> \notin muddled' PROVE i \in v.todo
    <3>1. muddled \subseteq muddled' /\ \A d \in Tills : Concerns(v) \cap Concerns(till[d]) \subseteq muddled'
      BY <2>2, ServeMuddles
    <3>2. SaleClear(s)
      BY <2>5, <3>1 DEF AllClear
    <3>3. \A d \in Tills : ~Sells(till[d], s)
      <4>1. <<"sale", s>> \in Concerns(v)
        BY <2>0, <2>1, ConcernsKinds DEF Sells
      <4>2. \A d \in Tills : till[d] \in TillState
        BY DEF ShopTypes
      <4> QED
        BY <2>5, <3>1, <4>1, <4>2, ConcernsKinds
    <3>4. sale[s].items
      BY <2>2, <3>2, <3>3 DEF SaleClear
    <3> QED
      BY <2>0, <2>5, <3>4 DEF LinesOf, Of
  <2> QED
    BY <2>1, <2>2, <2>3, <2>4, <2>5, StockServes
<1>3. ASSUME NEW amount \in 1..Total[s], BeginPayment(c, s, amount) PROVE GoodKept(g)'
  <2> DEFINE paid == credit[s].paid + amount
  <2>0. PICK v : v = [pc |-> "payment", sale |-> s, amount |-> amount,
                      to |-> [paid |-> paid, status |-> IF paid >= Total[s] THEN "paid" ELSE "partial"]]
    OBVIOUS
  <2>1. v \in TillState /\ v.pc = "payment"
    <3>1. paid \in Nat
      BY DEF ShopTypes, ShopTypeOK
    <3> QED
      BY <2>0, <3>1 DEF TillState
  <2>2. Serve(c, v, FALSE)
    BY <1>3, <2>0 DEF BeginPayment
  <2>4. \A t : ~ForOrder(v, t)
    BY <2>0 DEF ForOrder
  <2> QED
    BY <2>1, <2>2, <2>4, StockServes
<1> QED
  BY <1>1, <1>2, <1>3

LEMMA BeginOrderStock ==
  ASSUME ShopTypes, ShopTypes', AllClear, NEW g \in Goods, GoodKept(g), NEW c \in Tills, NEW o \in Purchases,
         BeginOrder(c, o) \/ BeginReceive(c, o) \/ BeginCancelOrder(c, o)
  PROVE  GoodKept(g)'
<1>1. CASE BeginOrder(c, o)
  <2>0. PICK v : v = [pc |-> "purchase", purchase |-> o]
    OBVIOUS
  <2>1. v \in TillState /\ v.pc = "purchase" /\ \A t : ~Sells(v, t)
    BY <2>0 DEF TillState, Sells
  <2>2. Serve(c, v, FALSE)
    BY <1>1, <2>0 DEF BeginOrder
  <2> QED
    BY <2>1, <2>2, StockServes
<1>2. CASE BeginReceive(c, o)
  <2>0. PICK v : v = [pc |-> "receive", purchase |-> o,
                      todo |-> IF purchase[o].items THEN LinesOf(o) ELSE {}]
    OBVIOUS
  <2>1. v \in TillState /\ v.pc = "receive" /\ (\A t : ~Sells(v, t)) /\ \A t : ForOrder(v, t) => t = o
    BY <2>0, LinesOfItems DEF TillState, Sells, ForOrder
  <2>2. Serve(c, v, purchase[o].status = "received") /\ purchase[o] # NoPaper
    BY <1>2, <2>0 DEF BeginReceive
  <2>3. ASSUME NEW i \in Of(o, g), <<"purchase", o>> \notin muddled' PROVE i \in v.todo
    <3>1. muddled \subseteq muddled' /\ \A d \in Tills : Concerns(v) \cap Concerns(till[d]) \subseteq muddled'
      BY <2>2, ServeMuddles
    <3>2. OrderClear(o)
      BY <2>3, <3>1 DEF AllClear
    <3>3. \A d \in Tills : ~ForOrder(till[d], o)
      <4>1. <<"purchase", o>> \in Concerns(v)
        BY <2>0, <2>1, ConcernsKinds DEF ForOrder
      <4>2. \A d \in Tills : till[d] \in TillState
        BY DEF ShopTypes
      <4> QED
        BY <2>3, <3>1, <4>1, <4>2, ConcernsKinds
    <3>4. purchase[o].items
      BY <2>2, <3>2, <3>3 DEF OrderClear
    <3> QED
      BY <2>0, <2>3, <3>4 DEF LinesOf, Of
  <2> QED
    BY <2>1, <2>2, <2>3, StockServes
<1>3. CASE BeginCancelOrder(c, o)
  <2>0. PICK v : v = [pc |-> "cancel", purchase |-> o]
    OBVIOUS
  <2>1. v \in TillState /\ v.pc = "cancel" /\ \A t : ~Sells(v, t)
    BY <2>0 DEF TillState, Sells
  <2>2. Serve(c, v, purchase[o].status = "received")
    BY <1>3, <2>0 DEF BeginCancelOrder
  <2> QED
    BY <2>1, <2>2, StockServes
<1> QED
  BY <1>1, <1>2, <1>3

LEMMA BeginAdjustStock ==
  ASSUME ShopTypes, ShopTypes', AllClear, NEW g \in Goods, GoodKept(g), NEW c \in Tills,
         NEW h \in Goods, NEW by \in {-1, 1}, BeginAdjust(c, h, by)
  PROVE  GoodKept(g)'
<1>0. PICK v : v = [pc |-> "adjust", good |-> h, by |-> by, to |-> shelf[h] + by]
  OBVIOUS
<1>1. v \in TillState /\ v.pc = "adjust" /\ (\A t : ~Sells(v, t)) /\ \A t : ~ForOrder(v, t)
  BY <1>0 DEF BeginAdjust, ShopTypes, ShopTypeOK, TillState, Sells, ForOrder
<1>2. Serve(c, v, FALSE)
  BY <1>0 DEF BeginAdjust
<1> QED
  BY <1>1, <1>2, StockServes

-----------------------------------------------------------------------------
\* A request goes on, and no line of the product moves.
LEMMA LinesStay ==
  ASSUME ShopTypes, ShopTypes', AllClear, NEW g \in Goods, GoodKept(g), NEW c \in Tills, NEW v \in TillState,
         till' = [till EXCEPT ![c] = v], muddled \subseteq muddled', ~Soiled(g)' =>
           /\ shelf'[g] = shelf[g] + (adjusted'[g] - adjusted[g])
           /\ <<"rush", g>> \notin muddled' /\ Enough(g) => Enough(g)'
           /\ \A s \in Sales : \A i \in Of(s, g) : SaleClear(s) /\ <<"sale", s>> \notin muddled' =>
                \/ SoldLine(s, i)' = SoldLine(s, i)
                \/ /\ sale'[s] = sale[s]
                   /\ (\E l \in falling' : l.sale = s /\ i \in l.todo)
                        <=> (\E l \in falling : l.sale = s /\ i \in l.todo)
                   /\ (Sells(v, s) /\ v.pc \in {"items", "credit"})
                        <=> (Sells(till[c], s) /\ till[c].pc \in {"items", "credit"})
                   /\ (Sells(v, s) /\ v.pc = "restore" /\ i \notin v.todo)
                        <=> (Sells(till[c], s) /\ till[c].pc = "restore" /\ i \notin till[c].todo)
           /\ \A o \in Purchases : \A i \in Of(o, g) : OrderClear(o) /\ <<"purchase", o>> \notin muddled' =>
                \/ BroughtLine(o, i)' = BroughtLine(o, i)
                \/ /\ purchase'[o] = purchase[o]
                   /\ (ForOrder(v, o) /\ v.pc = "receive" /\ i \notin v.todo)
                        <=> (ForOrder(till[c], o) /\ till[c].pc = "receive" /\ i \notin till[c].todo)
  PROVE  GoodKept(g)'
<1> SUFFICES ASSUME ~Soiled(g)'
             PROVE  /\ \A s \in Sales : \A i \in Of(s, g) : SoldLine(s, i)' = SoldLine(s, i)
                    /\ \A o \in Purchases : \A i \in Of(o, g) : BroughtLine(o, i)' = BroughtLine(o, i)
  BY GoodStays
<1>1. ~Soiled(g)
  BY SoiledStays
<1>2. /\ \A s \in Sales : \A i \in Of(s, g) : SaleClear(s) /\ <<"sale", s>> \notin muddled'
      /\ \A o \in Purchases : \A i \in Of(o, g) : OrderClear(o) /\ <<"purchase", o>> \notin muddled'
      /\ \A p : Of(p, g) \subseteq Items
  BY <1>1, Spotless DEF Soiled, Of
<1>3. ASSUME NEW s \in Sales, NEW i \in Of(s, g) PROVE SoldLine(s, i)' = SoldLine(s, i)
  <2>1. CASE SoldLine(s, i)' = SoldLine(s, i)
    BY <2>1
  <2>2. CASE SoldLine(s, i)' # SoldLine(s, i)
    <3>1. /\ sale'[s] = sale[s]
          /\ (\E l \in falling' : l.sale = s /\ i \in l.todo)
               <=> (\E l \in falling : l.sale = s /\ i \in l.todo)
          /\ (Sells(v, s) /\ v.pc \in {"items", "credit"})
               <=> (Sells(till[c], s) /\ till[c].pc \in {"items", "credit"})
          /\ (Sells(v, s) /\ v.pc = "restore" /\ i \notin v.todo)
               <=> (Sells(till[c], s) /\ till[c].pc = "restore" /\ i \notin till[c].todo)
      BY <1>2, <2>2
    <3>2. i \in Items
      BY <1>2
    <3> QED
      BY ONLY ShopTypes, till' = [till EXCEPT ![c] = v], <3>1, <3>2, SoldSame
  <2> QED
    BY <2>1, <2>2
<1>4. ASSUME NEW o \in Purchases, NEW i \in Of(o, g) PROVE BroughtLine(o, i)' = BroughtLine(o, i)
  <2>1. CASE BroughtLine(o, i)' = BroughtLine(o, i)
    BY <2>1
  <2>2. CASE BroughtLine(o, i)' # BroughtLine(o, i)
    <3>1. /\ (purchase'[o].status = "received") <=> (purchase[o].status = "received")
          /\ (ForOrder(v, o) /\ v.pc = "receive" /\ i \notin v.todo)
               <=> (ForOrder(till[c], o) /\ till[c].pc = "receive" /\ i \notin till[c].todo)
      BY <1>2, <2>2
    <3>2. i \in Items
      BY <1>2
    <3> QED
      BY ONLY ShopTypes, till' = [till EXCEPT ![c] = v], <3>1, <3>2, BroughtSame
  <2> QED
    BY <2>1, <2>2
<1> QED
  BY <1>3, <1>4

\* Who waits for what, after a step of till c.
LEMMA EnoughTill ==
  ASSUME ShopTypes, ShopTypes', NEW g \in Goods, Enough(g), NEW c \in Tills, NEW v \in TillState,
         till' = [till EXCEPT ![c] = v], shelf'[g] >= shelf[g],
         \A s \in Sales : \A i \in Of(s, g) :
           /\ Sells(v, s) /\ v.pc \in {"check", "items", "credit"} =>
                Sells(till[c], s) /\ till[c].pc \in {"check", "items", "credit"}
           /\ Sells(till[c], s) /\ till[c].pc = "check" /\ i \in till[c].todo =>
                \/ Sells(v, s) /\ v.pc = "check" /\ i \in v.todo
                \/ shelf[g] >= Quantity[i]
                \/ ~InFlight(s, i)'
           /\ (\E l \in falling' : l.sale = s /\ i \in l.todo) =>
                \/ \E l \in falling : l.sale = s /\ i \in l.todo
                \/ Sells(till[c], s) /\ till[c].pc \in {"check", "items", "credit"}
  PROVE  Enough(g)'
<1>1. /\ till'[c] = v /\ \A d \in Tills \ {c} : till'[d] = till[d]
      /\ \A d \in Tills : \A s : Sells(till[d], s)' <=> Sells(till'[d], s)
  BY DEF ShopTypes, Sells
<1>3. ASSUME NEW s \in Sales, NEW i \in Of(s, g), InFlight(s, i)' PROVE InFlight(s, i)
  <2>1. CASE \E l \in falling' : l.sale = s /\ i \in l.todo
    BY <2>1 DEF InFlight
  <2>2. CASE \E d \in Tills : Sells(till'[d], s) /\ till'[d].pc \in {"check", "items", "credit"}
    BY <1>1, <2>2 DEF InFlight
  <2> QED
    BY <1>1, <1>3, <2>1, <2>2 DEF InFlight
<1>4. ASSUME NEW s \in Sales, NEW i \in Of(s, g), InFlight(s, i)', Unchecked(s, i)
      PROVE  Unchecked(s, i)' \/ shelf[g] >= Quantity[i]
  <2>1. PICK d \in Tills : Sells(till[d], s) /\ till[d].pc = "check" /\ i \in till[d].todo
    BY <1>4 DEF Unchecked
  <2>2. CASE d # c
    BY <1>1, <2>1, <2>2 DEF Unchecked
  <2>3. CASE d = c
    BY <1>1, <1>4, <2>1, <2>3 DEF Unchecked
  <2> QED
    BY <2>2, <2>3
<1>5. shelf'[g] \in Int
  BY DEF ShopTypes, ShopTypeOK
<1> QED
  BY <1>3, <1>4, <1>5, EnoughStays

\* The rows of a sale are written, or it is announced.
LEMMA SaleSavesStock ==
  ASSUME ShopTypes, ShopTypes', AllClear, NEW g \in Goods, GoodKept(g), NEW c \in Tills,
         InsertSale(c) \/ InsertItems(c) \/ InsertCredit(c) \/ MarkVoided(c)
  PROVE  GoodKept(g)'
<1>1. PICK s \in Sales, v \in TillState :
         /\ till' = [till EXCEPT ![c] = v] /\ Sells(till[c], s) /\ SaleSaved(c, s, v)
         /\ UNCHANGED <<shelf, received, purchase, adjusted, muddled>>
  BY SaleSaves
<1>2. /\ till'[c] = v /\ \A d \in Tills \ {c} : till'[d] = till[d]
      /\ \A d \in Tills : \A t : Sells(till[d], t)' <=> Sells(till'[d], t)
  BY <1>1 DEF ShopTypes, Sells
<1>3. /\ \A t : ~Sells(Quiet, t)
      /\ \A t : Sells(till[c], t) => t = s
      /\ \A t : Sells(v, t) => t = s
      /\ \A o : ~ForOrder(till[c], o) /\ ~ForOrder(v, o)
  <2>1. \A t : ~Sells(Quiet, t) /\ ~ForOrder(Quiet, t)
    BY QuietIsAbout
  <2>2. v = Quiet \/ Sells(v, s)
    BY <1>1 DEF SaleSaved
  <2> QED
    BY <1>1, <2>1, <2>2 DEF Sells, ForOrder
<1>4. /\ sale[s] \in Papers /\ DOMAIN sale = Sales
      /\ \A t \in Sales \ {s} : sale'[t] = sale[t]
  BY <1>1 DEF SaleSaved, ShopTypes, ShopTypeOK
<1>5. till[c].pc \in {"check", "items", "credit", "restore"}
  BY <1>1 DEF SaleSaved
<1>6. InsertSale(c) => till[c].todo = {}
  BY DEF InsertSale
<1>7. till[c].pc = "check" => till[c].todo = {}
  BY <1>6 DEF InsertItems, InsertCredit, MarkVoided, On
<1>8. /\ \A l \in falling' : l \in falling \/ (l.sale = s /\ l.todo = LinesOf(s)
                                              /\ till[c].pc \in {"items", "credit"})
      /\ falling \subseteq falling'
      /\ v = Quiet /\ till[c].pc \in {"items", "credit"} =>
           [sale |-> s, todo |-> LinesOf(s)] \in falling'
  BY <1>1, <1>3 DEF SaleSaved, Announced
<1>9. ASSUME NEW i \in Of(s, g), SaleClear(s) PROVE SoldLine(s, i)' = SoldLine(s, i)
  <2>1. \A d \in Tills : Sells(till[d], s) => d = c
    BY <1>1, <1>9 DEF SaleClear
  <2>2. \A d \in Tills : Sells(till'[d], s) => d = c
    BY <1>2, <2>1
  <2>3. i \in LinesOf(s)
    BY DEF LinesOf, Of
  <2>4. CASE till[c].pc = "restore"
    <3>1. v = Quiet /\ till[c].todo = {} /\ falling' = falling /\ sale'[s].status = "voided"
      BY <1>1, <1>4, <2>4 DEF SaleSaved, Papers
    <3>2. sale[s].status = "completed"
      BY <1>1, <1>9, <2>4 DEF SaleClear
    <3>3. PutBack(s, i) /\ PutBack(s, i)'
      BY <1>1, <2>4, <3>1 DEF PutBack
    <3>4. TakenOff(s, i)' <=> TakenOff(s, i)
      BY <1>2, <1>3, <2>1, <2>2, <2>4, <3>1, <3>2 DEF TakenOff
    <3> QED
      BY <3>3, <3>4 DEF SoldLine
  <2>5. CASE till[c].pc \in {"check", "items", "credit"}
    <3>1. sale'[s].status = "completed" /\ sale[s].status # "voided"
      BY <1>1, <1>4, <1>9, <2>5 DEF SaleSaved, SaleClear, NoPaper, Papers
    <3>2. v.pc # "restore" \/ v = Quiet
      BY <1>1, <2>5 DEF SaleSaved
    <3>3. ~PutBack(s, i) /\ ~PutBack(s, i)'
      BY <1>2, <1>3, <2>1, <2>2, <2>5, <3>1, <3>2 DEF PutBack
    <3>4. ~TakenOff(s, i)
      <4>1. till[c].pc = "check" => sale[s].status = "none"
        BY <1>1, <1>9 DEF SaleClear, NoPaper
      <4> QED
        BY <1>1, <2>5, <4>1 DEF TakenOff
    <3>5. ~TakenOff(s, i)'
      <4>1. CASE v = Quiet
        <5>1. [sale |-> s, todo |-> LinesOf(s)] \in falling'
          BY <1>1, <1>8, <2>5, <4>1 DEF SaleSaved, Quiet
        <5> QED
          BY <2>3, <5>1 DEF TakenOff
      <4>2. CASE v # Quiet
        <5>1. Sells(v, s) /\ v.pc \in {"items", "credit"}
          BY <1>1, <4>2 DEF SaleSaved
        <5> QED
          BY <1>2, <5>1 DEF TakenOff
      <4> QED
        BY <4>1, <4>2
    <3> QED
      BY <3>3, <3>4, <3>5 DEF SoldLine
  <2> QED
    BY <1>5, <2>4, <2>5
<1>10. ASSUME Enough(g) PROVE Enough(g)'
  <2>1. shelf'[g] >= shelf[g]
    BY <1>1 DEF ShopTypes, ShopTypeOK
  <2>2. Sells(v, s) /\ v.pc \in {"check", "items", "credit"} => till[c].pc \in {"check", "items", "credit"}
    BY <1>1, <1>3 DEF SaleSaved
  <2>3. \A t \in Sales : \A i \in Of(t, g) :
           /\ Sells(v, t) /\ v.pc \in {"check", "items", "credit"} =>
                Sells(till[c], t) /\ till[c].pc \in {"check", "items", "credit"}
           /\ Sells(till[c], t) /\ till[c].pc = "check" /\ i \in till[c].todo =>
                \/ Sells(v, t) /\ v.pc = "check" /\ i \in v.todo
                \/ shelf[g] >= Quantity[i]
                \/ ~InFlight(t, i)'
           /\ (\E l \in falling' : l.sale = t /\ i \in l.todo) =>
                \/ \E l \in falling : l.sale = t /\ i \in l.todo
                \/ Sells(till[c], t) /\ till[c].pc \in {"check", "items", "credit"}
    BY <1>1, <1>3, <1>7, <1>8, <2>2
  <2> QED
    BY <1>1, <1>10, <2>1, <2>3, EnoughTill
<1>11. ASSUME NEW t \in Sales, t # s, NEW i
       PROVE  /\ sale'[t] = sale[t]
              /\ (\E l \in falling' : l.sale = t /\ i \in l.todo)
                   <=> (\E l \in falling : l.sale = t /\ i \in l.todo)
              /\ ~Sells(v, t) /\ ~Sells(till[c], t)
  BY <1>3, <1>4, <1>8, <1>11
<1>12. shelf'[g] = shelf[g] + (adjusted'[g] - adjusted[g]) /\ muddled \subseteq muddled'
  BY <1>1 DEF ShopTypes, ShopTypeOK
<1>13. \A t \in Sales : \A i \in Of(t, g) : SaleClear(t) =>
          \/ SoldLine(t, i)' = SoldLine(t, i)
          \/ /\ sale'[t] = sale[t]
             /\ (\E l \in falling' : l.sale = t /\ i \in l.todo)
                  <=> (\E l \in falling : l.sale = t /\ i \in l.todo)
             /\ ~Sells(v, t) /\ ~Sells(till[c], t)
  BY <1>9, <1>11
<1> QED
  BY <1>1, <1>3, <1>10, <1>12, <1>13, LinesStay

-----------------------------------------------------------------------------
LEMMA OrderSavesStock ==
  ASSUME ShopTypes, ShopTypes', AllClear, NEW g \in Goods, GoodKept(g), NEW c \in Tills,
         InsertOrder(c) \/ InsertOrderItems(c) \/ MarkReceived(c) \/ MarkCancelled(c)
  PROVE  GoodKept(g)'
<1>1. PICK o \in Purchases, v \in TillState :
         /\ till' = [till EXCEPT ![c] = v] /\ ForOrder(till[c], o) /\ OrderSaved(c, o, v)
         /\ UNCHANGED <<shelf, sale, received, falling, adjusted, muddled>>
  BY OrderSaves
<1>2. /\ till'[c] = v /\ \A d \in Tills \ {c} : till'[d] = till[d]
      /\ \A d \in Tills : \A t : ForOrder(till[d], t)' <=> ForOrder(till'[d], t)
  BY <1>1 DEF ShopTypes, ForOrder
<1>3. /\ \A t : ~ForOrder(Quiet, t) /\ ~Sells(Quiet, t)
      /\ \A t : ForOrder(till[c], t) => t = o
      /\ \A t : ForOrder(v, t) => t = o
      /\ \A s : ~Sells(till[c], s) /\ ~Sells(v, s)
  <2>1. \A t : ~Sells(Quiet, t) /\ ~ForOrder(Quiet, t)
    BY QuietIsAbout
  <2>2. v = Quiet \/ ForOrder(v, o)
    BY <1>1 DEF OrderSaved
  <2> QED
    BY <1>1, <2>1, <2>2 DEF Sells, ForOrder
<1>4. /\ purchase[o] \in Papers /\ DOMAIN purchase = Purchases
      /\ \A t \in Purchases \ {o} : purchase'[t] = purchase[t]
  BY <1>1 DEF OrderSaved, ShopTypes, ShopTypeOK
<1>5. ASSUME NEW i \in Of(o, g), OrderClear(o) PROVE BroughtLine(o, i)' = BroughtLine(o, i)
  <2>1. \A d \in Tills : ForOrder(till[d], o) => d = c
    BY <1>1, <1>5 DEF OrderClear
  <2>2. \A d \in Tills : ForOrder(till'[d], o) => d = c
    BY <1>2, <2>1
  <2>3. v.pc # "receive"
    BY <1>1 DEF OrderSaved, Quiet
  <2>4. CASE till[c].pc = "receive"
    <3>1. till[c].todo = {} /\ purchase'[o].status = "received"
      BY <1>1, <1>4, <2>4 DEF OrderSaved, Papers
    <3>2. Brought(o, i) /\ Brought(o, i)'
      BY <1>1, <2>4, <3>1 DEF Brought
    <3> QED
      BY <3>2 DEF BroughtLine
  <2>5. CASE till[c].pc # "receive"
    <3>1. purchase[o].status # "received" /\ purchase'[o].status # "received"
      BY <1>1, <1>4, <1>5, <2>5 DEF OrderSaved, OrderClear, NoPaper, Papers
    <3>2. ~Brought(o, i) /\ ~Brought(o, i)'
      BY <1>2, <2>1, <2>2, <2>3, <2>5, <3>1 DEF Brought
    <3> QED
      BY <3>2 DEF BroughtLine
  <2> QED
    BY <2>4, <2>5
<1>6. ASSUME Enough(g) PROVE Enough(g)'
  <2>1. shelf'[g] >= shelf[g] /\ falling' = falling
    BY <1>1 DEF ShopTypes, ShopTypeOK
  <2>2. \A t \in Sales : \A i \in Of(t, g) :
           /\ Sells(v, t) /\ v.pc \in {"check", "items", "credit"} =>
                Sells(till[c], t) /\ till[c].pc \in {"check", "items", "credit"}
           /\ Sells(till[c], t) /\ till[c].pc = "check" /\ i \in till[c].todo =>
                \/ Sells(v, t) /\ v.pc = "check" /\ i \in v.todo
                \/ shelf[g] >= Quantity[i]
                \/ ~InFlight(t, i)'
           /\ (\E l \in falling' : l.sale = t /\ i \in l.todo) =>
                \/ \E l \in falling : l.sale = t /\ i \in l.todo
                \/ Sells(till[c], t) /\ till[c].pc \in {"check", "items", "credit"}
    BY <1>3, <2>1
  <2> QED
    BY <1>1, <1>6, <2>1, <2>2, EnoughTill
<1>7. ASSUME NEW t \in Purchases, t # o
      PROVE  purchase'[t] = purchase[t] /\ ~ForOrder(v, t) /\ ~ForOrder(till[c], t)
  BY <1>3, <1>4, <1>7
<1>8. shelf'[g] = shelf[g] + (adjusted'[g] - adjusted[g]) /\ muddled \subseteq muddled'
  BY <1>1 DEF ShopTypes, ShopTypeOK
<1> QED
  BY <1>1, <1>3, <1>5, <1>6, <1>7, <1>8, LinesStay

\* A line is looked up; what falls short refuses the sale.
LEMMA CheckLineStock ==
  ASSUME ShopTypes, ShopTypes', AllClear, NEW g \in Goods, GoodKept(g), NEW c \in Tills, CheckLine(c)
  PROVE  GoodKept(g)'
<1>1. PICK h \in till[c].todo :
        /\ till[c].pc = "check"
        /\ IF FallsShort(h) THEN till' = [till EXCEPT ![c] = Quiet]
                            ELSE till' = [till EXCEPT ![c].todo = @ \ {h}]
        /\ UNCHANGED <<shelf, sale, credit, received, purchase, falling, adjusted, served, muddled>>
  BY DEF CheckLine, On, Serves
<1>2. PICK s \in Sales : s = till[c].sale /\ till[c].todo \subseteq Items
  BY <1>1, TillKinds
<1>3. PICK v \in TillState : /\ till' = [till EXCEPT ![c] = v]
                             /\ \/ v = Quiet
                                \/ ~FallsShort(h) /\ v = [till[c] EXCEPT !.todo = @ \ {h}]
  <2>1. CASE FallsShort(h)
    BY <1>1, <1>2, <2>1, QuietTyped
  <2>2. CASE ~FallsShort(h)
    BY <1>1, <1>2, <2>2, TillGoesOn
  <2> QED
    BY <2>1, <2>2
<1>4. /\ Sells(till[c], s) /\ \A t : Sells(till[c], t) => t = s
      /\ \A o : ~ForOrder(till[c], o) /\ ~ForOrder(v, o)
      /\ \A t : Sells(v, t) => t = s
      /\ v # Quiet => Sells(v, s) /\ v.pc = "check" /\ v.todo = till[c].todo \ {h} /\ ~FallsShort(h)
      /\ v.pc \notin {"items", "credit", "restore", "receive"}
      /\ \A t : ~Sells(Quiet, t)
  <2>1. CASE v = Quiet
    BY <1>1, <1>2, <2>1, QuietIsAbout DEF Sells, ForOrder, Quiet
  <2>2. CASE v = [till[c] EXCEPT !.todo = @ \ {h}] /\ ~FallsShort(h)
    <3>1. till[c] \in [pc: {"check", "items", "credit", "restore"}, sale: Sales, todo: SUBSET Items]
      BY <1>1, TillKinds
    <3>2. v.pc = "check" /\ v.sale = s /\ v.todo = till[c].todo \ {h}
      BY <1>1, <1>2, <2>2, <3>1
    <3> QED
      BY <1>1, <1>2, <2>2, <3>2, QuietIsAbout DEF Sells, ForOrder
  <2> QED
    BY <1>3, <2>1, <2>2
<1>5. ASSUME ~Soiled(g)', Enough(g) PROVE Enough(g)'
  <2>1. shelf'[g] = shelf[g] /\ shelf'[g] >= shelf[g] /\ falling' = falling /\ ~Soiled(g)
    BY <1>1, <1>5, SoiledStays DEF ShopTypes, ShopTypeOK
  <2>2. ASSUME NEW i \in Of(s, g), i \in till[c].todo
        PROVE  \/ Sells(v, s) /\ v.pc = "check" /\ i \in v.todo
               \/ shelf[g] >= Quantity[i]
               \/ ~InFlight(s, i)'
    <3>1. SaleClear(s)
      BY <2>1, <2>2, Spotless
    <3>2. CASE v # Quiet /\ h # i
      BY <1>4, <2>2, <3>2
    <3>3. CASE v # Quiet /\ h = i
      <4>1. ~(shelf[g] < Quantity[i]) /\ shelf[g] \in Int /\ Quantity[i] \in Int
        BY <1>4, <3>3, LinesAreInts DEF FallsShort, Of
      <4> QED
        BY <4>1
    <3>4. CASE v = Quiet
      <4>1. \A d \in Tills : Sells(till'[d], s) => FALSE
        BY <1>3, <1>4, <3>1, <3>4 DEF SaleClear, ShopTypes
      <4>2. \A l \in falling' : l.sale # s
        BY <1>1, <1>4, <2>1, <3>1 DEF SaleClear
      <4>3. \A d \in Tills : Sells(till[d], s)' <=> Sells(till'[d], s)
        BY DEF Sells
      <4> QED
        BY <4>1, <4>2, <4>3 DEF InFlight
    <3> QED
      BY <3>2, <3>3, <3>4
  <2>3. \A t \in Sales : \A i \in Of(t, g) :
           /\ Sells(v, t) /\ v.pc \in {"check", "items", "credit"} =>
                Sells(till[c], t) /\ till[c].pc \in {"check", "items", "credit"}
           /\ Sells(till[c], t) /\ till[c].pc = "check" /\ i \in till[c].todo =>
                \/ Sells(v, t) /\ v.pc = "check" /\ i \in v.todo
                \/ shelf[g] >= Quantity[i]
                \/ ~InFlight(t, i)'
           /\ (\E l \in falling' : l.sale = t /\ i \in l.todo) =>
                \/ \E l \in falling : l.sale = t /\ i \in l.todo
                \/ Sells(till[c], t) /\ till[c].pc \in {"check", "items", "credit"}
    <3>1. \A t : Sells(v, t) => Sells(till[c], t)
      BY <1>4
    <3> QED
      BY <1>1, <1>4, <2>1, <2>2, <3>1
  <2> QED
    BY <1>3, <1>5, <2>1, <2>3, EnoughTill
<1>6. shelf'[g] = shelf[g] + (adjusted'[g] - adjusted[g]) /\ muddled \subseteq muddled'
      /\ falling' = falling /\ sale' = sale /\ purchase' = purchase
  BY <1>1 DEF ShopTypes, ShopTypeOK
<1>7. ASSUME NEW t, NEW i
      PROVE  /\ (Sells(v, t) /\ v.pc \in {"items", "credit"})
                  <=> (Sells(till[c], t) /\ till[c].pc \in {"items", "credit"})
             /\ (Sells(v, t) /\ v.pc = "restore" /\ i \notin v.todo)
                  <=> (Sells(till[c], t) /\ till[c].pc = "restore" /\ i \notin till[c].todo)
             /\ (ForOrder(v, t) /\ v.pc = "receive" /\ i \notin v.todo)
                  <=> (ForOrder(till[c], t) /\ till[c].pc = "receive" /\ i \notin till[c].todo)
  BY <1>1, <1>4
<1> QED
  BY <1>3, <1>5, <1>6, <1>7, LinesStay

\* The steps of a payment on credit.
LEMMA PaymentStock ==
  ASSUME ShopTypes, ShopTypes', AllClear, NEW g \in Goods, GoodKept(g), NEW c \in Tills,
         InsertPayment(c) \/ SaveCredit(c)
  PROVE  GoodKept(g)'
<1>1. /\ till[c].pc \in {"payment", "balance"}
      /\ UNCHANGED <<shelf, sale, purchase, falling, adjusted, muddled>>
      /\ \/ InsertPayment(c) /\ till[c].pc = "payment" /\ till' = [till EXCEPT ![c].pc = "balance"]
         \/ till' = [till EXCEPT ![c] = Quiet]
  BY DEF InsertPayment, SaveCredit, On, Serves, Go
<1>2. PICK v \in TillState : till' = [till EXCEPT ![c] = v] /\ v.pc \in {"idle", "balance"}
  <2>1. CASE till' = [till EXCEPT ![c] = Quiet]
    BY <2>1, QuietTyped DEF Quiet
  <2>2. CASE till[c].pc = "payment" /\ till' = [till EXCEPT ![c].pc = "balance"]
    <3>1. [till[c] EXCEPT !.pc = "balance"].pc = "balance"
      BY <2>2, TillKinds
    <3> QED
      BY <2>2, <3>1, TillGoesOn
  <2> QED
    BY <1>1, <2>1, <2>2
<1>3. ASSUME Enough(g) PROVE Enough(g)'
  <2>1. shelf'[g] >= shelf[g] /\ falling' = falling
    BY <1>1 DEF ShopTypes, ShopTypeOK
  <2>2. \A t \in Sales : \A i \in Of(t, g) :
           /\ Sells(v, t) /\ v.pc \in {"check", "items", "credit"} =>
                Sells(till[c], t) /\ till[c].pc \in {"check", "items", "credit"}
           /\ Sells(till[c], t) /\ till[c].pc = "check" /\ i \in till[c].todo =>
                \/ Sells(v, t) /\ v.pc = "check" /\ i \in v.todo
                \/ shelf[g] >= Quantity[i]
                \/ ~InFlight(t, i)'
           /\ (\E l \in falling' : l.sale = t /\ i \in l.todo) =>
                \/ \E l \in falling : l.sale = t /\ i \in l.todo
                \/ Sells(till[c], t) /\ till[c].pc \in {"check", "items", "credit"}
    BY <1>1, <1>2, <2>1
  <2> QED
    BY <1>2, <1>3, <2>1, <2>2, EnoughTill
<1>4. shelf'[g] = shelf[g] + (adjusted'[g] - adjusted[g]) /\ muddled \subseteq muddled'
      /\ falling' = falling /\ sale' = sale /\ purchase' = purchase
  BY <1>1 DEF ShopTypes, ShopTypeOK
<1>5. v.pc \notin {"items", "credit", "restore", "receive"}
      /\ till[c].pc \notin {"items", "credit", "restore", "receive"}
  BY <1>1, <1>2
<1> QED
  BY <1>2, <1>3, <1>4, <1>5, LinesStay

\* The corrected quantity is saved.
LEMMA SaveStockStock ==
  ASSUME ShopTypes, ShopTypes', AllClear, NEW g \in Goods, GoodKept(g), NEW c \in Tills, SaveStock(c)
  PROVE  GoodKept(g)'
<1>1. /\ till[c].pc = "adjust" /\ till' = [till EXCEPT ![c] = Quiet]
      /\ shelf' = [shelf EXCEPT ![till[c].good] = till[c].to]
      /\ adjusted' = [adjusted EXCEPT ![till[c].good] = @ + till[c].by]
      /\ UNCHANGED <<sale, credit, received, purchase, falling, served, muddled>>
  BY DEF SaveStock, On, Serves
<1>2. till[c] \in [pc: {"adjust"}, good: Goods, by: {-1, 1}, to: Nat]
  BY <1>1, TillKinds
<1>3. /\ shelf \in [Goods -> Int] /\ adjusted \in [Goods -> Int] /\ Quiet.pc = "idle" /\ Quiet \in TillState
  BY QuietTyped DEF ShopTypes, ShopTypeOK, Quiet
<1>4. muddled \subseteq muddled' /\ falling' = falling /\ sale' = sale /\ purchase' = purchase
  BY <1>1
<1>5. ASSUME ~Soiled(g)', till[c].good = g
      PROVE  /\ shelf'[g] = shelf[g] + (adjusted'[g] - adjusted[g])
             /\ Enough(g) => Enough(g)'
  <2>1. GoodClear(g)
    BY <1>4, <1>5, SoiledStays, Spotless
  <2>2. /\ till[c].to = shelf[g] + till[c].by /\ falling = {}
        /\ \A d \in Tills : till[d].pc \notin Moving
    BY <1>1, <1>5, <2>1 DEF GoodClear, Corrects
  <2>3. \A s \in Sales : \A i \in Of(s, g) : ~InFlight(s, i)'
    <3>1. \A d \in Tills : till'[d].pc \notin Moving
      BY <1>1, <1>3, <2>2 DEF ShopTypes, Moving
    <3> QED
      BY <1>4, <2>2, <3>1 DEF InFlight, Moving
  <2>4. shelf'[g] = till[c].to /\ adjusted'[g] = adjusted[g] + till[c].by
    BY <1>1, <1>3, <1>5
  <2> QED
    BY <1>2, <1>3, <2>2, <2>3, <2>4 DEF Enough, Of
<1>6. ASSUME till[c].good # g
      PROVE  /\ shelf'[g] = shelf[g] + (adjusted'[g] - adjusted[g])
             /\ Enough(g) => Enough(g)'
  <2>1. shelf'[g] = shelf[g] /\ adjusted'[g] = adjusted[g] /\ shelf[g] \in Int /\ adjusted[g] \in Int
    BY <1>1, <1>3, <1>6
  <2>2. \A t \in Sales : \A i \in Of(t, g) :
           /\ Sells(Quiet, t) /\ Quiet.pc \in {"check", "items", "credit"} =>
                Sells(till[c], t) /\ till[c].pc \in {"check", "items", "credit"}
           /\ Sells(till[c], t) /\ till[c].pc = "check" /\ i \in till[c].todo =>
                \/ Sells(Quiet, t) /\ Quiet.pc = "check" /\ i \in Quiet.todo
                \/ shelf[g] >= Quantity[i]
                \/ ~InFlight(t, i)'
           /\ (\E l \in falling' : l.sale = t /\ i \in l.todo) =>
                \/ \E l \in falling : l.sale = t /\ i \in l.todo
                \/ Sells(till[c], t) /\ till[c].pc \in {"check", "items", "credit"}
    BY <1>1, <1>3, <1>4
  <2>3. Enough(g) => Enough(g)'
    <3>1. shelf'[g] >= shelf[g]
      BY <2>1
    <3>2. PICK v : v = Quiet
      OBVIOUS
    <3> QED
      BY <1>1, <1>3, <2>2, <3>1, <3>2, EnoughTill
  <2> QED
    BY <2>1, <2>3
<1>7. PICK v \in TillState : v = Quiet
  BY <1>3
<1>8. v.pc \notin {"items", "credit", "restore", "receive"}
      /\ till[c].pc \notin {"items", "credit", "restore", "receive"}
  BY <1>1, <1>3, <1>7
<1>9. till' = [till EXCEPT ![c] = v]
  BY <1>1, <1>7
<1> QED
  BY <1>4, <1>5, <1>6, <1>8, <1>9, LinesStay

-----------------------------------------------------------------------------
\* The request goes on, or ends, with fewer lines to do than it had.
LEMMA FewerTodo ==
  ASSUME ShopTypes, NEW c \in Tills, NEW h \in till[c].todo, till[c].pc \in {"restore", "receive"},
         till' = [till EXCEPT ![c].todo = @ \ {h}]
  PROVE  \E v \in TillState :
           /\ till' = [till EXCEPT ![c] = v] /\ v.pc = till[c].pc /\ v.todo = till[c].todo \ {h}
           /\ \A s : Sells(v, s) <=> Sells(till[c], s)
           /\ \A o : ForOrder(v, o) <=> ForOrder(till[c], o)
<1> DEFINE v == [till[c] EXCEPT !.todo = @ \ {h}]
<1>1. v \in TillState /\ till' = [till EXCEPT ![c] = v]
  BY TillGoesOn
<1>2. /\ v.pc = till[c].pc /\ v.todo = till[c].todo \ {h}
      /\ \A s : Sells(v, s) <=> Sells(till[c], s)
      /\ \A o : ForOrder(v, o) <=> ForOrder(till[c], o)
  BY TillKinds DEF Sells, ForOrder
<1> QED
  BY <1>1, <1>2

LEMMA RestoreLineStock ==
  ASSUME ShopTypes, ShopTypes', AllClear, NEW g \in Goods, GoodKept(g), NEW c \in Tills, RestoreLine(c)
  PROVE  GoodKept(g)'
<1>1. PICK h \in till[c].todo :
        /\ till[c].pc = "restore"
        /\ shelf' = [shelf EXCEPT ![GoodOf[h]] = @ + Quantity[h]]
        /\ till' = [till EXCEPT ![c].todo = @ \ {h}]
        /\ UNCHANGED <<sale, credit, received, purchase, falling, adjusted, served, muddled>>
  BY DEF RestoreLine, On
<1>2. PICK s \in Sales : /\ s = till[c].sale /\ Sells(till[c], s) /\ h \in Of(s, GoodOf[h])
                         /\ \A t : Sells(till[c], t) => t = s
  BY <1>1, TillKinds DEF Sells, Of, LinesTodo, LinesOf, ShopTypes
<1>3. PICK v \in TillState :
           /\ till' = [till EXCEPT ![c] = v] /\ v.pc = till[c].pc /\ v.todo = till[c].todo \ {h}
           /\ \A t : Sells(v, t) <=> Sells(till[c], t)
           /\ \A o : ForOrder(v, o) <=> ForOrder(till[c], o)
  BY <1>1, FewerTodo
<1>4. /\ shelf \in [Goods -> Int] /\ adjusted' = adjusted /\ adjusted[g] \in Int /\ h \in Items /\ Quantity[h] \in Nat
      /\ muddled \subseteq muddled' /\ falling' = falling /\ sale' = sale /\ purchase' = purchase
      /\ muddled' = muddled
  BY <1>1, <1>2, LinesAreInts DEF ShopTypes, ShopTypeOK, Of
<1>5. shelf'[g] = IF g = GoodOf[h] THEN shelf[g] + Quantity[h] ELSE shelf[g]
  BY <1>1, <1>2, <1>4
<1>6. ASSUME Enough(g) PROVE Enough(g)'
  <2>1. shelf'[g] >= shelf[g]
    BY <1>4, <1>5
  <2>2. \A t \in Sales : \A i \in Of(t, g) :
           /\ Sells(v, t) /\ v.pc \in {"check", "items", "credit"} =>
                Sells(till[c], t) /\ till[c].pc \in {"check", "items", "credit"}
           /\ Sells(till[c], t) /\ till[c].pc = "check" /\ i \in till[c].todo =>
                \/ Sells(v, t) /\ v.pc = "check" /\ i \in v.todo
                \/ shelf[g] >= Quantity[i]
                \/ ~InFlight(t, i)'
           /\ (\E l \in falling' : l.sale = t /\ i \in l.todo) =>
                \/ \E l \in falling : l.sale = t /\ i \in l.todo
                \/ Sells(till[c], t) /\ till[c].pc \in {"check", "items", "credit"}
    BY <1>1, <1>3, <1>4
  <2> QED
    BY <1>3, <1>6, <2>1, <2>2, EnoughTill
<1>7. CASE g # GoodOf[h]
  <2>1. shelf'[g] = shelf[g] + (adjusted'[g] - adjusted[g])
    BY <1>4, <1>5, <1>7
  <2>2. /\ v.pc = "restore" /\ till[c].pc = "restore"
        /\ \A p : \A i \in Of(p, g) : (i \notin v.todo <=> i \notin till[c].todo)
    BY <1>1, <1>3, <1>7 DEF Of
  <2> QED
    BY <1>3, <1>4, <1>6, <2>1, <2>2, LinesStay
<1>8. CASE g = GoodOf[h]
  <2> SUFFICES ASSUME ~Soiled(g)' PROVE AddsUp(g)' /\ (<<"rush", g>> \notin muddled' => Enough(g)')
    BY DEF GoodKept
  <2>1. ~Soiled(g) /\ AddsUp(g) /\ (<<"rush", g>> \notin muddled => Enough(g))
    BY <1>4, SoiledStays DEF GoodKept
  <2>2. h \in Of(s, g) /\ h \in SaleLines(g) /\ PaperOf[h] = s
    BY <1>2, <1>8, LinesAreInts
  <2>3. SaleClear(s)
    BY <2>1, <2>2, Spotless
  <2>4. /\ till'[c] = v /\ \A d \in Tills \ {c} : till'[d] = till[d]
        /\ \A d \in Tills : \A t : Sells(till[d], t)' <=> Sells(till'[d], t)
    BY <1>3 DEF ShopTypes, Sells
  <2>5. \A d \in Tills : Sells(till[d], s) => d = c
    BY <1>2, <2>3 DEF SaleClear
  <2>6. sale[s].status = "completed"
    BY <1>1, <1>2, <2>3 DEF SaleClear
  <2>7. SoldLine(s, h)' = SoldLine(s, h) + (-Quantity[h])
    <3>1. ~PutBack(s, h)
      BY <1>1, <1>8, <2>5, <2>6 DEF PutBack
    <3>2. PutBack(s, h)'
      BY <1>1, <1>2, <1>3, <1>8, <2>4 DEF PutBack
    <3>3. TakenOff(s, h)' <=> TakenOff(s, h)
      BY <1>1, <1>3, <1>4, <2>4 DEF TakenOff
    <3> QED
      BY <1>4, <1>8, <3>1, <3>2, <3>3 DEF SoldLine
  <2>8. ASSUME NEW i \in SaleLines(g) \ {h} PROVE SoldLine(PaperOf[i], i)' = SoldLine(PaperOf[i], i)
    <3>1. PICK t \in Sales : t = PaperOf[i] /\ i \in Items
      BY LinesAreInts DEF SaleLines
    <3>2. /\ sale'[t].status = sale[t].status
          /\ (\E l \in falling' : l.sale = t /\ i \in l.todo) <=> (\E l \in falling : l.sale = t /\ i \in l.todo)
          /\ (Sells(v, t) /\ v.pc \in {"items", "credit"})
               <=> (Sells(till[c], t) /\ till[c].pc \in {"items", "credit"})
          /\ (Sells(v, t) /\ v.pc = "restore" /\ i \notin v.todo)
               <=> (Sells(till[c], t) /\ till[c].pc = "restore" /\ i \notin till[c].todo)
      BY <1>3, <1>4
    <3>3. SoldLine(t, i)' = SoldLine(t, i)
      BY <1>3, <3>1, <3>2, SoldSame
    <3> QED
      BY <3>1, <3>3
  <2>9. OneMoves(Sold(g), Sold(g)', SaleLines(g), -Quantity[h])
    <3>1. SoldLine(PaperOf[h], h)' = SoldLine(PaperOf[h], h) + (-Quantity[h])
      BY <2>2, <2>7
    <3> QED
      BY <2>2, <2>8, <3>1 DEF OneMoves, Sold, SaleLines
  <2>10. ASSUME NEW i \in OrderLines(g) PROVE BroughtLine(PaperOf[i], i)' = BroughtLine(PaperOf[i], i)
    <3>1. PICK o \in Purchases : o = PaperOf[i] /\ i \in Items
      BY LinesAreInts DEF OrderLines
    <3>2. /\ (purchase'[o].status = "received") <=> (purchase[o].status = "received")
          /\ (ForOrder(v, o) /\ v.pc = "receive" /\ i \notin v.todo)
               <=> (ForOrder(till[c], o) /\ till[c].pc = "receive" /\ i \notin till[c].todo)
      BY <1>1, <1>3, <1>4
    <3>3. BroughtLine(o, i)' = BroughtLine(o, i)
      BY <1>3, <3>1, <3>2, BroughtSame
    <3> QED
      BY <3>1, <3>3
  <2>11. OneMoves(Delivered(g), Delivered(g)', OrderLines(g), 0)
    BY <2>10 DEF OneMoves, Delivered, OrderLines
  <2>12. /\ shelf'[g] = shelf[g] + (adjusted'[g] - adjusted[g]) + 0 - (-Quantity[h])
         /\ -Quantity[h] \in Int
    BY <1>4, <1>5, <1>8
  <2>13. AddsUp(g)'
    BY <2>1, <2>9, <2>11, <2>12, AddsUpMoves
  <2> QED
    BY <1>4, <1>6, <2>1, <2>13
<1> QED
  BY <1>7, <1>8

LEMMA ReceiveLineStock ==
  ASSUME ShopTypes, ShopTypes', AllClear, NEW g \in Goods, GoodKept(g), NEW c \in Tills, ReceiveLine(c)
  PROVE  GoodKept(g)'
<1>1. PICK h \in till[c].todo :
        /\ till[c].pc = "receive"
        /\ shelf' = [shelf EXCEPT ![GoodOf[h]] = @ + Quantity[h]]
        /\ till' = [till EXCEPT ![c].todo = @ \ {h}]
        /\ UNCHANGED <<sale, credit, received, purchase, falling, adjusted, served, muddled>>
  BY DEF ReceiveLine, On
<1>2. PICK o \in Purchases : /\ o = till[c].purchase /\ ForOrder(till[c], o) /\ h \in Of(o, GoodOf[h])
                             /\ \A t : ForOrder(till[c], t) => t = o
                             /\ \A t : ~Sells(till[c], t)
  BY <1>1, TillKinds DEF ForOrder, Sells, Of, LinesTodo, LinesOf, ShopTypes
<1>3. PICK v \in TillState :
           /\ till' = [till EXCEPT ![c] = v] /\ v.pc = till[c].pc /\ v.todo = till[c].todo \ {h}
           /\ \A t : Sells(v, t) <=> Sells(till[c], t)
           /\ \A t : ForOrder(v, t) <=> ForOrder(till[c], t)
  BY <1>1, FewerTodo
<1>4. /\ shelf \in [Goods -> Int] /\ adjusted' = adjusted /\ adjusted[g] \in Int /\ h \in Items /\ Quantity[h] \in Nat
      /\ muddled \subseteq muddled' /\ falling' = falling /\ sale' = sale /\ purchase' = purchase
      /\ muddled' = muddled
  BY <1>1, <1>2, LinesAreInts DEF ShopTypes, ShopTypeOK, Of
<1>5. shelf'[g] = IF g = GoodOf[h] THEN shelf[g] + Quantity[h] ELSE shelf[g]
  BY <1>1, <1>2, <1>4
<1>6. ASSUME Enough(g) PROVE Enough(g)'
  <2>1. shelf'[g] >= shelf[g]
    BY <1>4, <1>5
  <2>2. \A t \in Sales : \A i \in Of(t, g) :
           /\ Sells(v, t) /\ v.pc \in {"check", "items", "credit"} =>
                Sells(till[c], t) /\ till[c].pc \in {"check", "items", "credit"}
           /\ Sells(till[c], t) /\ till[c].pc = "check" /\ i \in till[c].todo =>
                \/ Sells(v, t) /\ v.pc = "check" /\ i \in v.todo
                \/ shelf[g] >= Quantity[i]
                \/ ~InFlight(t, i)'
           /\ (\E l \in falling' : l.sale = t /\ i \in l.todo) =>
                \/ \E l \in falling : l.sale = t /\ i \in l.todo
                \/ Sells(till[c], t) /\ till[c].pc \in {"check", "items", "credit"}
    BY <1>1, <1>3, <1>4
  <2> QED
    BY <1>3, <1>6, <2>1, <2>2, EnoughTill
<1>7. CASE g # GoodOf[h]
  <2>1. shelf'[g] = shelf[g] + (adjusted'[g] - adjusted[g])
    BY <1>4, <1>5, <1>7
  <2>2. /\ v.pc = "receive" /\ till[c].pc = "receive"
        /\ \A p : \A i \in Of(p, g) : (i \notin v.todo <=> i \notin till[c].todo)
    BY <1>1, <1>3, <1>7 DEF Of
  <2> QED
    BY <1>3, <1>4, <1>6, <2>1, <2>2, LinesStay
<1>8. CASE g = GoodOf[h]
  <2> SUFFICES ASSUME ~Soiled(g)' PROVE AddsUp(g)' /\ (<<"rush", g>> \notin muddled' => Enough(g)')
    BY DEF GoodKept
  <2>1. ~Soiled(g) /\ AddsUp(g) /\ (<<"rush", g>> \notin muddled => Enough(g))
    BY <1>4, SoiledStays DEF GoodKept
  <2>2. h \in Of(o, g) /\ h \in OrderLines(g) /\ PaperOf[h] = o
    BY <1>2, <1>8, LinesAreInts
  <2>3. OrderClear(o)
    BY <2>1, <2>2, Spotless
  <2>4. /\ till'[c] = v /\ \A d \in Tills \ {c} : till'[d] = till[d]
        /\ \A d \in Tills : \A t : ForOrder(till[d], t)' <=> ForOrder(till'[d], t)
    BY <1>3 DEF ShopTypes, ForOrder
  <2>5. \A d \in Tills : ForOrder(till[d], o) => d = c
    BY <1>2, <2>3 DEF OrderClear
  <2>6. purchase[o].status # "received"
    BY <1>1, <1>2, <2>3 DEF OrderClear
  <2>7. BroughtLine(o, h)' = BroughtLine(o, h) + Quantity[h]
    <3>1. ~Brought(o, h)
      BY <1>1, <1>8, <2>5, <2>6 DEF Brought
    <3>2. Brought(o, h)'
      BY <1>1, <1>2, <1>3, <1>8, <2>4 DEF Brought
    <3> QED
      BY <1>4, <1>8, <3>1, <3>2 DEF BroughtLine
  <2>8. ASSUME NEW i \in OrderLines(g) \ {h}
        PROVE  BroughtLine(PaperOf[i], i)' = BroughtLine(PaperOf[i], i)
    <3>1. PICK t \in Purchases : t = PaperOf[i] /\ i \in Items
      BY LinesAreInts DEF OrderLines
    <3>2. /\ (purchase'[t].status = "received") <=> (purchase[t].status = "received")
          /\ (ForOrder(v, t) /\ v.pc = "receive" /\ i \notin v.todo)
               <=> (ForOrder(till[c], t) /\ till[c].pc = "receive" /\ i \notin till[c].todo)
      BY <1>3, <1>4
    <3>3. BroughtLine(t, i)' = BroughtLine(t, i)
      BY <1>3, <3>1, <3>2, BroughtSame
    <3> QED
      BY <3>1, <3>3
  <2>9. OneMoves(Delivered(g), Delivered(g)', OrderLines(g), Quantity[h])
    <3>1. BroughtLine(PaperOf[h], h)' = BroughtLine(PaperOf[h], h) + Quantity[h]
      BY <2>2, <2>7
    <3> QED
      BY <2>2, <2>8, <3>1 DEF OneMoves, Delivered, OrderLines
  <2>10. ASSUME NEW i \in SaleLines(g) PROVE SoldLine(PaperOf[i], i)' = SoldLine(PaperOf[i], i)
    <3>1. PICK t \in Sales : t = PaperOf[i] /\ i \in Items
      BY LinesAreInts DEF SaleLines
    <3>2. /\ sale'[t].status = sale[t].status
          /\ (\E l \in falling' : l.sale = t /\ i \in l.todo) <=> (\E l \in falling : l.sale = t /\ i \in l.todo)
          /\ (Sells(v, t) /\ v.pc \in {"items", "credit"})
               <=> (Sells(till[c], t) /\ till[c].pc \in {"items", "credit"})
          /\ (Sells(v, t) /\ v.pc = "restore" /\ i \notin v.todo)
               <=> (Sells(till[c], t) /\ till[c].pc = "restore" /\ i \notin till[c].todo)
      BY <1>1, <1>3, <1>4
    <3>3. SoldLine(t, i)' = SoldLine(t, i)
      BY <1>3, <3>1, <3>2, SoldSame
    <3> QED
      BY <3>1, <3>3
  <2>11. OneMoves(Sold(g), Sold(g)', SaleLines(g), 0)
    BY <2>10 DEF OneMoves, Sold, SaleLines
  <2>12. PICK brought \in Int : brought = Quantity[h]
    BY <1>4, <1>8
  <2>13. AddsUp(g)'
    <3>1. shelf'[g] = shelf[g] + (adjusted'[g] - adjusted[g]) + brought - 0
      BY <1>4, <1>5, <1>8, <2>12
    <3>2. OneMoves(Delivered(g), Delivered(g)', OrderLines(g), brought)
      BY <2>9, <2>12
    <3> QED
      BY <2>1, <2>11, <3>1, <3>2, AddsUpMoves
  <2> QED
    BY <1>4, <1>6, <2>1, <2>13
<1> QED
  BY <1>7, <1>8

\* A request stops half way.
LEMMA BreakStock ==
  ASSUME ShopTypes, ShopTypes', AllClear, NEW g \in Goods, GoodKept(g), NEW c \in Tills, Break(c)
  PROVE  GoodKept(g)'
<1>1. /\ muddled' = muddled \union Concerns(till[c]) /\ till' = [till EXCEPT ![c] = Quiet]
      /\ UNCHANGED <<shelf, sale, credit, received, purchase, falling, adjusted>>
  BY DEF Break, Serves
<1>2. PICK v \in TillState : v = Quiet
  BY QuietTyped
<1>3. \A t : ~Sells(v, t) /\ ~ForOrder(v, t)
  BY <1>2, QuietIsAbout
<1>4. /\ \A s \in Sales : <<"sale", s>> \notin muddled' => ~Sells(till[c], s)
      /\ \A o \in Purchases : <<"purchase", o>> \notin muddled' => ~ForOrder(till[c], o)
  BY <1>1, ConcernsKinds DEF ShopTypes
<1>5. /\ shelf'[g] = shelf[g] + (adjusted'[g] - adjusted[g]) /\ muddled \subseteq muddled'
      /\ shelf'[g] >= shelf[g] /\ falling' = falling /\ sale' = sale /\ purchase' = purchase
      /\ till' = [till EXCEPT ![c] = v]
  BY <1>1, <1>2 DEF ShopTypes, ShopTypeOK
<1>6. ASSUME Enough(g), ~Soiled(g)' PROVE Enough(g)'
  <2>1. \A s \in Sales : \A i \in Of(s, g) : ~Sells(till[c], s)
    BY <1>4, <1>6 DEF Soiled, Of
  <2>2. \A t \in Sales : \A i \in Of(t, g) :
           /\ Sells(v, t) /\ v.pc \in {"check", "items", "credit"} =>
                Sells(till[c], t) /\ till[c].pc \in {"check", "items", "credit"}
           /\ Sells(till[c], t) /\ till[c].pc = "check" /\ i \in till[c].todo =>
                \/ Sells(v, t) /\ v.pc = "check" /\ i \in v.todo
                \/ shelf[g] >= Quantity[i]
                \/ ~InFlight(t, i)'
           /\ (\E l \in falling' : l.sale = t /\ i \in l.todo) =>
                \/ \E l \in falling : l.sale = t /\ i \in l.todo
                \/ Sells(till[c], t) /\ till[c].pc \in {"check", "items", "credit"}
    BY <1>3, <1>5, <2>1
  <2> QED
    BY <1>5, <1>6, <2>2, EnoughTill
<1> QED
  BY <1>3, <1>4, <1>5, <1>6, LinesStay

-----------------------------------------------------------------------------
\* A listener's step leaves the lines alone of which as much is to do as before.
LEMMA ListenerLeaves ==
  ASSUME UNCHANGED <<sale, purchase, till>>, NEW i
  PROVE  /\ \A s : (\E l \in falling' : l.sale = s /\ i \in l.todo) <=> (\E l \in falling : l.sale = s /\ i \in l.todo)
                     => SoldLine(s, i)' = SoldLine(s, i) /\ (InFlight(s, i)' <=> InFlight(s, i))
         /\ \A o : BroughtLine(o, i)' = BroughtLine(o, i)
         /\ \A s : Unchecked(s, i)' <=> Unchecked(s, i)
<1>1. \A d \in Tills : /\ \A t : Sells(till[d], t)' <=> Sells(till[d], t)
                       /\ \A t : ForOrder(till[d], t)' <=> ForOrder(till[d], t)
                       /\ till'[d] = till[d]
  BY DEF Sells, ForOrder
<1>2. ASSUME NEW s, (\E l \in falling' : l.sale = s /\ i \in l.todo) <=> (\E l \in falling : l.sale = s /\ i \in l.todo)
      PROVE  SoldLine(s, i)' = SoldLine(s, i) /\ (InFlight(s, i)' <=> InFlight(s, i))
  <2>1. TakenOff(s, i)' <=> TakenOff(s, i)
    BY <1>1, <1>2 DEF TakenOff
  <2>2. PutBack(s, i)' <=> PutBack(s, i)
    BY <1>1 DEF PutBack
  <2>3. InFlight(s, i)' <=> InFlight(s, i)
    BY <1>1, <1>2 DEF InFlight
  <2> QED
    BY <2>1, <2>2, <2>3 DEF SoldLine
<1>3. ASSUME NEW o PROVE BroughtLine(o, i)' = BroughtLine(o, i)
  BY <1>1 DEF BroughtLine, Brought
<1>4. ASSUME NEW s PROVE Unchecked(s, i)' <=> Unchecked(s, i)
  BY <1>1 DEF Unchecked
<1> QED
  BY <1>2, <1>3, <1>4

\* The listener dies: the sale is soiled, and the others are as they were.
LEMMA LoseListenerStock ==
  ASSUME ShopTypes, ShopTypes', AllClear, NEW g \in Goods, GoodKept(g), NEW l \in falling, LoseListener(l)
  PROVE  GoodKept(g)'
<1>1. /\ falling' = falling \ {l} /\ muddled' = muddled \union Concerns(l)
      /\ UNCHANGED <<shelf, sale, credit, received, purchase, till, adjusted>>
  BY DEF LoseListener
<1>2. /\ l.sale \in Sales /\ l.todo \subseteq LinesOf(l.sale) /\ <<"sale", l.sale>> \in muddled'
  BY <1>1, ListenerLines DEF Concerns
<1>3. /\ shelf'[g] = shelf[g] + (adjusted'[g] - adjusted[g]) /\ muddled \subseteq muddled'
      /\ shelf'[g] >= shelf[g] /\ shelf'[g] \in Int /\ UNCHANGED <<sale, purchase, till>>
  BY <1>1 DEF ShopTypes, ShopTypeOK
<1> SUFFICES ASSUME ~Soiled(g)'
             PROVE  /\ \A s \in Sales : \A i \in Of(s, g) : SoldLine(s, i)' = SoldLine(s, i)
                    /\ \A o \in Purchases : \A i \in Of(o, g) : BroughtLine(o, i)' = BroughtLine(o, i)
                    /\ Enough(g) => Enough(g)'
  BY <1>3, GoodStays
<1>4. \A p : \A i \in Of(p, g) : i \notin l.todo
  BY <1>2 DEF Soiled, LinesOf, Of
<1>5. \A s : \A i \in Of(s, g) : (\E k \in falling' : k.sale = s /\ i \in k.todo) <=> (\E k \in falling : k.sale = s /\ i \in k.todo)
  BY <1>1, <1>4
<1>6. \A s : \A i \in Of(s, g) : SoldLine(s, i)' = SoldLine(s, i) /\ (InFlight(s, i)' <=> InFlight(s, i))
  BY <1>3, <1>5, ListenerLeaves
<1>7. \A p : \A i \in Of(p, g) : BroughtLine(p, i)' = BroughtLine(p, i) /\ (Unchecked(p, i)' <=> Unchecked(p, i))
  BY <1>3, ListenerLeaves
<1>8. ASSUME Enough(g) PROVE Enough(g)'
  <2>1. \A s \in Sales : \A i \in Of(s, g) : InFlight(s, i)' =>
           InFlight(s, i) /\ (Unchecked(s, i) => Unchecked(s, i)' \/ shelf[g] >= Quantity[i])
    BY <1>6, <1>7
  <2> QED
    BY <1>3, <1>8, <2>1, EnoughStays
<1> QED
  BY <1>6, <1>7, <1>8

\* A line is taken off the stock.
LEMMA DecrementStock ==
  ASSUME ShopTypes, ShopTypes', AllClear, NEW g \in Goods, GoodKept(g),
         NEW l \in falling, NEW h \in l.todo, Decrement(l, h)
  PROVE  GoodKept(g)'
<1> DEFINE less == [l EXCEPT !.todo = @ \ {h}]
<1>1. /\ shelf' = [shelf EXCEPT ![GoodOf[h]] = @ - Quantity[h]]
      /\ falling' = (falling \ {l}) \union (IF l.todo = {h} THEN {} ELSE {less})
      /\ UNCHANGED <<sale, credit, received, purchase, till, adjusted, served, muddled>>
  BY DEF Decrement
<1>2. PICK s \in Sales : s = l.sale /\ h \in Of(s, GoodOf[h]) /\ l.todo \subseteq LinesOf(s)
  BY ListenerLines DEF LinesOf, Of
<1>3. less.sale = s /\ less.todo = l.todo \ {h}
  BY <1>2, ListenerLines
<1>4. /\ shelf \in [Goods -> Int] /\ adjusted' = adjusted /\ adjusted[g] \in Int /\ h \in Items /\ Quantity[h] \in Nat
      /\ muddled' = muddled /\ muddled \subseteq muddled' /\ UNCHANGED <<sale, purchase, till>>
  BY <1>1, <1>2, LinesAreInts DEF ShopTypes, ShopTypeOK, Of
<1>5. shelf'[g] = IF g = GoodOf[h] THEN shelf[g] - Quantity[h] ELSE shelf[g]
  BY <1>1, <1>2, <1>4
<1>6. \A p, i : BroughtLine(p, i)' = BroughtLine(p, i) /\ (Unchecked(p, i)' <=> Unchecked(p, i))
  BY <1>4, ListenerLeaves
<1>7. ASSUME NEW t, NEW i, i # h
      PROVE  (\E k \in falling' : k.sale = t /\ i \in k.todo) <=> (\E k \in falling : k.sale = t /\ i \in k.todo)
  <2> HIDE DEF less
  <2>1. \A k \in falling' : (k \in falling /\ k # l) \/ (k = less /\ l.todo # {h})
    BY <1>1
  <2>2. \A k \in falling : k \in falling' \/ k = l
    BY <1>1
  <2>3. l.todo = {h} \/ less \in falling'
    BY <1>1
  <2>4. i \in l.todo <=> i \in less.todo
    BY <1>3, <1>7
  <2>5. i \in l.todo => less \in falling'
    BY <1>7, <2>3
  <2> QED
    BY <1>2, <1>3, <2>1, <2>2, <2>4, <2>5
<1>8. CASE g # GoodOf[h]
  <2>1. \A t : \A i \in Of(t, g) : SoldLine(t, i)' = SoldLine(t, i) /\ (InFlight(t, i)' <=> InFlight(t, i))
    BY <1>4, <1>7, <1>8, ListenerLeaves DEF Of
  <2>2. /\ shelf'[g] = shelf[g] + (adjusted'[g] - adjusted[g])
        /\ shelf'[g] >= shelf[g] /\ shelf'[g] \in Int
    BY <1>4, <1>5, <1>8
  <2>3. ASSUME Enough(g) PROVE Enough(g)'
    <3>1. \A t \in Sales : \A i \in Of(t, g) : InFlight(t, i)' =>
           InFlight(t, i) /\ (Unchecked(t, i) => Unchecked(t, i)' \/ shelf[g] >= Quantity[i])
      BY <1>6, <2>1
    <3> QED
      BY <2>2, <2>3, <3>1, EnoughStays
  <2> QED
    BY <1>4, <1>6, <2>1, <2>2, <2>3, GoodStays
<1>9. CASE g = GoodOf[h]
  <2> SUFFICES ASSUME ~Soiled(g)' PROVE AddsUp(g)' /\ (<<"rush", g>> \notin muddled' => Enough(g)')
    BY DEF GoodKept
  <2>1. ~Soiled(g) /\ AddsUp(g) /\ (<<"rush", g>> \notin muddled => Enough(g))
    BY <1>4, SoiledStays DEF GoodKept
  <2>0. h \in Of(s, g) /\ h \in SaleLines(g) /\ PaperOf[h] = s
    BY <1>2, <1>9, LinesAreInts
  <2>2. SaleClear(s)
    BY <2>0, <2>1, Spotless
  <2>3. /\ sale[s].status \in {"completed", "voided"} /\ \A k \in falling : k.sale = s => k = l
        /\ \A d \in Tills : Sells(till[d], s) => till[d].pc \notin {"check", "items", "credit"}
    BY <1>2, <2>2 DEF SaleClear
  <2>4. \A k \in falling' : k.sale = s => h \notin k.todo
    <3> HIDE DEF less
    <3>1. \A k \in falling' : (k \in falling /\ k # l) \/ k = less
      BY <1>1
    <3> QED
      BY <1>3, <1>9, <2>3, <3>1
  <2>5. \A d \in Tills : /\ \A t : Sells(till[d], t)' <=> Sells(till[d], t)
                         /\ till'[d] = till[d]
    BY <1>4 DEF Sells
  <2>6. SoldLine(s, h)' = SoldLine(s, h) + Quantity[h]
    <3>1. ~TakenOff(s, h)
      BY <1>2, <1>9 DEF TakenOff
    <3>2. TakenOff(s, h)'
      BY <1>4, <2>3, <2>4, <2>5 DEF TakenOff
    <3>3. PutBack(s, h)' <=> PutBack(s, h)
      BY <1>4, <2>5 DEF PutBack
    <3> QED
      BY <1>4, <1>9, <3>1, <3>2, <3>3 DEF SoldLine
  <2>7. \A t, i : i # h => SoldLine(t, i)' = SoldLine(t, i) /\ (InFlight(t, i)' <=> InFlight(t, i))
    BY <1>4, <1>7, ListenerLeaves
  <2>8. OneMoves(Sold(g), Sold(g)', SaleLines(g), Quantity[h])
    <3>1. SoldLine(PaperOf[h], h)' = SoldLine(PaperOf[h], h) + Quantity[h]
      BY <2>0, <2>6
    <3>2. \A i \in SaleLines(g) \ {h} : SoldLine(PaperOf[i], i)' = SoldLine(PaperOf[i], i)
      BY <2>7
    <3> QED
      BY <2>0, <3>1, <3>2 DEF OneMoves, Sold, SaleLines
  <2>9. OneMoves(Delivered(g), Delivered(g)', OrderLines(g), 0)
    BY <1>6 DEF OneMoves, Delivered, OrderLines
  <2>10. /\ shelf'[g] = shelf[g] + (adjusted'[g] - adjusted[g]) + 0 - Quantity[h]
         /\ Quantity[h] \in Int
    BY <1>4, <1>5, <1>9
  <2>11. AddsUp(g)'
    BY <2>1, <2>8, <2>9, <2>10, AddsUpMoves
  <2>12. ASSUME Enough(g) PROVE Enough(g)'
    <3>1. InFlight(s, h)
      BY <1>2 DEF InFlight
    <3>2. ~Unchecked(s, h)
      BY <2>3 DEF Unchecked
    <3>3. shelf[g] >= Quantity[h]
      BY <2>0, <2>12, <3>1, <3>2 DEF Enough
    <3>4. \A t \in Sales : \A i \in Of(t, g) : ~InFlight(t, i)'
      <4>1. ~InFlight(s, h)'
        BY <2>3, <2>4, <2>5 DEF InFlight
      <4>2. ASSUME NEW t \in Sales, NEW i \in Of(t, g), InFlight(t, i)' PROVE FALSE
        <5>1. CASE i = h
          BY <2>0, <4>1, <4>2, <5>1 DEF Of
        <5>2. CASE i # h
          <6>1. InFlight(t, i)
            BY <2>7, <4>2, <5>2
          <6> QED
            BY <2>0, <2>12, <3>1, <5>2, <6>1 DEF Enough
        <5> QED
          BY <5>1, <5>2
      <4> QED
        BY <4>2
    <3>5. shelf'[g] >= 0
      BY <1>4, <1>5, <1>9, <3>3
    <3> QED
      BY <3>4, <3>5 DEF Enough, Of
  <2> QED
    BY <1>4, <2>1, <2>11, <2>12
<1> QED
  BY <1>8, <1>9

-----------------------------------------------------------------------------
(* The invariant.                                                          *)

LEMMA GoodKeptInit == ASSUME ShopInit, NEW g \in Goods PROVE GoodKept(g)
<1>1. ShopTypes
  BY ShopTypesInit
<1>2. /\ \A c \in Tills : till[c] = Quiet
      /\ \A s \in Sales : sale[s] = NoPaper
      /\ \A o \in Purchases : purchase[o] = NoPaper
      /\ falling = {} /\ shelf[g] = Stocked[g] /\ adjusted[g] = 0 /\ Stocked[g] \in Nat
      /\ NoPaper.status = "none"
  BY DEF ShopInit, NoPaper
<1>3. \A s \in Sales : \A i \in Of(s, g) : SoldLine(s, i) = 0
  BY <1>2, QuietIsAbout DEF SoldLine, TakenOff, PutBack
<1>4. \A o \in Purchases : \A i \in Of(o, g) : BroughtLine(o, i) = 0
  BY <1>2, QuietIsAbout DEF BroughtLine, Brought
<1>5. PICK f : f = Sold(g)
  OBVIOUS
<1>6. PICK p : p = Delivered(g)
  OBVIOUS
<1>7. (\A i \in SaleLines(g) : f[i] = 0) /\ \A i \in OrderLines(g) : p[i] = 0
  <2>1. \A i \in SaleLines(g) : SoldLine(PaperOf[i], i) = 0
    BY <1>1, <1>3, LinesAreInts
  <2>2. \A i \in OrderLines(g) : BroughtLine(PaperOf[i], i) = 0
    BY <1>1, <1>4, LinesAreInts
  <2> QED
    BY <1>5, <1>6, <2>1, <2>2 DEF Sold, Delivered
<1>8. SumOf(f, SaleLines(g)) = 0 /\ SumOf(p, OrderLines(g)) = 0
  BY <1>7, SumsAreFinite, SumZero
<1>9. AddsUp(g)
  <2>1. shelf[g] = Stocked[g] + adjusted[g] + SumOf(p, OrderLines(g)) - SumOf(f, SaleLines(g))
    BY <1>2, <1>8
  <2> QED
    BY <1>5, <1>6, <2>1 DEF AddsUp
<1>10. Enough(g)
  <2>1. \A s \in Sales : \A i \in Of(s, g) : ~InFlight(s, i)
    BY <1>2, QuietIsAbout DEF InFlight
  <2> QED
    BY <1>2, <2>1 DEF Enough
<1> QED
  BY <1>9, <1>10 DEF GoodKept

LEMMA GoodKeptStep ==
  ASSUME ShopTypes, AllClear, NEW g \in Goods, GoodKept(g), [ShopNext]_shopVars
  PROVE  GoodKept(g)'
<1>1. ShopTypes'
  BY ShopTypesStep
<1>2. CASE UNCHANGED shopVars
  <2>1. UNCHANGED <<sale, purchase, till>> /\ UNCHANGED <<shelf, falling, adjusted, muddled>>
    BY <1>2 DEF shopVars
  <2>2. /\ \A s, i : SoldLine(s, i)' = SoldLine(s, i) /\ (InFlight(s, i)' <=> InFlight(s, i))
        /\ \A o, i : BroughtLine(o, i)' = BroughtLine(o, i)
        /\ \A s, i : Unchecked(s, i)' <=> Unchecked(s, i)
    BY <2>1, ListenerLeaves
  <2>3. Enough(g) => Enough(g)'
    BY <2>1, <2>2 DEF Enough, Of
  <2>4. shelf'[g] = shelf[g] + (adjusted'[g] - adjusted[g]) /\ muddled \subseteq muddled'
    BY <2>1 DEF ShopTypes, ShopTypeOK
  <2> QED
    BY <1>1, <2>2, <2>3, <2>4, GoodStays
<1>3. ASSUME NEW c \in Tills, NEW s \in Sales,
             \/ BeginSale(c, s) \/ BeginVoid(c, s)
             \/ \E amount \in 1..Total[s] : BeginPayment(c, s, amount)
      PROVE  GoodKept(g)'
  BY <1>1, <1>3, BeginSaleStock
<1>4. ASSUME NEW c \in Tills, NEW o \in Purchases,
             BeginOrder(c, o) \/ BeginReceive(c, o) \/ BeginCancelOrder(c, o)
      PROVE  GoodKept(g)'
  BY <1>1, <1>4, BeginOrderStock
<1>5. ASSUME NEW c \in Tills, NEW h \in Goods, NEW by \in {-1, 1}, BeginAdjust(c, h, by) PROVE GoodKept(g)'
  BY <1>1, <1>5, BeginAdjustStock
<1>6. ASSUME NEW c \in Tills, CheckLine(c) PROVE GoodKept(g)'
  BY <1>1, <1>6, CheckLineStock
<1>7. ASSUME NEW c \in Tills, InsertSale(c) \/ InsertItems(c) \/ InsertCredit(c) \/ MarkVoided(c)
      PROVE  GoodKept(g)'
  BY <1>1, <1>7, SaleSavesStock
<1>8. ASSUME NEW c \in Tills, InsertOrder(c) \/ InsertOrderItems(c) \/ MarkReceived(c) \/ MarkCancelled(c)
      PROVE  GoodKept(g)'
  BY <1>1, <1>8, OrderSavesStock
<1>9. ASSUME NEW c \in Tills, RestoreLine(c) PROVE GoodKept(g)'
  BY <1>1, <1>9, RestoreLineStock
<1>10. ASSUME NEW c \in Tills, ReceiveLine(c) PROVE GoodKept(g)'
  BY <1>1, <1>10, ReceiveLineStock
<1>11. ASSUME NEW c \in Tills, SaveStock(c) PROVE GoodKept(g)'
  BY <1>1, <1>11, SaveStockStock
<1>12. ASSUME NEW c \in Tills, InsertPayment(c) \/ SaveCredit(c) PROVE GoodKept(g)'
  BY <1>1, <1>12, PaymentStock
<1>13. ASSUME NEW c \in Tills, Break(c) PROVE GoodKept(g)'
  BY <1>1, <1>13, BreakStock
<1>14. ASSUME NEW l \in falling, LoseListener(l) PROVE GoodKept(g)'
  BY <1>1, <1>14, LoseListenerStock
<1>15. ASSUME NEW l \in falling, NEW h \in l.todo, Decrement(l, h) PROVE GoodKept(g)'
  BY <1>1, <1>15, DecrementStock
<1> QED
  BY <1>2, <1>3, <1>4, <1>5, <1>6, <1>7, <1>8, <1>9, <1>10, <1>11, <1>12, <1>13, <1>14, <1>15
     DEF ShopNext

-----------------------------------------------------------------------------
\* The sums of the property are the sums of the tables.
LEMMA ShopSums ==
  ASSUME NEW T \in SUBSET Items PROVE MapThenSumSet(LAMBDA i : Quantity[i], T) = SumOf(Quantity, T)
<1> DEFINE table(h) == h = [s \in SUBSET T |->
             IF s = {} THEN 0 ELSE Quantity[SumFirst(s)] + h[s \ {SumFirst(s)}]]
<1>1. MapThenSumSet(LAMBDA i : Quantity[i], T) = (CHOOSE h : table(h))[T]
  BY DEF MapThenSumSet, MapThenFoldSet, SumFirst
<1>2. ASSUME NEW h PROVE table(h) <=> SumTable(Quantity, h, T)
  BY DEF SumTable, SumAdds
<1>3. (CHOOSE h : table(h)) = (CHOOSE h : SumTable(Quantity, h, T))
  BY <1>2
<1> QED
  BY <1>1, <1>3, SumUnfolds

\* At rest, every line is where the papers say.
LEMMA AtRest ==
  ASSUME ShopTypes, AllClear, NEW g \in Goods, ~Soiled(g), AddsUp(g), falling = {}, \A c \in Tills : till[c] = Quiet
  PROVE  shelf[g] = Stocked[g] + adjusted[g]
           + Pieces(g, {o \in Purchases : purchase[o].status = "received"})
           - Pieces(g, {s \in Sales : sale[s].status = "completed"})
<1> DEFINE A == {i \in SaleLines(g) : sale[PaperOf[i]].status = "completed"}
           B == {i \in OrderLines(g) : purchase[PaperOf[i]].status = "received"}
<1>1. PICK T : T = A
  OBVIOUS
<1>2. PICK U : U = B
  OBVIOUS
<1>3. Pieces(g, {s \in Sales : sale[s].status = "completed"}) = SumOf(Quantity, T)
  <2>1. {i \in Items : GoodOf[i] = g /\ PaperOf[i] \in {s \in Sales : sale[s].status = "completed"}} = T
    BY <1>1 DEF SaleLines
  <2>2. T \in SUBSET Items
    BY <1>1 DEF SaleLines
  <2> QED
    BY <2>1, <2>2, ShopSums DEF Pieces
<1>4. Pieces(g, {o \in Purchases : purchase[o].status = "received"}) = SumOf(Quantity, U)
  <2>1. {i \in Items : GoodOf[i] = g /\ PaperOf[i] \in {o \in Purchases : purchase[o].status = "received"}} = U
    BY <1>2 DEF OrderLines
  <2>2. U \in SUBSET Items
    BY <1>2 DEF OrderLines
  <2> QED
    BY <2>1, <2>2, ShopSums DEF Pieces
<1>5. PICK h : h = Sold(g)
  OBVIOUS
<1>6. PICK q : q = Delivered(g)
  OBVIOUS
<1>7. /\ \A i \in SaleLines(g) : Quantity[i] \in Nat
      /\ \A i \in OrderLines(g) : Quantity[i] \in Nat
  BY DEF SaleLines, OrderLines
<1>8. ASSUME NEW i \in SaleLines(g) PROVE h[i] = IF i \in T THEN Quantity[i] ELSE 0
  <2>1. PICK s \in Sales : s = PaperOf[i] /\ i \in Of(s, g)
    BY LinesAreInts
  <2>2. TakenOff(s, i) <=> sale[s].status # "none"
    BY QuietIsAbout DEF TakenOff
  <2>3. PutBack(s, i) <=> sale[s].status = "voided"
    BY QuietIsAbout DEF PutBack
  <2>4. sale[s].status \in {"none", "completed", "voided"}
    <3>1. SaleClear(s)
      BY <2>1, Spotless
    <3> QED
      BY <3>1 DEF SaleClear
  <2>5. SoldLine(s, i) = IF i \in T THEN Quantity[i] ELSE 0
    BY <1>1, <1>7, <2>1, <2>2, <2>3, <2>4 DEF SoldLine
  <2> QED
    BY <1>5, <2>1, <2>5 DEF Sold
<1>9. ASSUME NEW i \in OrderLines(g) PROVE q[i] = IF i \in U THEN Quantity[i] ELSE 0
  <2>1. PICK o \in Purchases : o = PaperOf[i]
    BY LinesAreInts
  <2>2. Brought(o, i) <=> purchase[o].status = "received"
    BY QuietIsAbout DEF Brought
  <2>3. BroughtLine(o, i) = IF i \in U THEN Quantity[i] ELSE 0
    BY <1>2, <2>1, <2>2 DEF BroughtLine
  <2> QED
    BY <1>6, <2>1, <2>3 DEF Delivered
<1>10. SumOf(h, SaleLines(g)) = SumOf(Quantity, T)
  <2>1. T \in SUBSET SaleLines(g) /\ \A i \in T : Quantity[i] \in Int /\ h[i] = Quantity[i]
    BY <1>1, <1>7, <1>8
  <2>2. \A i \in SaleLines(g) \ T : h[i] = 0
    BY <1>8
  <2> QED
    BY ONLY <2>1, <2>2, SumsAreFinite, SumWhere
<1>11. SumOf(q, OrderLines(g)) = SumOf(Quantity, U)
  <2>1. U \in SUBSET OrderLines(g) /\ \A i \in U : Quantity[i] \in Int /\ q[i] = Quantity[i]
    BY <1>2, <1>7, <1>9
  <2>2. \A i \in OrderLines(g) \ U : q[i] = 0
    BY <1>9
  <2> QED
    BY ONLY <2>1, <2>2, SumsAreFinite, SumWhere
<1>12. shelf[g] = Stocked[g] + adjusted[g] + SumOf(q, OrderLines(g)) - SumOf(h, SaleLines(g))
  BY <1>5, <1>6 DEF AddsUp
<1> QED
  BY <1>3, <1>4, <1>10, <1>11, <1>12

StockInv ==
  /\ ShopTypes /\ AllClear
  /\ \A g \in Goods : GoodKept(g)

LEMMA StockInvStep == StockInv /\ [ShopNext]_shopVars => StockInv'
BY ShopTypesStep, ClearStep, GoodKeptStep DEF StockInv

LEMMA StockInvInit == ShopInit => StockInv
BY ShopTypesInit, ClearInit, GoodKeptInit DEF StockInv

\* The invariant holds in every state.
THEOREM StockInvariant == ShopSpec => []StockInv
  BY StockInvInit, StockInvStep, PTL DEF ShopSpec

\* The rows stay rows: statuses, amounts, and what the listeners have to do.
THEOREM ShopTypesHold == ShopSpec => []ShopTypeOK
<1>1. StockInv => ShopTypeOK
  BY DEF StockInv, ShopTypes
<1> QED
  BY <1>1, StockInvariant, PTL

\* At rest the stock is what the papers say, and no more is sold than there is
\* (createSale, handleSaleCompleted, voidSale, receiveOrder, adjustStock), but for the
\* products whose papers overlapped, stopped or were repeated.
THEOREM StockIsWhatPapersSay == ShopSpec => []StockAddsUp
<1>1. StockInv => StockAddsUp
  <2> SUFFICES ASSUME StockInv PROVE StockAddsUp
    OBVIOUS
  <2>1. ASSUME falling = {}, \A c \in Tills : till[c] = Quiet, NEW g \in Goods, ~Soiled(g)
        PROVE  shelf[g] = Stocked[g] + adjusted[g]
           + Pieces(g, {o \in Purchases : purchase[o].status = "received"})
           - Pieces(g, {s \in Sales : sale[s].status = "completed"})
    BY <2>1, AtRest DEF StockInv, GoodKept
  <2>2. ASSUME NEW g \in Goods, ~Soiled(g), <<"rush", g>> \notin muddled PROVE shelf[g] >= 0
    BY <2>2 DEF StockInv, GoodKept, Enough
  <2> QED
    BY <2>1, <2>2 DEF StockAddsUp
<1> QED
  BY <1>1, StockInvariant, PTL

HIDE ShopAssumption

-----------------------------------------------------------------------------
(* Sales made offline.                                                     *)

Holds(r, k) == k \in sync[r].todo \/ k \in sync[r].failed

\* A run at rest holds nothing, and a run holds only carts that were queued.
SyncOK(r) ==
  /\ \A k \in Carts : Holds(r, k) => sync[r].on /\ k \in kept
  /\ ~sync[r].on => sync[r].todo = {} /\ sync[r].failed = {}

\* Where a cart is of which nobody is unsure.
CartOK(k) ==
  /\ sold[k] \in {0, 1}
  /\ k \in kept => k \in queue \/ sold[k] = 1
  /\ \A r \in Syncs : sync[r].on /\ k \in queue => Holds(r, k) \/ sold[k] = 1
  /\ \A r \in Syncs : Holds(r, k) => sold[k] = 0 /\ k \in queue
  /\ \A r \in Syncs : ~(k \in sync[r].todo /\ k \in sync[r].failed)
  /\ k \in queue /\ Running = {} => sold[k] = 0
  /\ \A r, s \in Syncs : sync[r].on /\ sync[s].on /\ r # s => k \notin queue

OfflineInv ==
  /\ OfflineTypeOK
  /\ \A k \in Carts : k \notin kept => sold[k] = 0
  /\ \A r \in Syncs : SyncOK(r)
  /\ \A k \in Carts \ unsure : CartOK(k)

USE DEF Holds

LEMMA OfflineInitInv == OfflineInit => OfflineInv
<1> SUFFICES ASSUME OfflineInit PROVE OfflineInv
  OBVIOUS
<1>1. \A r \in Syncs : sync[r] = [todo |-> {}, failed |-> {}, on |-> FALSE]
  BY DEF OfflineInit, Asleep
<1>2. OfflineTypeOK
  BY DEF OfflineInit, OfflineTypeOK, Asleep
<1>3. \A r \in Syncs : SyncOK(r)
  BY <1>1 DEF SyncOK
<1>4. \A k \in Carts : CartOK(k)
  BY <1>1 DEF OfflineInit, CartOK
<1> QED
  BY <1>2, <1>3, <1>4 DEF OfflineInit, OfflineInv

LEMMA QueueSaleInv == ASSUME OfflineInv, NEW k \in Carts, QueueSale(k) PROVE OfflineInv'
<1>1. OfflineTypeOK'
  BY DEF OfflineInv, OfflineTypeOK, QueueSale
<1>2. \A r \in Syncs : ~Holds(r, k) /\ SyncOK(r)'
  BY DEF OfflineInv, SyncOK, QueueSale
<1>3. ASSUME NEW j \in Carts \ unsure' PROVE CartOK(j)'
  <2>1. j \in Carts \ unsure /\ CartOK(j)
    BY DEF QueueSale, OfflineInv
  <2>2. CASE j = k
    <3>1. Running = {} /\ \A r \in Syncs : ~sync[r].on
      BY <2>2, <1>3 DEF QueueSale, Running
    <3>2. sold[k] = 0
      BY DEF OfflineInv, QueueSale
    <3> QED
      BY <1>2, <2>2, <3>1, <3>2 DEF CartOK, QueueSale, Running
  <2>3. CASE j # k
    BY <2>1, <2>3 DEF CartOK, QueueSale, Running
  <2> QED
    BY <2>2, <2>3
<1> QED
  BY <1>1, <1>2, <1>3 DEF OfflineInv, QueueSale

LEMMA BeginSyncInv == ASSUME OfflineInv, NEW r \in Syncs, BeginSync(r) PROVE OfflineInv'
<1>1. OfflineTypeOK'
  BY DEF OfflineInv, OfflineTypeOK, BeginSync
<1>2. /\ sync'[r] = [todo |-> queue, failed |-> {}, on |-> TRUE]
      /\ \A s \in Syncs \ {r} : sync'[s] = sync[s]
  BY DEF OfflineInv, OfflineTypeOK, BeginSync
<1>3. \A s \in Syncs : SyncOK(s)'
  BY <1>2 DEF OfflineInv, OfflineTypeOK, SyncOK, BeginSync
<1>4. ASSUME NEW j \in Carts \ unsure' PROVE CartOK(j)'
  <2>1. j \in Carts \ unsure /\ CartOK(j) /\ (Running = {} \/ j \notin queue)
    BY DEF BeginSync, OfflineInv
  <2>2. \A s \in Syncs \ {r} : Running = {} => ~sync'[s].on
    BY <1>2 DEF Running
  <2>3. Running' # {}
    BY <1>2 DEF Running
  <2> QED
    BY <1>2, <1>3, <2>1, <2>2, <2>3 DEF CartOK, BeginSync, OfflineInv, SyncOK
<1> QED
  BY <1>1, <1>3, <1>4 DEF OfflineInv, BeginSync

\* A cart that a run holds is held by no other, if nobody is unsure of it.
LEMMA HeldByOne ==
  ASSUME OfflineInv, NEW r \in Syncs, NEW s \in Syncs, r # s, NEW k \in Carts \ unsure,
         Holds(r, k), sync[s].on
  PROVE  FALSE
  BY DEF OfflineInv, SyncOK, CartOK

\* What an answer to a post changes, whichever it is.
LEMMA PostedRows ==
  ASSUME OfflineInv, NEW r \in Syncs, NEW k \in sync[r].todo, NEW failed \in BOOLEAN,
         Posted(r, k, failed)
  PROVE  /\ k \in Carts /\ k \in kept /\ sync[r].on
         /\ sync' \in [Syncs -> [todo: SUBSET Carts, failed: SUBSET Carts, on: BOOLEAN]]
         /\ sync'[r].todo = sync[r].todo \ {k} /\ sync'[r].on = sync[r].on
         /\ sync'[r].failed = IF failed THEN sync[r].failed \union {k} ELSE sync[r].failed
         /\ \A s \in Syncs \ {r} : sync'[s] = sync[s]
<1>1. k \in Carts /\ sync \in [Syncs -> [todo: SUBSET Carts, failed: SUBSET Carts, on: BOOLEAN]]
  BY DEF OfflineInv, OfflineTypeOK
<1>2. k \in kept /\ sync[r].on
  BY <1>1 DEF OfflineInv, SyncOK
<1> QED
  BY <1>1, <1>2 DEF Posted

LEMMA PostSaleInv ==
  ASSUME OfflineInv, NEW r \in Syncs, NEW k \in sync[r].todo, PostSale(r, k)
  PROVE  OfflineInv'
<1>1. /\ k \in Carts /\ k \in kept /\ sync[r].on
      /\ sync' \in [Syncs -> [todo: SUBSET Carts, failed: SUBSET Carts, on: BOOLEAN]]
      /\ sync'[r].todo = sync[r].todo \ {k} /\ sync'[r].on
      /\ sync'[r].failed = sync[r].failed
      /\ \A s \in Syncs \ {r} : sync'[s] = sync[s]
  BY PostedRows DEF PostSale
<1>2. sold' \in [Carts -> Nat] /\ sold'[k] = sold[k] + 1 /\ \A j \in Carts \ {k} : sold'[j] = sold[j]
  BY <1>1 DEF OfflineInv, OfflineTypeOK, PostSale
<1>3. OfflineTypeOK'
  BY <1>1, <1>2 DEF OfflineInv, OfflineTypeOK, PostSale
<1>4. \A s \in Syncs : SyncOK(s)'
  BY <1>1 DEF OfflineInv, SyncOK, PostSale
<1>5. Running' = Running /\ Running # {}
  BY <1>1 DEF Running
<1>6. ASSUME NEW j \in Carts \ unsure' PROVE CartOK(j)'
  <2>1. j \in Carts \ unsure /\ CartOK(j)
    BY <1>6 DEF PostSale, OfflineInv
  <2>2. CASE j = k
    <3>1. sold[j] = 0 /\ sold'[j] = 1 /\ j \in queue /\ j \notin sync[r].failed
      BY <1>2, <2>1, <2>2 DEF CartOK
    <3>2. \A s \in Syncs : s # r => ~sync[s].on
      BY HeldByOne, <2>1, <2>2
    <3>3. \A s \in Syncs : ~Holds(s, j)'
      BY <1>1, <2>2, <3>1, <3>2 DEF OfflineInv, SyncOK
    <3>4. \A s, u \in Syncs : ~(sync'[s].on /\ sync'[u].on /\ s # u)
      BY <1>1, <3>2
    <3> QED
      BY <1>5, <3>1, <3>3, <3>4 DEF CartOK, PostSale
  <2>3. CASE j # k
    <3>1. \A s \in Syncs : /\ Holds(s, j)' <=> Holds(s, j)
                           /\ sync'[s].on <=> sync[s].on
                           /\ j \in sync'[s].todo <=> j \in sync[s].todo
                           /\ j \in sync'[s].failed <=> j \in sync[s].failed
      BY <1>1, <2>3
    <3> QED
      BY <1>2, <1>5, <2>1, <2>3, <3>1 DEF CartOK, PostSale
  <2> QED
    BY <2>2, <2>3
<1> QED
  BY <1>1, <1>2, <1>3, <1>4, <1>6 DEF OfflineInv, PostSale

\* A post without a sale: refused, or a sale whose answer is lost, which is unsure.
LEMMA PostFailsInv ==
  ASSUME OfflineInv, NEW r \in Syncs, NEW k \in sync[r].todo, PostFails(r, k) \/ LoseAnswer(r, k)
  PROVE  OfflineInv'
<1>1. /\ k \in Carts /\ k \in kept /\ sync[r].on
      /\ sync' \in [Syncs -> [todo: SUBSET Carts, failed: SUBSET Carts, on: BOOLEAN]]
      /\ sync'[r].todo = sync[r].todo \ {k} /\ sync'[r].on
      /\ sync'[r].failed = sync[r].failed \union {k}
      /\ \A s \in Syncs \ {r} : sync'[s] = sync[s]
  BY PostedRows DEF PostFails, LoseAnswer
<1>2. /\ sold' \in [Carts -> Nat] /\ unsure \subseteq unsure' /\ unsure' \subseteq Carts
      /\ \A j \in Carts : j # k \/ k \notin unsure' => sold'[j] = sold[j]
  <2>1. CASE PostFails(r, k)
    BY <2>1 DEF OfflineInv, OfflineTypeOK, PostFails
  <2>2. CASE LoseAnswer(r, k)
    BY <1>1, <2>2 DEF OfflineInv, OfflineTypeOK, LoseAnswer
  <2> QED
    BY <2>1, <2>2
<1>3. UNCHANGED <<queue, online, kept>>
  BY DEF PostFails, LoseAnswer
<1>4. OfflineTypeOK'
  BY <1>1, <1>2, <1>3 DEF OfflineInv, OfflineTypeOK
<1>5. \A s \in Syncs : SyncOK(s)'
  BY <1>1, <1>3 DEF OfflineInv, SyncOK
<1>6. Running' = Running /\ Running # {}
  BY <1>1 DEF Running
<1>7. ASSUME NEW j \in Carts \ unsure' PROVE CartOK(j)'
  <2>1. j \in Carts \ unsure /\ CartOK(j) /\ sold'[j] = sold[j]
    BY <1>2, <1>7 DEF OfflineInv
  <2>2. \A s \in Syncs : /\ Holds(s, j)' <=> Holds(s, j)
                         /\ sync'[s].on <=> sync[s].on
                         /\ ~(j \in sync'[s].todo /\ j \in sync'[s].failed)
    BY <1>1, <2>1 DEF CartOK
  <2> QED
    BY <1>3, <1>6, <2>1, <2>2 DEF CartOK
<1> QED
  BY <1>1, <1>2, <1>3, <1>4, <1>5, <1>7 DEF OfflineInv

LEMMA EndSyncInv == ASSUME OfflineInv, NEW r \in Syncs, EndSync(r) PROVE OfflineInv'
<1>1. /\ sync'[r] = Asleep /\ \A s \in Syncs \ {r} : sync'[s] = sync[s]
      /\ sync' \in [Syncs -> [todo: SUBSET Carts, failed: SUBSET Carts, on: BOOLEAN]]
  BY DEF OfflineInv, OfflineTypeOK, EndSync, Asleep
<1>2. queue' = sync[r].failed /\ sync[r].on /\ sync[r].todo = {}
  BY DEF EndSync, Requeued
<1>3. queue' \subseteq kept
  BY <1>2 DEF OfflineInv, OfflineTypeOK, SyncOK
<1>4. OfflineTypeOK'
  BY <1>1, <1>3 DEF OfflineInv, OfflineTypeOK, EndSync
<1>5. \A s \in Syncs : SyncOK(s)'
  BY <1>1 DEF OfflineInv, SyncOK, EndSync, Asleep
<1>6. ASSUME NEW j \in Carts \ unsure' PROVE CartOK(j)'
  <2>1. j \in Carts \ unsure /\ CartOK(j)
    BY <1>6 DEF EndSync, OfflineInv
  <2>2. CASE j \in queue'
    <3>1. Holds(r, j) /\ sold[j] = 0
      BY <1>2, <2>1, <2>2 DEF CartOK
    <3>2. \A s \in Syncs : s # r => ~sync[s].on
      BY HeldByOne, <2>1, <3>1
    <3>3. \A s \in Syncs : ~sync'[s].on
      BY <1>1, <3>2 DEF Asleep
    <3> QED
      BY <1>5, <2>1, <2>2, <3>1, <3>3 DEF CartOK, EndSync, SyncOK
  <2>3. CASE j \notin queue'
    <3>1. \A s \in Syncs : ~Holds(s, j)'
      <4>1. ASSUME NEW s \in Syncs, s # r, Holds(s, j) PROVE FALSE
        BY HeldByOne, <1>2, <2>1, <4>1
      <4> QED
        BY <1>1, <4>1 DEF Asleep
    <3>2. j \in kept => sold[j] = 1
      BY <1>2, <2>1, <2>3 DEF CartOK
    <3> QED
      BY <2>1, <2>3, <3>1, <3>2 DEF CartOK, EndSync
  <2> QED
    BY <2>2, <2>3
<1> QED
  BY <1>4, <1>5, <1>6 DEF OfflineInv, EndSync

LEMMA ClosePageInv == ASSUME OfflineInv, NEW r \in Syncs, ClosePage(r) PROVE OfflineInv'
<1>1. /\ sync'[r] = Asleep /\ \A s \in Syncs \ {r} : sync'[s] = sync[s]
      /\ sync' \in [Syncs -> [todo: SUBSET Carts, failed: SUBSET Carts, on: BOOLEAN]]
  BY DEF OfflineInv, OfflineTypeOK, ClosePage, Asleep
<1>2. unsure' = unsure \union (queue \ sync[r].todo) /\ UNCHANGED <<queue, sold, kept, online>>
  BY DEF ClosePage
<1>3. OfflineTypeOK'
  BY <1>1, <1>2 DEF OfflineInv, OfflineTypeOK
<1>4. \A s \in Syncs : SyncOK(s)'
  BY <1>1, <1>2 DEF OfflineInv, SyncOK, Asleep
<1>5. ASSUME NEW j \in Carts \ unsure' PROVE CartOK(j)'
  <2>1. j \in Carts \ unsure /\ CartOK(j) /\ (j \in queue => j \in sync[r].todo)
    BY <1>2, <1>5 DEF OfflineInv
  <2>2. \A s \in Syncs : (sync'[s].on => sync[s].on /\ sync'[s] = sync[s])
                         /\ (Holds(s, j)' => Holds(s, j) /\ sync'[s] = sync[s])
                         /\ ~(j \in sync'[s].todo /\ j \in sync'[s].failed)
    BY <1>1, <2>1 DEF Asleep, CartOK
  <2>3. j \in queue => sold[j] = 0
    BY <2>1 DEF CartOK
  <2> QED
    BY <1>2, <2>1, <2>2, <2>3 DEF CartOK
<1> QED
  BY <1>2, <1>3, <1>4, <1>5 DEF OfflineInv

LEMMA OfflineNextInv == OfflineInv /\ [OfflineNext]_offlineVars => OfflineInv'
<1> SUFFICES ASSUME OfflineInv, [OfflineNext]_offlineVars PROVE OfflineInv'
  OBVIOUS
<1>1. CASE \E k \in Carts : QueueSale(k)
  BY <1>1, QueueSaleInv
<1>2. CASE ComeOnline \/ GoOffline \/ UNCHANGED offlineVars
  <2>1. UNCHANGED <<queue, sync, sold, kept, unsure>> /\ online' \in BOOLEAN
    BY <1>2 DEF ComeOnline, GoOffline, offlineVars, OfflineInv, OfflineTypeOK
  <2>2. OfflineTypeOK'
    BY <2>1 DEF OfflineInv, OfflineTypeOK
  <2>3. \A r \in Syncs : SyncOK(r)'
    BY <2>1 DEF OfflineInv, SyncOK
  <2>4. \A k \in Carts \ unsure : CartOK(k)'
    BY <2>1 DEF OfflineInv, CartOK, Running
  <2> QED
    BY <2>1, <2>2, <2>3, <2>4 DEF OfflineInv
<1>3. ASSUME NEW r \in Syncs, BeginSync(r) \/ EndSync(r) \/ ClosePage(r) PROVE OfflineInv'
  BY <1>3, BeginSyncInv, EndSyncInv, ClosePageInv
<1>4. ASSUME NEW r \in Syncs, NEW k \in sync[r].todo,
             PostSale(r, k) \/ PostFails(r, k) \/ LoseAnswer(r, k)
      PROVE OfflineInv'
  BY <1>4, PostSaleInv, PostFailsInv
<1> QED
  BY <1>1, <1>2, <1>3, <1>4 DEF OfflineNext

\* The invariant holds in every state.
THEOREM OfflineInvariant == OfflineSpec => []OfflineInv
  BY OfflineInitInv, OfflineNextInv, PTL DEF OfflineSpec

\* No sale is lost: queued or made, through refusals, lost answers and closed pages
\* (useOfflineSync.ts), but for the carts of `unsure`.
THEOREM OfflineSalesKept == OfflineSpec => []SaleKept
<1>1. OfflineInv => SaleKept
  BY DEF OfflineInv, OfflineTypeOK, CartOK, SaleKept
<1> QED
  BY <1>1, OfflineInvariant, PTL

\* No sale is made twice, but for the carts of `unsure`.
THEOREM OfflineSoldOnce == OfflineSpec => []SoldOnce
<1>1. OfflineInv => SoldOnce
  BY DEF OfflineInv, CartOK, SoldOnce
<1> QED
  BY <1>1, OfflineInvariant, PTL

-----------------------------------------------------------------------------
(* The roster.                                                             *)

Shift == [day: RosterDays, who: Colleagues]
Cell == (Colleagues \X RosterDays) \X SUBSET Shifts

DeskState ==
  {Clear} \union [pc: {"fill"}, todo: SUBSET Cell]
  \union [pc: {"ask"}, swap: Swaps, row: SwapRow]
  \union [pc: {"apply"}, swap: Swaps, row: SwapRow, mine: Shift, theirs: Entry]
  \union [pc: {"answer"}, swap: Swaps,
          status: {"pending_manager", "approved", "rejected", "cancelled"}]
  \union [pc: {"leave"}, leave: Leaves, status: {"pending", "approved", "rejected", "cancelled"}]
  \union [pc: {"off"}, leave: Leaves]

\* Requests of a known kind, with shifts and swaps of a known kind.
DeskTypes ==
  /\ desk \in [Desks -> DeskState]
  /\ \A c \in Desks :
       desk[c].pc = "apply" /\ desk[c].row.back # NoShift => desk[c].theirs # NoEntry

\* At most one request is at work on x.
OneOn(x) ==
  \A c, d \in Desks : x \in WorksOn(desk[c]) /\ x \in WorksOn(desk[d]) => c = d

\* What a request that changes the roster read of it is still so, and the shifts it
\* has yet to write fall on nobody's leave.
Fresh(me) ==
  /\ me.pc = "fill" => \A cell \in me.todo :
       /\ ~OnLeave(cell[1][1], cell[1][2])
       /\ \A i \in cell[2] : shift[i] = [day |-> cell[1][2], who |-> cell[1][1]]
  /\ me.pc = "apply" =>
       /\ me.mine = shift[me.row.entry] /\ ~OnLeave(me.row.to, me.mine.day)
       /\ me.row.back # NoShift =>
            me.theirs = shift[me.row.back] /\ me.theirs.who = me.row.to

\* A request that changes the swaps knows whose shift it is asked to pass on, and
\* that the swap it decides is open.
Informed(me) ==
  /\ me.pc = "ask" =>
       /\ shift[me.row.entry] = NoEntry \/ shift[me.row.entry].who = me.row.from
       /\ me.row.trade => me.row.back # NoShift
  /\ me.pc = "apply" => swap[me.swap] = me.row /\ me.row.status \in Undecided
  /\ me.pc = "answer" =>
       me.status = "approved" \/ swap[me.swap] = NoSwap \/ swap[me.swap].status \in Undecided

\* An open swap passes on a shift of the one who asked, and in a trade the other
\* shift is there.
AsAsked ==
  \A s \in OpenSwaps \ stale :
    /\ swap[s].from = shift[swap[s].entry].who
    /\ swap[s].trade => swap[s].back # NoShift

\* Approved leave has taken its shifts off the roster, or its request is about to.
Blocked ==
  \A l \in Leaves \ HalfDay : leave[l] = "approved" =>
    \/ \E c \in Desks : desk[c] = [pc |-> "off", leave |-> l]
    \/ \A d \in Off[l] : Rostered(LeaveBy[l], d) \subseteq traded

\* The half days somebody has asked for or taken (Used).
Days == [l \in Leaves |-> HalfDays(l)]
Taken(u) == SumOf(Days, Counting(u))

\* A request that changes leave knows what it was.
Asked(me) ==
  me.pc = "leave" =>
    /\ me.status # "pending" => leave[me.leave] \in {"pending", "approved"}
    /\ me.status = "pending" =>
         /\ leave[me.leave] = "none"
         /\ Taken(LeaveBy[me.leave]) + Days[me.leave] <= Entitled
         /\ \A m \in Counting(LeaveBy[me.leave]) : Off[m] \cap Off[me.leave] = {}

TakenWithinYear == \A u \in Colleagues : Taken(u) <= Entitled

RosterKept ==
  OneOn("roster") /\ Blocked /\ \A c \in Desks : Fresh(desk[c])

SwapsKept == OneOn("swaps") /\ AsAsked /\ \A c \in Desks : Informed(desk[c])

LeaveKept ==
  OneOn("leave") /\ LeaveOnce /\ TakenWithinYear /\ \A c \in Desks : Asked(desk[c])

RosterInv ==
  /\ RosterTypeOK /\ DeskTypes
  /\ "roster" \notin crossed => RosterKept
  /\ {"roster", "swaps"} \cap crossed = {} => SwapsKept
  /\ "leave" \notin crossed => LeaveKept

\* The balance is a sum over the leave that counts, whose length is a number.
LEMMA UsedIsTaken ==
  /\ \A u : Used(u) = Taken(u)
  /\ Days \in [Leaves -> Nat]
<1>1. ASSUME NEW S \in SUBSET Leaves PROVE MapThenSumSet(HalfDays, S) = SumOf(Days, S)
  <2> DEFINE table(h) == h = [s \in SUBSET S |->
               IF s = {} THEN 0 ELSE HalfDays(SumFirst(s)) + h[s \ {SumFirst(s)}]]
  <2>1. MapThenSumSet(HalfDays, S) = (CHOOSE h : table(h))[S]
    BY DEF MapThenSumSet, MapThenFoldSet, SumFirst
  <2>2. ASSUME NEW h PROVE table(h) <=> SumTable(Days, h, S)
    <3>1. ASSUME NEW s \in SUBSET S
          PROVE  SumAdds(Days, h, s) =
                   IF s = {} THEN 0 ELSE HalfDays(SumFirst(s)) + h[s \ {SumFirst(s)}]
      <4>1. s # {} => SumFirst(s) \in Leaves
        BY SumFirstOf
      <4> QED
        BY <4>1 DEF SumAdds, Days
    <3> QED
      BY <3>1 DEF SumTable
  <2>3. (CHOOSE h : table(h)) = (CHOOSE h : SumTable(Days, h, S))
    BY <2>2
  <2> QED
    BY <2>1, <2>3, SumUnfolds
<1>2. \A u : Counting(u) \in SUBSET Leaves
  BY DEF Counting
<1>3. Days \in [Leaves -> Nat]
  BY RosterAssumption, FS_CardinalityType DEF Days, HalfDays
<1> QED
  BY <1>1, <1>2, <1>3 DEF Used, Taken

\* The places a request can be at, and what it holds there.
LEMMA DeskKinds ==
  ASSUME DeskTypes, NEW c \in Desks
  PROVE  /\ desk[c] \in DeskState
         /\ desk[c].pc \in {"idle", "fill", "ask", "apply", "answer", "leave", "off"}
         /\ desk[c].pc = "idle" => desk[c] = Clear
         /\ desk[c].pc = "fill" => desk[c] = [pc |-> "fill", todo |-> desk[c].todo]
                                   /\ desk[c].todo \subseteq Cell
         /\ desk[c].pc = "ask" => desk[c].swap \in Swaps /\ desk[c].row \in SwapRow
         /\ desk[c].pc = "apply" => /\ desk[c].swap \in Swaps /\ desk[c].row \in SwapRow
                                    /\ desk[c].mine \in Shift /\ desk[c].theirs \in Entry
         /\ desk[c].pc = "answer" =>
              /\ desk[c].swap \in Swaps
              /\ desk[c].status \in {"pending_manager", "approved", "rejected", "cancelled"}
         /\ desk[c].pc = "leave" =>
              /\ desk[c] = [pc |-> "leave", leave |-> desk[c].leave, status |-> desk[c].status]
              /\ desk[c].leave \in Leaves
              /\ desk[c].status \in {"pending", "approved", "rejected", "cancelled"}
         /\ desk[c].pc = "off" => /\ desk[c] = [pc |-> "off", leave |-> desk[c].leave]
                                  /\ desk[c].leave \in Leaves
  BY DEF DeskTypes, DeskState, Clear

LEMMA SwapKinds ==
  ASSUME RosterTypeOK, NEW s \in Swaps, swap[s] # NoSwap
  PROVE  swap[s] \in SwapRow
  BY DEF RosterTypeOK

\* A shift is not the empty row.
LEMMA ShiftThere == \A e \in Shift : e # NoEntry /\ e.day # 0 /\ e.who \in Colleagues
  BY RosterAssumption DEF Shift, NoEntry

LEMMA RosterStart == RosterInit => RosterInv
<1> SUFFICES ASSUME RosterInit PROVE RosterInv
  OBVIOUS
<1>1. RosterTypeOK
  BY DEF RosterInit, RosterTypeOK, Entry, OneEach
<1>2. DeskTypes
  BY DEF RosterInit, DeskTypes, DeskState, Clear
<1>3. \A c \in Desks : \A x : x \notin WorksOn(desk[c])
  BY DEF RosterInit, WorksOn, Clear
<1>4. Blocked /\ LeaveOnce /\ TakenWithinYear
  <2>1. \A u : Counting(u) = {}
    BY DEF RosterInit, Counting
  <2>2. \A u : Taken(u) = 0
    BY <2>1, SumEmpty DEF Taken
  <2>3. TakenWithinYear
    BY <2>2, RosterAssumption DEF TakenWithinYear
  <2>4. Blocked /\ LeaveOnce
    BY <2>1 DEF RosterInit, Blocked, LeaveOnce
  <2> QED
    BY <2>3, <2>4
<1>5. AsAsked
  BY DEF RosterInit, AsAsked, OpenSwaps, NoSwap, Undecided
<1>6. \A c \in Desks : Fresh(desk[c]) /\ Informed(desk[c]) /\ Asked(desk[c])
  BY DEF RosterInit, Fresh, Informed, Asked, Clear
<1>7. OneOn("roster") /\ OneOn("swaps") /\ OneOn("leave")
  BY <1>3 DEF OneOn
<1> QED
  BY <1>1, <1>2, <1>4, <1>5, <1>6, <1>7 DEF RosterInv, RosterKept, SwapsKept, LeaveKept

-----------------------------------------------------------------------------
\* A request that begins is at work on nothing another is at work on, or that is
\* noted.
LEMMA FileOnly ==
  ASSUME NEW c \in Desks, NEW locals, NEW kind, File(c, locals, kind), desk \in [Desks -> DeskState],
         NEW x, OneOn(x), x \notin crossed'
  PROVE  OneOn(x)'
<1>1. desk' = [desk EXCEPT ![c] = locals]
  BY DEF File
<1>2. \A d \in Desks : x \notin WorksOn(desk[d]) \cap WorksOn(locals)
  BY DEF File, Crossed
<1>3. ASSUME NEW a \in Desks, NEW b \in Desks, x \in WorksOn(desk'[a]), x \in WorksOn(desk'[b])
      PROVE  a = b
  <2>1. CASE a = c
    BY <1>1, <1>2, <1>3, <2>1
  <2>2. CASE b = c
    BY <1>1, <1>2, <1>3, <2>2
  <2>3. CASE a # c /\ b # c
    BY <1>1, <1>3, <2>3 DEF OneOn
  <2> QED
    BY <2>1, <2>2, <2>3
<1>4. \A d \in Desks : WorksOn(desk[d])' = WorksOn(desk'[d])
  BY DEF WorksOn
<1> QED
  BY <1>3, <1>4 DEF OneOn

\* What a request read is still so when the tables it read are as they were.
LEMMA SameFresh ==
  ASSUME UNCHANGED <<shift, leave>>, NEW d \in Desks, Fresh(desk'[d])
  PROVE  Fresh(desk[d])'
<1>1. \A u, day : OnLeave(u, day)' <=> OnLeave(u, day)
  BY DEF OnLeave
<1> QED
  BY <1>1 DEF Fresh

LEMMA SameLeave ==
  ASSUME UNCHANGED leave
  PROVE  /\ TakenWithinYear => TakenWithinYear'
         /\ \A d \in Desks : Asked(desk'[d]) => Asked(desk[d])'
<1>1. \A u : Counting(u)' = Counting(u)
  BY DEF Counting
<1>2. \A u : Taken(u)' = Taken(u)
  BY <1>1 DEF Taken
<1>3. TakenWithinYear => TakenWithinYear'
  BY <1>2 DEF TakenWithinYear
<1>4. ASSUME NEW d \in Desks, Asked(desk'[d]) PROVE Asked(desk[d])'
  BY <1>1, <1>2, <1>4 DEF Asked
<1> QED
  BY <1>3, <1>4

LEMMA FileKeeps ==
  ASSUME RosterInv, NEW c \in Desks, NEW locals \in DeskState, NEW kind, File(c, locals, kind),
         locals.pc = "apply" /\ locals.row.back # NoShift => locals.theirs # NoEntry,
         "roster" \notin crossed => Fresh(locals),
         {"roster", "swaps"} \cap crossed = {} => Informed(locals),
         "leave" \notin crossed => Asked(locals)
  PROVE  RosterInv'
<1>1. /\ desk \in [Desks -> DeskState] /\ desk[c] = Clear
      /\ desk' = [desk EXCEPT ![c] = locals] /\ crossed \subseteq crossed'
      /\ UNCHANGED <<shift, swap, leave, traded, stale>>
  BY DEF File, RosterInv, DeskTypes
<1>2. RosterTypeOK' /\ DeskTypes'
  <2>1. RosterTypeOK'
    BY <1>1 DEF RosterInv, RosterTypeOK, OneEach
  <2>2. DeskTypes'
    BY <1>1 DEF RosterInv, DeskTypes
  <2> QED
    BY <2>1, <2>2
<1>3. ASSUME "roster" \notin crossed' PROVE RosterKept'
  <2>1. RosterKept
    BY <1>1, <1>3 DEF RosterInv
  <2>2. OneOn("roster")'
    BY <1>1, <1>3, <2>1, FileOnly DEF RosterKept
  <2>3. Blocked'
    <3> SUFFICES ASSUME NEW l \in Leaves \ HalfDay, leave[l] = "approved"
                 PROVE  \/ \E d \in Desks : desk'[d] = [pc |-> "off", leave |-> l]
                        \/ \A d \in Off[l] : Rostered(LeaveBy[l], d)' \subseteq traded'
      BY <1>1 DEF Blocked
    <3>1. CASE \E d \in Desks : desk[d] = [pc |-> "off", leave |-> l]
      BY <1>1, <3>1 DEF Clear
    <3>2. CASE \A d \in Off[l] : Rostered(LeaveBy[l], d) \subseteq traded
      BY <1>1, <3>2 DEF Rostered
    <3> QED
      BY <2>1, <3>1, <3>2 DEF RosterKept, Blocked
  <2>4. \A d \in Desks : Fresh(desk'[d])
    BY <1>1, <1>3, <2>1 DEF RosterKept
  <2>5. (\A d \in Desks : Fresh(desk[d]))'
    BY <1>1, <2>4, SameFresh
  <2> QED
    BY <2>2, <2>3, <2>5 DEF RosterKept
<1>4. ASSUME {"roster", "swaps"} \cap crossed' = {} PROVE SwapsKept'
  <2>1. SwapsKept /\ "swaps" \notin crossed'
    BY <1>1, <1>4 DEF RosterInv
  <2>2. OneOn("swaps")'
    BY <1>1, <1>4, <2>1, FileOnly DEF SwapsKept
  <2>3. AsAsked'
    BY <1>1, <2>1 DEF SwapsKept, AsAsked, OpenSwaps
  <2>4. \A d \in Desks : Informed(desk'[d])
    BY <1>1, <1>4, <2>1 DEF SwapsKept
  <2>5. (\A d \in Desks : Informed(desk[d]))'
    BY <1>1, <2>4 DEF Informed
  <2> QED
    BY <2>2, <2>3, <2>5 DEF SwapsKept
<1>5. ASSUME "leave" \notin crossed' PROVE LeaveKept'
  <2>1. LeaveKept
    BY <1>1, <1>5 DEF RosterInv
  <2>2. OneOn("leave")'
    BY <1>1, <1>5, <2>1, FileOnly DEF LeaveKept
  <2>3. LeaveOnce'
    BY <1>1, <1>5, <2>1 DEF LeaveKept, LeaveOnce, Counting
  <2>4. \A d \in Desks : Asked(desk'[d])
    BY <1>1, <1>5, <2>1 DEF LeaveKept
  <2>5. TakenWithinYear' /\ \A d \in Desks : Asked(desk[d])'
    BY <1>1, <2>1, <2>4, SameLeave DEF LeaveKept
  <2> QED
    BY <2>2, <2>3, <2>5 DEF LeaveKept
<1> QED
  BY <1>2, <1>3, <1>4, <1>5 DEF RosterInv

-----------------------------------------------------------------------------
(* Requests that begin.                                                    *)

LEMMA FillBegins ==
  ASSUME RosterInv, NEW c \in Desks, NEW u \in Colleagues, NEW ds \in SUBSET RosterDays,
         BeginFill(c, {u} \X ds)
  PROVE  RosterInv'
<1> DEFINE todo == {<<n, Rostered(n[1], n[2])>> : n \in Workable({u} \X ds)}
           locals == [pc |-> "fill", todo |-> todo]
<1>1. \A n \in Workable({u} \X ds) : n \in Colleagues \X RosterDays /\ ~OnLeave(n[1], n[2])
  BY DEF Workable
<1>2. ASSUME NEW cell \in todo
      PROVE  /\ cell \in Cell /\ ~OnLeave(cell[1][1], cell[1][2])
             /\ cell[2] = Rostered(cell[1][1], cell[1][2])
  <2>1. PICK n \in Workable({u} \X ds) : cell = <<n, Rostered(n[1], n[2])>>
    OBVIOUS
  <2>2. cell[1] = n /\ cell[2] = Rostered(n[1], n[2]) /\ Rostered(n[1], n[2]) \subseteq Shifts
    BY <2>1 DEF Rostered
  <2> QED
    BY <1>1, <2>1, <2>2 DEF Cell
<1>3. locals \in DeskState
  BY <1>2 DEF DeskState
<1>4. Fresh(locals)
  <2>1. locals.pc = "fill" /\ locals.todo = todo
    OBVIOUS
  <2> HIDE DEF todo, locals
  <2> QED
    BY <1>2, <2>1 DEF Fresh, Rostered
<1>5. Informed(locals) /\ Asked(locals)
  BY DEF Informed, Asked
<1>6. File(c, locals, "fills")
  BY DEF BeginFill
<1> QED
  BY <1>3, <1>4, <1>5, <1>6, FileKeeps

LEMMA RequestBegins ==
  ASSUME RosterInv, NEW c \in Desks, NEW s \in Swaps, NEW i \in Shifts, NEW u \in Colleagues,
         NEW b \in Ids, NEW status \in Undecided, RequestSwap(c, s, i, u, b, status)
  PROVE  RosterInv'
<1> DEFINE row == [status |-> status, entry |-> i, from |-> shift[i].who, to |-> u,
                   back |-> b, trade |-> b # NoShift]
           locals == [pc |-> "ask", swap |-> s, row |-> row]
<1>1. shift[i] # NoEntry /\ File(c, locals, "others")
  BY DEF RequestSwap
<1>2. shift[i].who \in Colleagues
  BY <1>1 DEF RosterInv, RosterTypeOK, Entry
<1>3. row \in SwapRow
  BY <1>2 DEF SwapRow
<1>4. locals \in DeskState
  BY <1>3 DEF DeskState
<1>5. Fresh(locals) /\ Informed(locals) /\ Asked(locals)
  BY DEF Fresh, Informed, Asked
<1> QED
  BY <1>1, <1>4, <1>5, FileKeeps

LEMMA AnswerBegins ==
  ASSUME RosterInv, NEW c \in Desks, NEW s \in Swaps,
         NEW status \in {"pending_manager", "rejected", "cancelled"}, AnswerSwap(c, s, status)
  PROVE  RosterInv'
<1> DEFINE locals == [pc |-> "answer", swap |-> s, status |-> status]
<1>1. swap[s].status \in Undecided /\ File(c, locals, "others")
  BY DEF AnswerSwap, Undecided
<1>2. locals \in DeskState
  BY DEF DeskState
<1>3. Fresh(locals) /\ Informed(locals) /\ Asked(locals)
  BY <1>1 DEF Fresh, Informed, Asked
<1> QED
  BY <1>1, <1>2, <1>3, FileKeeps

LEMMA ApproveBegins ==
  ASSUME RosterInv, NEW c \in Desks, NEW s \in Swaps, ApproveSwap(c, s)
  PROVE  RosterInv'
<1> DEFINE row == swap[s]
           mine == shift[row.entry]
           theirs == IF row.back = NoShift THEN NoEntry ELSE shift[row.back]
           locals == [pc |-> "apply", swap |-> s, row |-> row, mine |-> mine, theirs |-> theirs]
<1>1. /\ row.status \in Undecided /\ mine # NoEntry /\ MaySwap(row.entry, row.to, row.back)
      /\ File(c, locals, "others")
  BY DEF ApproveSwap
<1>2. row \in SwapRow
  BY <1>1 DEF RosterInv, RosterTypeOK, NoSwap, Undecided
<1>3. mine \in Shift
  BY <1>1, <1>2 DEF RosterInv, RosterTypeOK, Entry, Shift, SwapRow
<1>4. theirs \in Entry /\ (row.back # NoShift => theirs # NoEntry /\ theirs.who = row.to)
  BY <1>1, <1>2 DEF RosterInv, RosterTypeOK, Entry, SwapRow, Ids, MaySwap
<1>5. ~OnLeave(row.to, mine.day)
  BY <1>1 DEF MaySwap
<1>6. locals \in DeskState
  BY <1>2, <1>3, <1>4 DEF DeskState
<1>7. Fresh(locals) /\ Informed(locals) /\ Asked(locals)
  BY <1>1, <1>4, <1>5 DEF Fresh, Informed, Asked
<1> QED
  BY <1>1, <1>4, <1>6, <1>7, FileKeeps

LEMMA LeaveBegins ==
  ASSUME RosterInv, NEW c \in Desks, NEW l \in Leaves,
         \/ RequestLeave(c, l)
         \/ \E status \in {"approved", "rejected", "cancelled"} : DecideLeave(c, l, status)
  PROVE  RosterInv'
<1>1. CASE RequestLeave(c, l)
  <2> DEFINE locals == [pc |-> "leave", leave |-> l, status |-> "pending"]
  <2>1. /\ File(c, locals, "others") /\ leave[l] = "none"
        /\ \A m \in Counting(LeaveBy[l]) : Off[m] \cap Off[l] = {}
        /\ Taken(LeaveBy[l]) + Days[l] <= Entitled
    BY <1>1, UsedIsTaken DEF RequestLeave, Days
  <2>2. locals \in DeskState
    BY DEF DeskState
  <2>3. Fresh(locals) /\ Informed(locals) /\ Asked(locals)
    BY <2>1 DEF Fresh, Informed, Asked
  <2> QED
    BY <2>1, <2>2, <2>3, FileKeeps
<1>2. ASSUME NEW status \in {"approved", "rejected", "cancelled"}, DecideLeave(c, l, status)
      PROVE  RosterInv'
  <2> DEFINE locals == [pc |-> "leave", leave |-> l, status |-> status]
  <2>1. File(c, locals, "others") /\ leave[l] \in {"pending", "approved"}
    BY <1>2 DEF DecideLeave
  <2>2. locals \in DeskState
    BY DEF DeskState
  <2>3. Fresh(locals) /\ Informed(locals) /\ Asked(locals)
    BY <2>1 DEF Fresh, Informed, Asked
  <2> QED
    BY <2>1, <2>2, <2>3, FileKeeps
<1> QED
  BY <1>1, <1>2

-----------------------------------------------------------------------------
(* Requests that go on: what a step of request c leaves as it was.         *)

LEMMA OneStays ==
  ASSUME DeskTypes, NEW c \in Desks, NEW to, desk' = [desk EXCEPT ![c] = to],
         WorksOn(to) \subseteq WorksOn(desk[c]), NEW x, OneOn(x)
  PROVE  OneOn(x)'
<1>1. \A d \in Desks : WorksOn(desk[d])' = WorksOn(desk'[d])
  BY DEF WorksOn
<1>2. \A d \in Desks : WorksOn(desk'[d]) \subseteq WorksOn(desk[d])
  BY DEF DeskTypes
<1> QED
  BY <1>1, <1>2 DEF OneOn

LEMMA RosterQuiet ==
  ASSUME DeskTypes, RosterKept, NEW c \in Desks, NEW to, desk' = [desk EXCEPT ![c] = to],
         WorksOn(to) \subseteq WorksOn(desk[c]), Fresh(to), desk[c].pc # "off",
         UNCHANGED <<shift, leave, traded>>
  PROVE  RosterKept'
<1>1. OneOn("roster")'
  BY OneStays DEF RosterKept
<1>2. \A d \in Desks : Fresh(desk[d])'
  BY SameFresh DEF DeskTypes, RosterKept
<1>3. Blocked'
  <2> SUFFICES ASSUME NEW l \in Leaves \ HalfDay, leave[l] = "approved"
               PROVE  \/ \E d \in Desks : desk'[d] = [pc |-> "off", leave |-> l]
                      \/ \A d \in Off[l] : Rostered(LeaveBy[l], d)' \subseteq traded'
    BY DEF Blocked
  <2>1. CASE \E d \in Desks : desk[d] = [pc |-> "off", leave |-> l]
    BY <2>1 DEF DeskTypes
  <2>2. CASE \A d \in Off[l] : Rostered(LeaveBy[l], d) \subseteq traded
    BY <2>2 DEF Rostered
  <2> QED
    BY <2>1, <2>2 DEF RosterKept, Blocked
<1> QED
  BY <1>1, <1>2, <1>3 DEF RosterKept

LEMMA LeaveQuiet ==
  ASSUME DeskTypes, LeaveKept, NEW c \in Desks, NEW to, desk' = [desk EXCEPT ![c] = to],
         WorksOn(to) \subseteq WorksOn(desk[c]), Asked(to), UNCHANGED leave,
         "leave" \notin crossed, "leave" \notin crossed'
  PROVE  LeaveKept'
<1>1. OneOn("leave")'
  BY OneStays DEF LeaveKept
<1>2. LeaveOnce'
  BY DEF LeaveKept, LeaveOnce, Counting
<1>3. \A d \in Desks : Asked(desk'[d])
  BY DEF DeskTypes, LeaveKept
<1>4. TakenWithinYear' /\ \A d \in Desks : Asked(desk[d])'
  BY <1>3, SameLeave DEF LeaveKept
<1> QED
  BY <1>1, <1>2, <1>4 DEF LeaveKept

LEMMA SwapsQuiet ==
  ASSUME DeskTypes, SwapsKept, NEW c \in Desks, NEW to, desk' = [desk EXCEPT ![c] = to],
         WorksOn(to) \subseteq WorksOn(desk[c]), Informed(to), UNCHANGED <<shift, swap, stale>>
  PROVE  SwapsKept'
<1>1. OneOn("swaps")'
  BY OneStays DEF SwapsKept
<1>2. AsAsked'
  BY DEF SwapsKept, AsAsked, OpenSwaps
<1>3. \A d \in Desks : Informed(desk'[d])
  BY DEF DeskTypes, SwapsKept
<1>4. (\A d \in Desks : Informed(desk[d]))'
  BY <1>3 DEF Informed
<1> QED
  BY <1>1, <1>2, <1>4 DEF SwapsKept

LEMMA ClearFacts == WorksOn(Clear) = {} /\ Fresh(Clear) /\ Informed(Clear) /\ Asked(Clear)
  BY DEF WorksOn, Clear, Fresh, Informed, Asked

\* A request that ends and writes nothing.
LEMMA EndKeeps ==
  ASSUME RosterInv, NEW c \in Desks, Clears(c), crossed \subseteq crossed',
         UNCHANGED <<shift, swap, leave, traded, stale>>,
         desk[c].pc = "off" => "roster" \in crossed'
  PROVE  RosterInv'
<1>0. DeskTypes /\ desk' = [desk EXCEPT ![c] = Clear] /\ WorksOn(Clear) \subseteq WorksOn(desk[c])
  BY ClearFacts DEF RosterInv, Clears
<1>1. RosterTypeOK'
  BY DEF RosterInv, RosterTypeOK, OneEach
<1>2. DeskTypes'
  BY <1>0 DEF DeskTypes, DeskState, Clear
<1>3. "roster" \notin crossed' => RosterKept'
  BY <1>0, ClearFacts, RosterQuiet DEF RosterInv
<1>4. {"roster", "swaps"} \cap crossed' = {} => SwapsKept'
  BY <1>0, ClearFacts, SwapsQuiet DEF RosterInv
<1>5. "leave" \notin crossed' => LeaveKept'
  BY <1>0, ClearFacts, LeaveQuiet DEF RosterInv
<1> QED
  BY <1>1, <1>2, <1>3, <1>4, <1>5 DEF RosterInv

LEMMA InsertKeeps == ASSUME RosterInv, NEW c \in Desks, InsertSwap(c) PROVE RosterInv'
<1> DEFINE row == desk[c].row
           there == \A i \in {row.entry, row.back} \ {NoShift} : shift[i] # NoEntry
           s == desk[c].swap
<1>0. /\ DeskTypes /\ desk' = [desk EXCEPT ![c] = Clear]
      /\ WorksOn(Clear) \subseteq WorksOn(desk[c]) /\ desk[c].pc = "ask"
      /\ swap' = IF there THEN [swap EXCEPT ![s] = row] ELSE swap
      /\ stale' = (IF there THEN stale \ {s} ELSE stale) /\ UNCHANGED <<shift, leave, crossed, traded>>
  BY ClearFacts DEF RosterInv, Clears, InsertSwap
<1>1. s \in Swaps /\ row \in SwapRow
  BY <1>0, DeskKinds
<1>2. RosterTypeOK'
  <2>1. swap' \in [Swaps -> {NoSwap} \union SwapRow]
    BY <1>0, <1>1 DEF RosterInv, RosterTypeOK
  <2> QED
    BY <1>0, <2>1 DEF RosterInv, RosterTypeOK, OneEach
<1>3. DeskTypes'
  BY <1>0 DEF DeskTypes, DeskState, Clear
<1>4. "roster" \notin crossed' => RosterKept'
  BY <1>0, ClearFacts, RosterQuiet DEF RosterInv
<1>5. "leave" \notin crossed' => LeaveKept'
  BY <1>0, ClearFacts, LeaveQuiet DEF RosterInv
<1>6. ASSUME {"roster", "swaps"} \cap crossed' = {} PROVE SwapsKept'
  <2>1. SwapsKept
    BY <1>0, <1>6 DEF RosterInv
  <2>2. OneOn("swaps")'
    BY <1>0, <2>1, OneStays DEF SwapsKept
  <2>3. \A d \in Desks \ {c} : desk'[d] = desk[d] /\ desk[d].pc \notin {"ask", "answer", "apply"}
    BY <1>0, <2>1 DEF SwapsKept, OneOn, WorksOn, DeskTypes
  <2>4. \A d \in Desks : Informed(desk[d])'
    BY <1>0, <2>3 DEF Informed, Clear, DeskTypes
  <2>6. ASSUME there, NEW o \in OpenSwaps', o \notin stale'
        PROVE  swap'[o].from = shift[swap'[o].entry].who /\ (swap'[o].trade => swap'[o].back # NoShift)
    <3>1. CASE o = s
      <4>1. swap'[s] = row
        BY <1>0, <1>1, <2>6 DEF RosterInv, RosterTypeOK
      <4>2. row.entry \in Shifts /\ row.entry # NoShift
        BY <1>1, RosterAssumption DEF SwapRow
      <4>3. shift[row.entry] # NoEntry
        BY <2>6, <4>2
      <4>4. Informed(desk[c])
        BY <2>1 DEF SwapsKept
      <4> QED
        BY <1>0, <3>1, <4>1, <4>3, <4>4 DEF Informed
    <3>2. CASE o # s
      BY <1>0, <2>1, <2>6, <3>2 DEF SwapsKept, AsAsked, OpenSwaps, RosterInv, RosterTypeOK
    <3> QED
      BY <3>1, <3>2
  <2>7. ASSUME ~there, NEW o \in OpenSwaps', o \notin stale'
        PROVE  swap'[o].from = shift[swap'[o].entry].who /\ (swap'[o].trade => swap'[o].back # NoShift)
    BY <1>0, <2>1, <2>7 DEF SwapsKept, AsAsked, OpenSwaps
  <2>8. AsAsked'
    BY <1>0, <2>6, <2>7 DEF AsAsked
  <2> QED
    BY <2>2, <2>4, <2>8 DEF SwapsKept
<1> QED
  BY <1>2, <1>3, <1>4, <1>5, <1>6 DEF RosterInv

LEMMA AnswerKeeps == ASSUME RosterInv, NEW c \in Desks, SaveAnswer(c) PROVE RosterInv'
<1> DEFINE s == desk[c].swap
           status == desk[c].status
<1>0. /\ DeskTypes /\ desk' = [desk EXCEPT ![c] = Clear]
      /\ WorksOn(Clear) \subseteq WorksOn(desk[c]) /\ desk[c].pc = "answer"
      /\ swap' = IF swap[s] = NoSwap THEN swap ELSE [swap EXCEPT ![s].status = status]
      /\ UNCHANGED <<shift, leave, crossed, traded, stale>>
  BY ClearFacts DEF RosterInv, Clears, SaveAnswer
<1>1. s \in Swaps /\ status \in {"pending_manager", "approved", "rejected", "cancelled"}
  BY <1>0, DeskKinds
<1>2. RosterTypeOK'
  <2>1. swap' \in [Swaps -> {NoSwap} \union SwapRow]
    <3>1. CASE swap[s] = NoSwap
      BY <1>0, <3>1 DEF RosterInv, RosterTypeOK
    <3>2. CASE swap[s] # NoSwap
      <4>1. swap[s] \in SwapRow
        BY <1>1, <3>2, SwapKinds DEF RosterInv
      <4>2. [swap[s] EXCEPT !.status = status] \in SwapRow
        BY <1>1, <4>1 DEF SwapRow, Undecided
      <4>3. swap' = [swap EXCEPT ![s] = [swap[s] EXCEPT !.status = status]]
        BY <1>0, <3>2
      <4> QED
        BY <1>1, <4>2, <4>3 DEF RosterInv, RosterTypeOK
    <3> QED
      BY <3>1, <3>2
  <2> QED
    BY <1>0, <2>1 DEF RosterInv, RosterTypeOK, OneEach
<1>3. DeskTypes'
  BY <1>0 DEF DeskTypes, DeskState, Clear
<1>4. "roster" \notin crossed' => RosterKept'
  BY <1>0, ClearFacts, RosterQuiet DEF RosterInv
<1>5. "leave" \notin crossed' => LeaveKept'
  BY <1>0, ClearFacts, LeaveQuiet DEF RosterInv
<1>6. ASSUME {"roster", "swaps"} \cap crossed' = {} PROVE SwapsKept'
  <2>1. SwapsKept
    BY <1>0, <1>6 DEF RosterInv
  <2>2. OneOn("swaps")'
    BY <1>0, <2>1, OneStays DEF SwapsKept
  <2>3. \A d \in Desks \ {c} : desk'[d] = desk[d] /\ desk[d].pc \notin {"ask", "answer", "apply"}
    BY <1>0, <2>1 DEF SwapsKept, OneOn, WorksOn, DeskTypes
  <2>4. \A d \in Desks : Informed(desk[d])'
    BY <1>0, <2>3 DEF Informed, Clear, DeskTypes
  <2>5. ASSUME NEW o \in OpenSwaps', o \notin stale
        PROVE  swap'[o].from = shift[swap'[o].entry].who /\ (swap'[o].trade => swap'[o].back # NoShift)
    <3>1. CASE o # s \/ swap[s] = NoSwap
      BY <1>0, <2>1, <2>5, <3>1 DEF SwapsKept, AsAsked, OpenSwaps, RosterInv, RosterTypeOK
    <3>2. CASE o = s /\ swap[s] # NoSwap
      <4>1. swap[s] \in SwapRow
        BY <1>1, <3>2, SwapKinds DEF RosterInv
      <4>2. swap'[s] = [swap[s] EXCEPT !.status = status]
        BY <1>0, <1>1, <3>2 DEF RosterInv, RosterTypeOK
      <4>3. status \in Undecided
        BY <1>1, <2>5, <3>2, <4>1, <4>2 DEF OpenSwaps, SwapRow
      <4>4. Informed(desk[c])
        BY <2>1 DEF SwapsKept
      <4>5. s \in OpenSwaps
        BY <1>0, <1>1, <3>2, <4>3, <4>4 DEF Informed, OpenSwaps, Undecided
      <4> QED
        BY <2>1, <2>5, <3>2, <4>1, <4>2, <4>5 DEF SwapsKept, AsAsked, SwapRow
    <3> QED
      BY <3>1, <3>2
  <2>6. AsAsked'
    BY <1>0, <2>5 DEF AsAsked
  <2> QED
    BY <2>2, <2>4, <2>6 DEF SwapsKept
<1> QED
  BY <1>2, <1>3, <1>4, <1>5, <1>6 DEF RosterInv

\* Somebody on leave was so before, or is so now that this request is saved.
LEMMA LeaveKeeps == ASSUME RosterInv, NEW c \in Desks, SaveLeave(c) PROVE RosterInv'
<1> DEFINE l == desk[c].leave
           status == desk[c].status
           off == [pc |-> "off", leave |-> l]
           to == IF status = "approved" /\ l \notin HalfDay THEN off ELSE Clear
<1>0. /\ DeskTypes /\ desk' = [desk EXCEPT ![c] = to] /\ desk[c].pc = "leave"
      /\ leave' = [leave EXCEPT ![l] = status]
      /\ UNCHANGED <<shift, swap, crossed, traded, stale>>
  BY DEF RosterInv, Clears, SaveLeave
<1>1. l \in Leaves /\ status \in {"pending", "approved", "rejected", "cancelled"}
  BY <1>0, DeskKinds
<1>2. WorksOn(to) \subseteq WorksOn(desk[c]) /\ to \in DeskState /\ to.pc \in {"idle", "off"}
  BY <1>0, <1>1 DEF WorksOn, Clear, DeskState
<1>3. RosterTypeOK'
  BY <1>0, <1>1 DEF RosterInv, RosterTypeOK, OneEach
<1>4. DeskTypes'
  BY <1>0, <1>2 DEF DeskTypes
<1>5. ASSUME "roster" \notin crossed' PROVE RosterKept'
  <2>1. RosterKept
    BY <1>0, <1>5 DEF RosterInv
  <2>2. OneOn("roster")'
    BY <1>0, <1>2, <2>1, OneStays DEF RosterKept
  <2>3. ASSUME NEW d \in Desks PROVE Fresh(desk[d])'
    <3>1. CASE d = c
      BY <1>0, <1>2, <3>1 DEF Fresh, DeskTypes
    <3>2. CASE d # c /\ status = "approved"
      <4>1. desk'[d] = desk[d] /\ desk[d].pc \notin {"fill", "apply"}
        BY <1>0, <2>1, <3>2 DEF RosterKept, OneOn, WorksOn, DeskTypes
      <4> QED
        BY <4>1 DEF Fresh
    <3>3. CASE d # c /\ status # "approved"
      <4>1. desk'[d] = desk[d] /\ Fresh(desk[d])
        BY <1>0, <2>1, <3>3 DEF RosterKept, DeskTypes
      <4>2. \A u, day : OnLeave(u, day)' => OnLeave(u, day)
        BY <1>0, <1>1, <3>3 DEF OnLeave, RosterInv, RosterTypeOK
      <4> QED
        BY <1>0, <4>1, <4>2 DEF Fresh
    <3> QED
      BY <3>1, <3>2, <3>3
  <2>4. Blocked'
    <3> SUFFICES ASSUME NEW m \in Leaves \ HalfDay, leave'[m] = "approved"
                 PROVE  \/ \E d \in Desks : desk'[d] = [pc |-> "off", leave |-> m]
                        \/ \A d \in Off[m] : Rostered(LeaveBy[m], d)' \subseteq traded'
      BY DEF Blocked
    <3>1. CASE m = l
      <4>1. status = "approved"
        BY <1>0, <1>1, <3>1 DEF RosterInv, RosterTypeOK
      <4> QED
        BY <1>0, <3>1, <4>1 DEF DeskTypes
    <3>2. CASE m # l
      <4>1. leave[m] = "approved"
        BY <1>0, <3>2 DEF RosterInv, RosterTypeOK
      <4>2. ASSUME NEW d \in Desks, desk[d] = [pc |-> "off", leave |-> m]
            PROVE  desk'[d] = [pc |-> "off", leave |-> m]
        BY <1>0, <4>2 DEF DeskTypes
      <4>3. \A u, day : Rostered(u, day)' = Rostered(u, day)
        BY <1>0 DEF Rostered
      <4> QED
        BY <1>0, <2>1, <4>1, <4>2, <4>3 DEF RosterKept, Blocked
    <3> QED
      BY <3>1, <3>2
  <2> QED
    BY <2>2, <2>3, <2>4 DEF RosterKept
<1>6. "roster" \notin crossed' /\ "swaps" \notin crossed' => SwapsKept'
  BY <1>0, <1>2, SwapsQuiet DEF RosterInv, Informed
<1>7. ASSUME "leave" \notin crossed' PROVE LeaveKept'
  <2>1. LeaveKept
    BY <1>0, <1>7 DEF RosterInv
  <2>2. OneOn("leave")'
    BY <1>0, <1>2, <2>1, OneStays DEF LeaveKept
  <2>3. ASSUME NEW d \in Desks PROVE Asked(desk[d])'
    <3>1. CASE d = c
      BY <1>0, <1>2, <3>1 DEF Asked, DeskTypes
    <3>2. CASE d # c
      BY <1>0, <2>1, <3>2 DEF LeaveKept, OneOn, WorksOn, DeskTypes, Asked
    <3> QED
      BY <3>1, <3>2
  <2>4. Asked(desk[c]) /\ LeaveOnce
    BY <2>1 DEF LeaveKept
  <2>5. \A u : Counting(u)' \subseteq Counting(u) \union {l}
    BY <1>0 DEF Counting, RosterInv, RosterTypeOK
  <2>6. ASSUME NEW u \in Colleagues, NEW m \in Counting(u)', m # l, l \in Counting(u)'
        PROVE  Off[m] \cap Off[l] = {}
    <3>1. m \in Counting(u) /\ LeaveBy[l] = u
      BY <2>5, <2>6 DEF Counting
    <3>2. CASE status = "pending"
      BY <1>0, <2>4, <3>1, <3>2 DEF Asked
    <3>3. CASE status # "pending"
      <4>1. l \in Counting(u)
        BY <1>0, <1>1, <2>4, <3>1, <3>3 DEF Asked, Counting
      <4> QED
        BY <1>0, <1>7, <2>4, <2>6, <3>1, <4>1 DEF LeaveOnce
    <3> QED
      BY <3>2, <3>3
  <2>7. ASSUME NEW u \in Colleagues, NEW m \in Counting(u)', NEW n \in Counting(u)', m # n
        PROVE  Off[m] \cap Off[n] = {}
    <3>1. CASE m = l
      BY <2>6, <2>7, <3>1
    <3>2. CASE n = l
      BY <2>6, <2>7, <3>2
    <3>3. CASE m # l /\ n # l
      BY <1>0, <1>7, <2>4, <2>5, <2>7, <3>3 DEF LeaveOnce
    <3> QED
      BY <3>1, <3>2, <3>3
  <2>8. LeaveOnce'
    BY <2>7 DEF LeaveOnce
  <2>9. ASSUME NEW u \in Colleagues PROVE Taken(u)' <= Entitled
    <3> DEFINE S == Counting(u)
    <3>1. /\ IsFiniteSet(S) /\ (\A x \in S : Days[x] \in Int) /\ Days[l] \in Nat
          /\ Taken(u) \in Int /\ Taken(u) <= Entitled /\ Entitled \in Nat
      <4>1. S \subseteq Leaves /\ IsFiniteSet(S)
        BY RosterAssumption, FS_Subset DEF Counting
      <4>2. \A x \in S : Days[x] \in Int
        BY <4>1, UsedIsTaken
      <4> QED
        BY <1>1, <2>1, <4>1, <4>2, SumInt, UsedIsTaken, RosterAssumption
        DEF LeaveKept, TakenWithinYear, Taken
    <3>2. Taken(u)' = SumOf(Days, Counting(u)')
      BY DEF Taken
    <3>3. CASE Counting(u)' = S
      BY <3>1, <3>2, <3>3 DEF Taken
    <3>4. CASE l \in Counting(u)' /\ l \notin S
      <4>1. Counting(u)' = S \union {l} /\ LeaveBy[l] = u
        BY <1>0, <3>4 DEF Counting, RosterInv, RosterTypeOK
      <4>2. status = "pending"
        BY <1>0, <1>1, <2>4, <3>4, <4>1 DEF Asked, Counting
      <4>3. Taken(u) + Days[l] <= Entitled
        BY <1>0, <2>4, <4>1, <4>2 DEF Asked
      <4>4. SumOf(Days, S \union {l}) = SumOf(Days, S) + Days[l]
        BY <3>1, <3>4, SumAdd
      <4> QED
        BY <3>2, <4>1, <4>3, <4>4 DEF Taken
    <3>5. CASE l \in S /\ l \notin Counting(u)'
      <4>1. Counting(u)' = S \ {l}
        BY <1>0, <3>5 DEF Counting, RosterInv, RosterTypeOK
      <4>2. SumOf(Days, S) = SumOf(Days, S \ {l}) + Days[l] /\ SumOf(Days, S \ {l}) \in Int
        <5>1. IsFiniteSet(S \ {l})
          BY <3>1, FS_Subset
        <5> QED
          BY <3>1, <3>5, <5>1, SumRemove, SumInt
      <4> QED
        BY <3>1, <3>2, <4>1, <4>2 DEF Taken
    <3>6. l \in S /\ l \in Counting(u)' => Counting(u)' = S
      BY <1>0 DEF Counting, RosterInv, RosterTypeOK
    <3>7. l \notin S /\ l \notin Counting(u)' => Counting(u)' = S
      BY <1>0 DEF Counting, RosterInv, RosterTypeOK
    <3> QED
      BY <3>3, <3>4, <3>5, <3>6, <3>7
  <2> QED
    BY <2>2, <2>3, <2>8, <2>9 DEF LeaveKept, TakenWithinYear
<1> QED
  BY <1>3, <1>4, <1>5, <1>6, <1>7 DEF RosterInv

-----------------------------------------------------------------------------
(* Rows of the roster that are written, and the swaps that follow.         *)

LEMMA ShiftsTypes ==
  ASSUME RosterTypeOK, NEW rows \in [Shifts -> Entry], OneEach(rows), SetShifts(rows),
         UNCHANGED leave, traded' \subseteq Shifts
  PROVE  RosterTypeOK'
<1>1. shift' = rows
  BY DEF SetShifts
<1>2. stale' \subseteq Swaps
  BY DEF SetShifts, RosterTypeOK, OpenSwaps
<1>3. swap' \in [Swaps -> {NoSwap} \union SwapRow]
  <2>1. ASSUME NEW s \in Swaps, swap[s] # NoSwap PROVE [swap[s] EXCEPT !.back = NoShift] \in SwapRow
    BY <2>1, SwapKinds DEF SwapRow, Ids
  <2> QED
    BY <2>1 DEF SetShifts, RosterTypeOK
<1>4. OneEach(shift)'
  BY <1>1 DEF OneEach
<1> QED
  BY <1>1, <1>2, <1>3, <1>4 DEF RosterTypeOK

\* A swap stays open only as it was; and where no shift of it changed hands, or
\* went, it is about the shifts it was about.
LEMMA SwapsFollow ==
  ASSUME RosterTypeOK, NEW rows \in [Shifts -> Entry], SetShifts(rows)
  PROVE  /\ \A s \in Swaps :
              swap'[s] # NoSwap => swap[s] # NoSwap /\ swap'[s].status = swap[s].status
         /\ \A s \in OpenSwaps' : s \notin stale' =>
              /\ s \in OpenSwaps \ stale /\ swap'[s] = swap[s]
              /\ shift'[swap[s].entry] = shift[swap[s].entry]
<1> DEFINE gone == {i \in Shifts : shift[i] # NoEntry /\ rows[i] = NoEntry}
           moved == {i \in Shifts : shift[i] # rows[i]}
<1>1. /\ shift' = rows
      /\ swap' = [s \in Swaps |->
                    IF swap[s] = NoSwap \/ swap[s].entry \in gone THEN NoSwap
                    ELSE IF swap[s].back \in gone THEN [swap[s] EXCEPT !.back = NoShift]
                    ELSE swap[s]]
      /\ stale' = stale \union {s \in OpenSwaps : \E i \in moved : Names(s, i)}
  BY DEF SetShifts
<1>2. gone \subseteq moved
  OBVIOUS
<1>3. ASSUME NEW s \in Swaps
      PROVE  swap'[s] # NoSwap => swap[s] # NoSwap /\ swap'[s].status = swap[s].status
  BY <1>1, <1>3, SwapKinds DEF SwapRow
<1>4. ASSUME NEW s \in OpenSwaps', s \notin stale'
      PROVE  /\ s \in OpenSwaps \ stale /\ swap'[s] = swap[s]
             /\ shift'[swap[s].entry] = shift[swap[s].entry]
  <2>1. s \in Swaps /\ swap'[s] # NoSwap /\ swap'[s].status \in Undecided
    BY <1>4 DEF OpenSwaps, NoSwap, Undecided
  <2>2. s \in OpenSwaps /\ swap[s] \in SwapRow
    BY <1>3, <2>1, SwapKinds DEF OpenSwaps
  <2>3. \A i \in moved : ~Names(s, i)
    BY <1>1, <1>4, <2>2
  <2>4. swap[s].entry \notin moved /\ swap[s].back \notin moved
    BY <2>3 DEF Names
  <2>5. swap'[s] = swap[s]
    BY <1>1, <1>2, <2>1, <2>4
  <2>6. shift'[swap[s].entry] = shift[swap[s].entry]
    BY <1>1, <2>2, <2>4 DEF SwapRow
  <2> QED
    BY <1>1, <1>4, <2>2, <2>5, <2>6
<1> QED
  BY <1>3, <1>4

LEMMA SwapsFollowed ==
  ASSUME RosterTypeOK, SwapsKept, NEW rows \in [Shifts -> Entry], SetShifts(rows), OneOn("swaps")',
         \A d \in Desks :
           \/ desk'[d] = desk[d] /\ desk[d].pc # "apply"
           \/ desk'[d].pc \in {"idle", "fill"}
           \/ desk'[d].pc = "answer" /\ desk'[d].status = "approved",
         \A d \in Desks : desk'[d].pc = "answer" => desk'[d].swap \in Swaps,
         \A d \in Desks : desk[d].pc = "ask" =>
           rows[desk[d].row.entry] \in {NoEntry, shift[desk[d].row.entry]}
  PROVE  SwapsKept'
<1>1. AsAsked'
  BY SwapsFollow DEF SwapsKept, AsAsked
<1>2. ASSUME NEW d \in Desks PROVE Informed(desk[d])'
  <2>1. CASE desk'[d].pc \in {"idle", "fill"}
    BY <2>1 DEF Informed
  <2>2. CASE desk'[d].pc = "answer" /\ desk'[d].status = "approved"
    BY <2>2 DEF Informed
  <2>3. CASE desk'[d] = desk[d] /\ desk[d].pc # "apply"
    <3>1. Informed(desk[d]) /\ shift' = rows
      BY DEF SwapsKept, SetShifts
    <3>2. CASE desk[d].pc = "ask"
      BY <2>3, <3>1, <3>2 DEF Informed
    <3>3. CASE desk[d].pc = "answer"
      <4>1. desk[d].swap \in Swaps
        BY <2>3, <3>3
      <4> QED
        BY <2>3, <3>1, <3>3, <4>1, SwapsFollow DEF Informed
    <3>4. CASE desk[d].pc \notin {"ask", "answer"}
      BY <2>3, <3>4 DEF Informed
    <3> QED
      BY <3>2, <3>3, <3>4
  <2> QED
    BY <2>1, <2>2, <2>3
<1> QED
  BY <1>1, <1>2 DEF SwapsKept

\* While one request changes the roster, no other does.
LEMMA AloneOnRoster ==
  ASSUME DeskTypes, OneOn("roster"), NEW c \in Desks, "roster" \in WorksOn(desk[c]),
         NEW d \in Desks, d # c
  PROVE  desk[d].pc \notin {"fill", "apply", "off"}
  BY DEF OneOn, WorksOn

\* Somebody on leave is on no shift that was not traded for, whoever else gets one.
LEMMA BlockedStays ==
  ASSUME Blocked, UNCHANGED leave, traded \subseteq traded',
         NEW rows \in [Shifts -> Entry], shift' = rows,
         \A d \in Desks : \A l \in Leaves :
           desk[d] = [pc |-> "off", leave |-> l] =>
             \/ \E e \in Desks : desk'[e] = [pc |-> "off", leave |-> l]
             \/ \A day \in Off[l] : Rostered(LeaveBy[l], day)' = {},
         \A i \in Shifts :
           \/ rows[i] \in {shift[i], NoEntry}
           \/ i \in traded'
           \/ ~OnLeave(rows[i].who, rows[i].day)
  PROVE  Blocked'
<1> SUFFICES ASSUME NEW l \in Leaves \ HalfDay, leave[l] = "approved"
             PROVE  \/ \E d \in Desks : desk'[d] = [pc |-> "off", leave |-> l]
                    \/ \A d \in Off[l] : Rostered(LeaveBy[l], d)' \subseteq traded'
  BY DEF Blocked
<1>1. CASE \E d \in Desks : desk[d] = [pc |-> "off", leave |-> l]
  BY <1>1
<1>2. CASE \A d \in Off[l] : Rostered(LeaveBy[l], d) \subseteq traded
  <2> SUFFICES ASSUME NEW day \in Off[l], NEW i \in Rostered(LeaveBy[l], day)' PROVE i \in traded'
    OBVIOUS
  <2>1. i \in Shifts /\ rows[i] = [day |-> day, who |-> LeaveBy[l]]
    BY DEF Rostered
  <2>2. rows[i] # NoEntry /\ rows[i].day = day /\ rows[i].who = LeaveBy[l]
    BY <2>1, RosterAssumption DEF NoEntry
  <2>3. OnLeave(rows[i].who, rows[i].day)
    BY <2>2 DEF OnLeave
  <2>4. CASE rows[i] = shift[i]
    BY <1>2, <2>1, <2>4 DEF Rostered
  <2> QED
    BY <2>1, <2>2, <2>3, <2>4
<1> QED
  BY <1>1, <1>2 DEF Blocked

LEMMA SaveKeeps ==
  ASSUME RosterInv, NEW c \in Desks, desk[c].pc = "fill", SaveShift(c)
  PROVE  RosterInv'
<1> DEFINE row(cell) == [day |-> cell[1][2], who |-> cell[1][1]]
           rows(cell, i) == [shift EXCEPT ![i] = row(cell)]
<1>1. PICK cell \in desk[c].todo, i \in Shifts :
        /\ cell[2] # {} => i \in cell[2]
        /\ cell[2] = {} => shift[i] = NoEntry /\ ~Mentioned(i)
        /\ IF OneEach(rows(cell, i))
           THEN SetShifts(rows(cell, i)) /\ desk' = [desk EXCEPT ![c].todo = @ \ {cell}]
           ELSE Clears(c) /\ UNCHANGED <<shift, swap, stale>>
  <2>1. ASSUME NEW cell \in desk[c].todo PROVE cell \in Cell
    BY <2>1, DeskKinds DEF RosterInv
  <2> QED
    BY <2>1 DEF SaveShift, Cell
<1>2. UNCHANGED <<leave, crossed, traded>>
  BY DEF SaveShift
<1>3. CASE ~OneEach(rows(cell, i))
  BY <1>1, <1>2, <1>3, EndKeeps
<1>4. CASE OneEach(rows(cell, i))
  <2> DEFINE new == row(cell)
             all == rows(cell, i)
             to == [pc |-> "fill", todo |-> desk[c].todo \ {cell}]
  <2>0. DeskTypes /\ RosterTypeOK /\ OneEach(all) /\ SetShifts(all)
    BY <1>1, <1>4 DEF RosterInv
  <2>1. /\ desk[c] = [pc |-> "fill", todo |-> desk[c].todo] /\ desk[c].todo \subseteq Cell
        /\ cell \in Cell
    BY <2>0, DeskKinds
  <2>2. new \in Shift /\ new \in Entry /\ new.day = cell[1][2] /\ new.who = cell[1][1]
    BY <2>1 DEF Cell, Shift, Entry
  <2>3. all \in [Shifts -> Entry] /\ shift' = all
    BY <2>0, <2>2 DEF RosterTypeOK, SetShifts
  <2>4. desk' = [desk EXCEPT ![c] = to]
    <3>1. desk' = [desk EXCEPT ![c] = [desk[c] EXCEPT !.todo = desk[c].todo \ {cell}]]
      BY <1>1, <1>4
    <3>2. [desk[c] EXCEPT !.todo = desk[c].todo \ {cell}] = to
      BY <2>1
    <3> QED
      BY <3>1, <3>2
  <2>5. RosterTypeOK'
    BY <1>2, <2>0, <2>3, ShiftsTypes DEF RosterTypeOK
  <2>6. to \in DeskState /\ WorksOn(to) \subseteq WorksOn(desk[c]) /\ "roster" \in WorksOn(desk[c])
    BY <2>1 DEF DeskState, WorksOn
  <2>7. DeskTypes'
    BY <2>0, <2>4, <2>6 DEF DeskTypes
  <2>8. "leave" \notin crossed' => LeaveKept'
    BY <1>2, <2>0, <2>4, <2>6, LeaveQuiet DEF RosterInv, Asked
  <2>9. ASSUME "roster" \notin crossed'
        PROVE  cell[2] # {} => all = shift
    <3>1. RosterKept /\ Fresh(desk[c])
      BY <1>2, <2>9 DEF RosterInv, RosterKept
    <3>2. cell[2] # {} => shift[i] = new
      BY <1>1, <3>1 DEF Fresh
    <3> QED
      BY <3>1, <3>2 DEF RosterInv, RosterTypeOK
  <2>10. ASSUME "roster" \notin crossed' PROVE RosterKept'
    <3>1. RosterKept /\ Fresh(desk[c])
      BY <1>2, <2>10 DEF RosterInv, RosterKept
    <3>2. OneOn("roster")'
      BY <2>0, <2>4, <2>6, <3>1, OneStays DEF RosterKept
    <3>3. ~OnLeave(new.who, new.day)
      BY <2>2, <3>1 DEF Fresh
    <3>4. \A d \in Desks \ {c} : desk'[d] = desk[d] /\ desk[d].pc \notin {"fill", "apply", "off"}
      BY <2>0, <2>4, <2>6, <3>1, AloneOnRoster DEF RosterKept, DeskTypes
    <3>5. \A n \in Shifts : all[n] = shift[n] \/ ~OnLeave(all[n].who, all[n].day)
      BY <2>0, <3>3 DEF RosterTypeOK
    <3>6. ASSUME NEW d \in Desks, NEW l \in Leaves, desk[d] = [pc |-> "off", leave |-> l] PROVE FALSE
      BY <3>4, <3>6
    <3>7. Blocked'
      BY <1>2, <2>3, <3>1, <3>5, <3>6, BlockedStays DEF RosterKept
    <3>8. ASSUME NEW d \in Desks PROVE Fresh(desk[d])'
      <4>1. CASE d # c
        BY <3>4, <4>1 DEF Fresh
      <4>2. CASE d = c
        <5>1. desk'[d] = to
          BY <2>0, <2>4, <4>2 DEF DeskTypes
        <5>2. \A m \in to.todo : /\ m \in desk[c].todo /\ m \in Cell
                                 /\ ~OnLeave(m[1][1], m[1][2])
                                 /\ \A n \in m[2] : n \in Shifts /\ shift[n] = row(m) /\ row(m) # NoEntry
          BY <2>1, <3>1, RosterAssumption DEF Fresh, Cell, NoEntry
        <5>3. \A m \in to.todo : \A n \in m[2] : all[n] = row(m)
          <6>1. CASE cell[2] # {}
            BY <2>9, <2>10, <5>2, <6>1
          <6>2. CASE cell[2] = {}
            BY <1>1, <2>0, <5>2, <6>2 DEF RosterTypeOK
          <6> QED
            BY <6>1, <6>2
        <5>4. \A u, day : OnLeave(u, day)' <=> OnLeave(u, day)
          BY <1>2 DEF OnLeave
        <5>5. \A m \in to.todo : ~OnLeave(m[1][1], m[1][2])'
          BY <5>2, <5>4
        <5>6. to.pc = "fill"
          OBVIOUS
        <5> HIDE DEF to, all
        <5> QED
          BY <2>3, <5>1, <5>3, <5>5, <5>6 DEF Fresh
      <4> QED
        BY <4>1, <4>2
    <3> QED
      BY <3>2, <3>7, <3>8 DEF RosterKept
  <2>11. ASSUME {"roster", "swaps"} \cap crossed' = {} PROVE SwapsKept'
    <3>1. RosterKept /\ SwapsKept
      BY <1>2, <2>11 DEF RosterInv
    <3>2. OneOn("swaps")'
      BY <2>0, <2>4, <2>6, <3>1, OneStays DEF SwapsKept
    <3>3. \A d \in Desks \ {c} : desk'[d] = desk[d] /\ desk[d].pc # "apply"
      BY <2>0, <2>4, <2>6, <3>1, AloneOnRoster DEF RosterKept, DeskTypes
    <3>4. desk'[c].pc = "fill"
      BY <2>0, <2>4 DEF DeskTypes
    <3>5. \A d \in Desks : desk'[d].pc = "answer" => desk'[d].swap \in Swaps
      BY <2>0, <3>3, <3>4, DeskKinds
    <3>6. ASSUME NEW d \in Desks, desk[d].pc = "ask"
          PROVE  all[desk[d].row.entry] \in {NoEntry, shift[desk[d].row.entry]}
      <4>1. CASE cell[2] # {}
        BY <2>9, <2>11, <4>1
      <4>2. CASE cell[2] = {}
        <5>1. desk[d].row.entry \in Shifts /\ desk[d].row.entry # i
          BY <1>1, <2>0, <3>6, <4>2, DeskKinds DEF Mentioned, SwapRow
        <5> QED
          BY <2>0, <5>1 DEF RosterTypeOK
      <4> QED
        BY <4>1, <4>2
    <3> QED
      BY <2>0, <2>3, <3>1, <3>2, <3>3, <3>4, <3>5, <3>6, SwapsFollowed
  <2> QED
    BY <2>5, <2>7, <2>8, <2>10, <2>11 DEF RosterInv
<1> QED
  BY <1>3, <1>4

\* Taking shifts off the roster leaves one for a person and day.
LEMMA FewerShifts ==
  ASSUME RosterTypeOK, NEW rows \in [Shifts -> Entry], \A i \in Shifts : rows[i] \in {shift[i], NoEntry}
  PROVE  OneEach(rows)
  BY DEF RosterTypeOK, OneEach

LEMMA DeleteKeeps == ASSUME RosterInv, NEW i \in Shifts, DeleteEntry(i) PROVE RosterInv'
<1> DEFINE rows == [shift EXCEPT ![i] = NoEntry]
<1>0. /\ RosterTypeOK /\ DeskTypes /\ SetShifts(rows) /\ UNCHANGED <<leave, desk, traded>>
      /\ crossed' = crossed \union Crossed([pc |-> "fill"])
  BY DEF DeleteEntry, RosterInv
<1>1. rows \in [Shifts -> Entry] /\ \A n \in Shifts : rows[n] \in {shift[n], NoEntry}
  BY <1>0 DEF RosterTypeOK, Entry
<1>2. OneEach(rows)
  BY <1>0, <1>1, FewerShifts
<1>3. RosterTypeOK'
  <2>1. traded' \subseteq Shifts /\ UNCHANGED leave
    BY <1>0 DEF RosterTypeOK
  <2> HIDE DEF rows
  <2> QED
    BY <1>0, <1>1, <1>2, <2>1, ShiftsTypes
<1>4. DeskTypes'
  BY <1>0 DEF DeskTypes
<1>5. \A x : OneOn(x) => OneOn(x)'
  BY <1>0 DEF OneOn, WorksOn
<1>6. "leave" \notin crossed' => LeaveKept'
  <2>1. LeaveKept => TakenWithinYear' /\ \A c \in Desks : Asked(desk[c])'
    BY <1>0, SameLeave DEF LeaveKept
  <2>2. "leave" \notin crossed' /\ LeaveKept => LeaveOnce'
    BY <1>0 DEF LeaveKept, LeaveOnce, Counting
  <2> QED
    BY <1>0, <1>5, <2>1, <2>2 DEF RosterInv, LeaveKept
<1>7. ASSUME "roster" \notin crossed'
      PROVE  \A d \in Desks : desk[d].pc \notin {"fill", "apply", "off"}
  BY <1>0, <1>7 DEF Crossed, WorksOn
<1>8. ASSUME "roster" \notin crossed' PROVE RosterKept'
  <2>1. RosterKept
    BY <1>0, <1>8 DEF RosterInv
  <2>2. Blocked'
    <3>1. \A d \in Desks : \A l \in Leaves : desk[d] # [pc |-> "off", leave |-> l]
      BY <1>7, <1>8
    <3>2. shift' = rows /\ Blocked /\ UNCHANGED leave /\ traded \subseteq traded'
      BY <1>0, <2>1 DEF SetShifts, RosterKept
    <3> HIDE DEF rows
    <3> QED
      BY <1>1, <3>1, <3>2, BlockedStays
  <2>3. \A d \in Desks : Fresh(desk[d])'
    BY <1>0, <1>7, <1>8 DEF Fresh
  <2> QED
    BY <1>5, <2>1, <2>2, <2>3 DEF RosterKept
<1>9. ASSUME {"roster", "swaps"} \cap crossed' = {} PROVE SwapsKept'
  <2>1. SwapsKept /\ "roster" \notin crossed'
    BY <1>0, <1>9 DEF RosterInv
  <2>2. OneOn("swaps")'
    BY <1>5, <2>1 DEF SwapsKept
  <2>3. \A d \in Desks : desk'[d] = desk[d] /\ desk[d].pc # "apply"
    BY <1>0, <1>7, <2>1
  <2>4. \A d \in Desks : desk'[d].pc = "answer" => desk'[d].swap \in Swaps
    BY <1>0, DeskKinds
  <2>5. \A d \in Desks : desk[d].pc = "ask" =>
          rows[desk[d].row.entry] \in {NoEntry, shift[desk[d].row.entry]}
    BY <1>0, <1>1, DeskKinds DEF SwapRow
  <2> HIDE DEF rows
  <2> QED
    BY <1>0, <1>1, <2>1, <2>2, <2>3, <2>4, <2>5, SwapsFollowed
<1> QED
  BY <1>3, <1>4, <1>6, <1>8, <1>9 DEF RosterInv

LEMMA OffKeeps == ASSUME RosterInv, NEW c \in Desks, OffRoster(c) PROVE RosterInv'
<1> DEFINE l == desk[c].leave
           rows == [i \in Shifts |->
                      IF shift[i] \in [day: Off[l], who: {LeaveBy[l]}] THEN NoEntry ELSE shift[i]]
<1>0. /\ RosterTypeOK /\ DeskTypes /\ SetShifts(rows) /\ desk[c].pc = "off"
      /\ desk' = [desk EXCEPT ![c] = Clear] /\ UNCHANGED <<leave, crossed, traded>>
  BY DEF OffRoster, RosterInv, Clears, Cleared
<1>1. rows \in [Shifts -> Entry] /\ \A n \in Shifts : rows[n] \in {shift[n], NoEntry}
  BY <1>0 DEF RosterTypeOK, Entry
<1>2. OneEach(rows)
  BY <1>0, <1>1, FewerShifts
<1>3. RosterTypeOK'
  <2>1. traded' \subseteq Shifts /\ UNCHANGED leave
    BY <1>0 DEF RosterTypeOK
  <2> HIDE DEF rows
  <2> QED
    BY <1>0, <1>1, <1>2, <2>1, ShiftsTypes
<1>4. DeskTypes' /\ desk'[c] = Clear
  BY <1>0 DEF DeskTypes, DeskState, Clear
<1>5. WorksOn(Clear) \subseteq WorksOn(desk[c]) /\ "roster" \in WorksOn(desk[c])
  BY <1>0, ClearFacts DEF WorksOn
<1>6. "leave" \notin crossed' => LeaveKept'
  BY <1>0, <1>5, ClearFacts, LeaveQuiet DEF RosterInv
<1>7. ASSUME "roster" \notin crossed'
      PROVE  \A d \in Desks \ {c} : desk'[d] = desk[d] /\ desk[d].pc \notin {"fill", "apply", "off"}
  <2>1. OneOn("roster")
    BY <1>0, <1>7 DEF RosterInv, RosterKept
  <2> QED
    BY <1>0, <1>5, <2>1, AloneOnRoster DEF DeskTypes
<1>8. ASSUME "roster" \notin crossed' PROVE RosterKept'
  <2>1. RosterKept /\ shift' = rows
    BY <1>0, <1>8 DEF RosterInv, SetShifts
  <2>2. OneOn("roster")'
    BY <1>0, <1>5, <2>1, OneStays DEF RosterKept
  <2>3. ASSUME NEW d \in Desks, NEW m \in Leaves, desk[d] = [pc |-> "off", leave |-> m]
        PROVE  \A day \in Off[m] : Rostered(LeaveBy[m], day)' = {}
    <3>1. d = c
      BY <1>7, <1>8, <2>3
    <3>2. m = l
      BY <2>3, <3>1
    <3>3. ASSUME NEW day \in Off[m], NEW i \in Shifts, rows[i] = [day |-> day, who |-> LeaveBy[m]]
          PROVE  FALSE
      <4>1. rows[i].day = day /\ day # 0
        BY <3>3, RosterAssumption
      <4>2. rows[i] = shift[i]
        BY <4>1 DEF NoEntry
      <4> QED
        BY <3>2, <3>3, <4>1, <4>2 DEF NoEntry
    <3> QED
      BY <2>1, <3>3 DEF Rostered
  <2>4. Blocked'
    <3>1. Blocked /\ UNCHANGED leave /\ traded \subseteq traded'
      BY <1>0, <2>1 DEF RosterKept
    <3> HIDE DEF rows
    <3> QED
      BY <1>1, <2>1, <2>3, <3>1, BlockedStays
  <2>5. \A d \in Desks : Fresh(desk[d])'
    BY <1>4, <1>7, <1>8 DEF Fresh, Clear
  <2> QED
    BY <2>2, <2>4, <2>5 DEF RosterKept
<1>9. ASSUME {"roster", "swaps"} \cap crossed' = {} PROVE SwapsKept'
  <2>1. SwapsKept /\ "roster" \notin crossed'
    BY <1>0, <1>9 DEF RosterInv
  <2>2. OneOn("swaps")'
    BY <1>0, <1>5, <2>1, OneStays DEF SwapsKept
  <2>3. \A d \in Desks : \/ desk'[d] = desk[d] /\ desk[d].pc # "apply"
                         \/ desk'[d].pc \in {"idle", "fill"}
    BY <1>4, <1>7, <2>1 DEF Clear
  <2>4. \A d \in Desks : desk'[d].pc = "answer" => desk'[d].swap \in Swaps
    <3> SUFFICES ASSUME NEW d \in Desks, desk'[d].pc = "answer" PROVE desk'[d].swap \in Swaps
      OBVIOUS
    <3>1. d # c /\ desk'[d] = desk[d]
      BY <1>4, <1>7, <2>1 DEF Clear
    <3> QED
      BY <1>0, <3>1, DeskKinds
  <2>5. \A d \in Desks : desk[d].pc = "ask" =>
          rows[desk[d].row.entry] \in {NoEntry, shift[desk[d].row.entry]}
    BY <1>0, <1>1, DeskKinds DEF SwapRow
  <2> HIDE DEF rows
  <2> QED
    BY <1>0, <1>1, <2>1, <2>2, <2>3, <2>4, <2>5, SwapsFollowed
<1> QED
  BY <1>3, <1>4, <1>6, <1>8, <1>9 DEF RosterInv

\* What an applied swap writes: the two shifts change hands, or stay as they are.
LEMMA SwappedRows ==
  ASSUME RosterTypeOK, DeskTypes, NEW c \in Desks, desk[c].pc = "apply"
  PROVE  /\ Swapped(c) \in [Shifts -> Entry]
         /\ Fresh(desk[c]) => \A i \in Shifts :
              \/ Swapped(c)[i] = shift[i]
              \/ /\ i = desk[c].row.entry /\ desk[c].theirs.day # desk[c].mine.day
                 /\ Swapped(c)[i] = [day |-> desk[c].mine.day, who |-> desk[c].row.to]
              \/ /\ i = desk[c].row.back /\ desk[c].theirs.day # desk[c].mine.day
                 /\ Swapped(c)[i] = [day |-> desk[c].theirs.day, who |-> desk[c].row.from]
<1> DEFINE row == desk[c].row
           mine == desk[c].mine
           theirs == desk[c].theirs
           given == [day |-> mine.day, who |-> row.to]
           other == [day |-> theirs.day, who |-> row.from]
<1>1. /\ row \in SwapRow /\ mine \in Shift /\ theirs \in Entry
      /\ row.back # NoShift => theirs # NoEntry
  BY DeskKinds DEF DeskTypes
<1>2. /\ row.entry \in Shifts /\ row.to \in Colleagues /\ row.from \in Colleagues
      /\ mine.day \in RosterDays /\ mine \in Entry
  BY <1>1 DEF SwapRow, Shift, Entry
<1>3. [mine EXCEPT !.who = row.to] = given /\ given \in Entry
  BY <1>1, <1>2 DEF Shift, Entry
<1>4. theirs # NoEntry => [theirs EXCEPT !.who = row.from] = other /\ other \in Entry
  BY <1>1, <1>2 DEF Entry
<1>5. \A i \in Shifts : i = row.back => theirs # NoEntry
  BY <1>1, RosterAssumption
<1>6. ASSUME NEW i \in Shifts
      PROVE  \/ Swapped(c)[i] = mine /\ i = row.entry /\ theirs.day = mine.day
             \/ Swapped(c)[i] = theirs /\ i = row.back /\ theirs.day = mine.day
             \/ Swapped(c)[i] = given /\ i = row.entry /\ theirs.day # mine.day
             \/ Swapped(c)[i] = other /\ i = row.back /\ theirs.day # mine.day
             \/ Swapped(c)[i] = shift[i]
  <2>1. Swapped(c)[i] =
          CASE theirs.day = mine.day /\ i = row.entry -> mine
            [] theirs.day = mine.day /\ i = row.back -> theirs
            [] theirs.day # mine.day /\ i = row.entry -> [mine EXCEPT !.who = row.to]
            [] theirs.day # mine.day /\ i = row.back -> [theirs EXCEPT !.who = row.from]
            [] OTHER -> shift[i]
    BY DEF Swapped
  <2> QED
    BY <1>3, <1>4, <1>5, <2>1
<1>7. Swapped(c) \in [Shifts -> Entry]
  <2>1. DOMAIN Swapped(c) = Shifts /\ Swapped(c) = [i \in Shifts |-> Swapped(c)[i]]
    BY DEF Swapped
  <2>2. ASSUME NEW i \in Shifts PROVE Swapped(c)[i] \in Entry
    BY <1>1, <1>2, <1>3, <1>4, <1>5, <1>6 DEF RosterTypeOK
  <2> QED
    BY <2>1, <2>2
<1>8. ASSUME Fresh(desk[c]) PROVE mine = shift[row.entry] /\ (row.back # NoShift => theirs = shift[row.back])
  BY <1>8 DEF Fresh
<1>9. \A i \in Shifts : i = row.back => row.back # NoShift
  BY RosterAssumption
<1> QED
  BY <1>6, <1>7, <1>8, <1>9

LEMMA ApplyKeeps == ASSUME RosterInv, NEW c \in Desks, ApplySwap(c) PROVE RosterInv'
<1> DEFINE row == desk[c].row
           to == [pc |-> "answer", swap |-> desk[c].swap, status |-> "approved"]
<1>0. /\ RosterTypeOK /\ DeskTypes /\ desk[c].pc = "apply" /\ UNCHANGED <<leave, filed, crossed>>
      /\ IF OneEach(Swapped(c))
         THEN /\ SetShifts(Swapped(c)) /\ desk' = [desk EXCEPT ![c] = to]
              /\ traded' = traded \union ({row.back} \ {NoShift})
         ELSE Clears(c) /\ UNCHANGED <<shift, swap, stale, traded>>
  BY DEF ApplySwap, RosterInv
<1>1. CASE ~OneEach(Swapped(c))
  BY <1>0, <1>1, EndKeeps
<1>2. CASE OneEach(Swapped(c))
  <2>1. /\ SetShifts(Swapped(c)) /\ desk' = [desk EXCEPT ![c] = to] /\ shift' = Swapped(c)
        /\ traded' = traded \union ({row.back} \ {NoShift})
    BY <1>0, <1>2 DEF SetShifts
  <2>2. /\ desk[c].swap \in Swaps /\ row \in SwapRow /\ desk[c].mine \in Shift
        /\ Swapped(c) \in [Shifts -> Entry]
    BY <1>0, DeskKinds, SwappedRows
  <2>3. traded' \subseteq Shifts /\ traded \subseteq traded'
    BY <1>0, <2>1, <2>2 DEF RosterTypeOK, SwapRow, Ids
  <2>4. RosterTypeOK'
    BY <1>0, <1>2, <2>1, <2>2, <2>3, ShiftsTypes
  <2>5. /\ to \in DeskState /\ WorksOn(to) \subseteq WorksOn(desk[c]) /\ "roster" \in WorksOn(desk[c])
        /\ Fresh(to) /\ Asked(to)
    BY <1>0, <2>2 DEF DeskState, WorksOn, Fresh, Asked
  <2>6. DeskTypes' /\ desk'[c] = to
    BY <1>0, <2>1, <2>5 DEF DeskTypes
  <2>7. "leave" \notin crossed' => LeaveKept'
    BY <1>0, <2>1, <2>5, LeaveQuiet DEF RosterInv
  <2>8. ASSUME "roster" \notin crossed'
        PROVE  \A d \in Desks \ {c} : desk'[d] = desk[d] /\ desk[d].pc \notin {"fill", "apply", "off"}
    <3>1. OneOn("roster")
      BY <1>0, <2>8 DEF RosterInv, RosterKept
    <3> QED
      BY <1>0, <2>1, <2>5, <3>1, AloneOnRoster DEF DeskTypes
  <2>9. ASSUME "roster" \notin crossed' PROVE RosterKept'
    <3>1. RosterKept /\ Fresh(desk[c])
      BY <1>0, <2>9 DEF RosterInv, RosterKept
    <3>2. OneOn("roster")'
      BY <1>0, <2>1, <2>5, <3>1, OneStays DEF RosterKept
    <3>3. ~OnLeave(row.to, desk[c].mine.day)
      BY <1>0, <3>1 DEF Fresh
    <3>4. ASSUME NEW i \in Shifts
          PROVE  \/ Swapped(c)[i] \in {shift[i], NoEntry}
                 \/ i \in traded'
                 \/ ~OnLeave(Swapped(c)[i].who, Swapped(c)[i].day)
      <4>1. CASE i = row.back
        BY <2>1, <4>1, RosterAssumption
      <4>2. CASE i # row.back
        <5> DEFINE given == [day |-> desk[c].mine.day, who |-> row.to]
        <5>1. Swapped(c)[i] = shift[i] \/ Swapped(c)[i] = given
          BY <1>0, <3>1, <4>2, SwappedRows
        <5>2. ~OnLeave(given.who, given.day)
          BY <3>3
        <5> QED
          BY <5>1, <5>2
      <4> QED
        BY <4>1, <4>2
    <3>5. ASSUME NEW d \in Desks, NEW l \in Leaves, desk[d] = [pc |-> "off", leave |-> l] PROVE FALSE
      BY <1>0, <2>8, <2>9, <3>5
    <3>6. Blocked /\ UNCHANGED leave
      BY <1>0, <3>1 DEF RosterKept
    <3>7. Blocked'
      BY <2>1, <2>2, <2>3, <3>4, <3>5, <3>6, BlockedStays
    <3>8. \A d \in Desks : Fresh(desk[d])'
      BY <2>6, <2>8, <2>9 DEF Fresh
    <3> QED
      BY <3>2, <3>7, <3>8 DEF RosterKept
  <2>10. ASSUME {"roster", "swaps"} \cap crossed' = {} PROVE SwapsKept'
    <3>1. SwapsKept /\ "roster" \notin crossed'
      BY <1>0, <2>10 DEF RosterInv
    <3>2. OneOn("swaps")'
      BY <1>0, <2>1, <2>5, <3>1, OneStays DEF SwapsKept
    <3>3. \A d \in Desks \ {c} : desk[d].pc # "ask"
      BY <1>0, <3>1 DEF SwapsKept, OneOn, WorksOn
    <3>4. \A d \in Desks : \/ desk'[d] = desk[d] /\ desk[d].pc # "apply"
                           \/ desk'[d].pc \in {"idle", "fill"}
                           \/ desk'[d].pc = "answer" /\ desk'[d].status = "approved"
      BY <2>6, <2>8, <3>1
    <3>5. ASSUME NEW d \in Desks, desk'[d].pc = "answer" PROVE desk'[d].swap \in Swaps
      <4>1. CASE d = c
        BY <2>2, <2>6, <4>1
      <4>2. CASE d # c
        BY <1>0, <2>8, <3>1, <3>5, <4>2, DeskKinds
      <4> QED
        BY <4>1, <4>2
    <3>6. \A d \in Desks : desk[d].pc # "ask"
      BY <1>0, <3>3
    <3> QED
      BY <1>0, <2>1, <2>2, <3>1, <3>2, <3>4, <3>5, <3>6, SwapsFollowed
  <2> QED
    BY <2>4, <2>6, <2>7, <2>9, <2>10 DEF RosterInv
<1> QED
  BY <1>1, <1>2

-----------------------------------------------------------------------------
(* Every step, and the theorems.                                           *)

LEMMA RosterSteps == ASSUME RosterInv, RosterNext PROVE RosterInv'
<1>1. ASSUME NEW c \in Desks, NEW u \in Colleagues, NEW ds \in SUBSET RosterDays,
             BeginFill(c, {u} \X ds)
      PROVE  RosterInv'
  BY <1>1, FillBegins
<1>2. ASSUME NEW c \in Desks, desk[c].pc = "fill", SaveShift(c) \/ FillDone(c) PROVE RosterInv'
  <2>1. CASE SaveShift(c)
    BY <1>2, <2>1, SaveKeeps
  <2>2. CASE FillDone(c)
    BY <1>2, <2>2, EndKeeps DEF FillDone
  <2> QED
    BY <1>2, <2>1, <2>2
<1>3. ASSUME NEW c \in Desks, NEW s \in Swaps,
             \/ \E i \in Shifts, u \in Colleagues, b \in Ids, status \in Undecided :
                  RequestSwap(c, s, i, u, b, status)
             \/ \E status \in {"pending_manager", "rejected", "cancelled"} :
                  AnswerSwap(c, s, status)
             \/ ApproveSwap(c, s)
      PROVE  RosterInv'
  BY <1>3, RequestBegins, AnswerBegins, ApproveBegins
<1>4. ASSUME NEW c \in Desks,
             InsertSwap(c) \/ SaveAnswer(c) \/ ApplySwap(c) \/ SaveLeave(c) \/ OffRoster(c)
      PROVE  RosterInv'
  BY <1>4, InsertKeeps, AnswerKeeps, ApplyKeeps, LeaveKeeps, OffKeeps
<1>5. ASSUME NEW c \in Desks, NEW l \in Leaves,
             \/ RequestLeave(c, l)
             \/ \E status \in {"approved", "rejected", "cancelled"} : DecideLeave(c, l, status)
      PROVE  RosterInv'
  BY <1>5, LeaveBegins
<1>6. ASSUME NEW c \in Desks, LeaveDesk(c) PROVE RosterInv'
  BY <1>6, EndKeeps DEF LeaveDesk
<1>7. ASSUME NEW i \in Shifts, DeleteEntry(i) PROVE RosterInv'
  BY <1>7, DeleteKeeps
<1> QED
  BY <1>1, <1>2, <1>3, <1>4, <1>5, <1>6, <1>7 DEF RosterNext

LEMMA RosterRests == ASSUME RosterInv, UNCHANGED rosterVars PROVE RosterInv'
<1>1. UNCHANGED <<shift, swap, leave, desk, crossed, traded, stale>>
  BY DEF rosterVars
<1>2. RosterTypeOK' /\ DeskTypes'
  BY <1>1 DEF RosterInv, RosterTypeOK, OneEach, DeskTypes
<1>3. \A x : OneOn(x) => OneOn(x)'
  BY <1>1 DEF OneOn, WorksOn
<1>4. \A d \in Desks : /\ Fresh(desk[d]) => Fresh(desk[d])'
                       /\ Informed(desk[d]) => Informed(desk[d])'
                       /\ Asked(desk[d]) => Asked(desk[d])'
  BY <1>1, SameFresh, SameLeave DEF Informed
<1>5. (Blocked => Blocked') /\ (AsAsked => AsAsked') /\ (LeaveOnce => LeaveOnce')
  BY <1>1 DEF Blocked, Rostered, AsAsked, OpenSwaps, LeaveOnce, Counting
<1> QED
  BY <1>1, <1>2, <1>3, <1>4, <1>5, SameLeave DEF RosterInv, RosterKept, SwapsKept, LeaveKept

LEMMA RosterInvariant == RosterSpec => []RosterInv
<1>1. RosterInv /\ [RosterNext]_rosterVars => RosterInv'
  BY RosterSteps, RosterRests
<1> QED
  BY RosterStart, <1>1, PTL DEF RosterSpec

\* The roster has at most one shift for a person and day, and shifts, swaps and leave
\* are rows of the kinds their columns allow, whatever requests overlap, fail or stop.
THEOREM RosterTypes == RosterSpec => []RosterTypeOK
BY RosterInvariant, PTL DEF RosterInv

\* Approved leave blocks the day (saveEntry, bulkFill, copyWeek, decideSwap and
\* decideLeave): once no request is changing the roster, nobody on leave for a day is
\* on a shift that day, but for one got in return for another; if no two requests ever
\* changed the roster at a time.
THEOREM LeaveTakesTheDay == RosterSpec => []LeaveBlocks
<1>1. RosterInv => LeaveBlocks
  <2> SUFFICES ASSUME RosterInv, "roster" \notin crossed, Quietly,
                      NEW l \in Leaves \ HalfDay, leave[l] = "approved"
               PROVE  \A d \in Off[l] : Rostered(LeaveBy[l], d) \subseteq traded
    BY DEF LeaveBlocks
  <2>1. Blocked
    BY DEF RosterInv, RosterKept
  <2>2. \A c \in Desks : desk[c] # [pc |-> "off", leave |-> l]
    BY DEF Quietly, WorksOn
  <2> QED
    BY <2>1, <2>2 DEF Blocked
<1> QED
  BY RosterInvariant, <1>1, PTL

\* Leave asked for and granted stays within the year's days, nobody is on leave twice
\* on a day (requestLeave), and approved leave blocks the day; each while no two
\* requests about the leave, or the roster, overlap.
THEOREM LeaveIsKept == RosterSpec => []LeaveHolds
<1>1. RosterInv => LeaveOnce /\ LeaveWithinYear
  BY UsedIsTaken DEF RosterInv, LeaveKept, LeaveOnce, LeaveWithinYear, TakenWithinYear
<1> QED
  BY RosterInvariant, LeaveTakesTheDay, <1>1, PTL DEF LeaveHolds

-----------------------------------------------------------------------------
(* Who a shift passes to.                                                  *)

LEMMA ApplyAsAsked ==
  ASSUME RosterInv, NEW c \in Desks, ApplySwap(c), {"roster", "swaps"} \cap crossed' = {},
         NEW i \in Shifts, shift'[i] # shift[i]
  PROVE  AskedFor(i)
<1> DEFINE s == desk[c].swap
           row == desk[c].row
           mine == desk[c].mine
           theirs == desk[c].theirs
<1>1. /\ RosterTypeOK /\ DeskTypes /\ desk[c].pc = "apply" /\ crossed' = crossed
      /\ shift' = Swapped(c)
  BY DEF ApplySwap, RosterInv, SetShifts
<1>2. RosterKept /\ SwapsKept
  BY <1>1 DEF RosterInv
<1>3. Fresh(desk[c]) /\ Informed(desk[c])
  BY <1>2 DEF RosterKept, SwapsKept
<1>4. s \in Swaps /\ row \in SwapRow /\ mine \in Shift /\ theirs \in Entry
  BY <1>1, DeskKinds
<1>5. /\ swap[s] = row /\ s \in OpenSwaps /\ mine = shift[row.entry]
      /\ row.back # NoShift => theirs = shift[row.back] /\ theirs.who = row.to
  BY <1>1, <1>3, <1>4 DEF Informed, Fresh, OpenSwaps
<1>6. /\ i = row.entry \/ i = row.back
      /\ theirs.day # mine.day
  BY <1>1, <1>3, SwappedRows
<1>7. \A n \in Shifts : n = row.back => row.back # NoShift
  BY RosterAssumption
<1>8. row.back \in Shifts => row.entry # row.back
  BY <1>5, <1>6, <1>7
<1>9. row.entry \in Shifts /\ shift'[row.entry].who = row.to
  <2>1. row.entry \in Shifts
    BY <1>4 DEF SwapRow
  <2>2. shift'[row.entry] = [mine EXCEPT !.who = row.to]
    BY <1>1, <1>6, <1>8, <2>1 DEF Swapped
  <2> QED
    BY <1>4, <2>1, <2>2 DEF Shift
<1>10. row.back \in Shifts => shift'[row.back].who = row.from
  <2> SUFFICES ASSUME row.back \in Shifts PROVE shift'[row.back].who = row.from
    OBVIOUS
  <2>1. shift'[row.back] = [theirs EXCEPT !.who = row.from]
    BY <1>1, <1>6, <1>8 DEF Swapped
  <2>2. theirs \in Shift
    BY <1>1, <1>4, <1>7 DEF DeskTypes, Entry, Shift
  <2> QED
    BY <2>1, <2>2 DEF Shift
<1>11. CASE i = row.entry
  <2>1. CASE s \in stale
    BY <1>5, <1>11, <2>1 DEF AskedFor, Names
  <2>2. CASE s \notin stale
    <3>1. swap[s].from = shift[i].who /\ (swap[s].trade => swap[s].back # NoShift)
      BY <1>2, <1>5, <1>11, <2>2 DEF SwapsKept, AsAsked
    <3>2. swap[s].trade => shift'[swap[s].back].who = shift[i].who
      BY <1>4, <1>5, <1>10, <3>1 DEF SwapRow, Ids
    <3> QED
      BY <1>5, <1>9, <1>11, <3>1, <3>2 DEF AskedFor
  <2> QED
    BY <2>1, <2>2
<1>12. CASE i = row.back
  <2>1. swap[s].to = shift[i].who /\ swap[s].from = shift'[i].who
    BY <1>5, <1>7, <1>10, <1>12
  <2>2. shift'[swap[s].entry].who = shift[i].who
    BY <1>5, <1>9, <2>1
  <2> QED
    BY <1>5, <1>12, <2>1, <2>2 DEF AskedFor
<1> QED
  BY <1>6, <1>11, <1>12

\* No other step passes a shift to somebody else.
LEMMA OnlySwaps ==
  ASSUME RosterInv, [RosterNext]_rosterVars, "roster" \notin crossed',
         NEW i \in Shifts, shift[i] # NoEntry, shift'[i] # NoEntry, shift'[i] # shift[i]
  PROVE  \E c \in Desks : ApplySwap(c)
<1>0. RosterTypeOK /\ DeskTypes
  BY DEF RosterInv
<1>1. ASSUME NEW c \in Desks, desk[c].pc = "fill", SaveShift(c) PROVE FALSE
  <2>1. crossed' = crossed
    BY <1>1 DEF SaveShift
  <2>2. RosterKept /\ Fresh(desk[c]) /\ desk[c].todo \subseteq Cell
    BY <1>0, <1>1, <2>1, DeskKinds DEF RosterInv, RosterKept
  <2>3. PICK cell \in desk[c].todo, n \in Shifts :
          /\ cell[2] # {} => n \in cell[2]
          /\ cell[2] = {} => shift[n] = NoEntry
          /\ \/ shift' = [shift EXCEPT ![n] = [day |-> cell[1][2], who |-> cell[1][1]]]
             \/ shift' = shift
    <3>1. \A cell \in desk[c].todo : cell[2] \subseteq Shifts
      BY <2>2 DEF Cell
    <3> QED
      BY <1>1, <3>1 DEF SaveShift, SetShifts
  <2>4. cell[2] # {} => shift[n] = [day |-> cell[1][2], who |-> cell[1][1]]
    BY <1>1, <2>2, <2>3 DEF Fresh
  <2> QED
    BY <1>0, <2>3, <2>4 DEF RosterTypeOK
<1>2. ASSUME NEW n \in Shifts, DeleteEntry(n) PROVE FALSE
  BY <1>0, <1>2 DEF DeleteEntry, SetShifts, RosterTypeOK
<1>3. ASSUME NEW c \in Desks, OffRoster(c) PROVE FALSE
  BY <1>0, <1>3 DEF OffRoster, SetShifts, Cleared, RosterTypeOK
<1>4. CASE UNCHANGED rosterVars
  BY <1>4 DEF rosterVars
<1>5. CASE RosterNext
  <2>1. ASSUME NEW c \in Desks, NEW u \in Colleagues, NEW ds \in SUBSET RosterDays,
               BeginFill(c, {u} \X ds)
        PROVE  FALSE
    BY <2>1 DEF BeginFill, File
  <2>2. ASSUME NEW c \in Desks, FillDone(c) PROVE FALSE
    BY <2>2 DEF FillDone
  <2>3. ASSUME NEW c \in Desks, NEW s \in Swaps,
               \/ \E n \in Shifts, u \in Colleagues, b \in Ids, status \in Undecided :
                    RequestSwap(c, s, n, u, b, status)
               \/ \E status \in {"pending_manager", "rejected", "cancelled"} :
                    AnswerSwap(c, s, status)
               \/ ApproveSwap(c, s)
        PROVE  FALSE
    BY <2>3 DEF RequestSwap, AnswerSwap, ApproveSwap, File
  <2>4. ASSUME NEW c \in Desks, InsertSwap(c) \/ SaveAnswer(c) \/ SaveLeave(c) \/ LeaveDesk(c)
        PROVE  FALSE
    BY <2>4 DEF InsertSwap, SaveAnswer, SaveLeave, LeaveDesk
  <2>5. ASSUME NEW c \in Desks, NEW l \in Leaves,
               \/ RequestLeave(c, l)
               \/ \E status \in {"approved", "rejected", "cancelled"} : DecideLeave(c, l, status)
        PROVE  FALSE
    BY <2>5 DEF RequestLeave, DecideLeave, File
  <2> QED
    BY <1>1, <1>2, <1>3, <1>5, <2>1, <2>2, <2>3, <2>4, <2>5 DEF RosterNext
<1> QED
  BY <1>4, <1>5

\* A shift passes to somebody else only by an open swap and as it was asked for
\* (createSwap and decideSwap): from whoever asked to whoever was asked, and in a trade
\* the other's shift comes back; unless the swap is about a shift that changed hands or
\* went since. Whether the colleague has answered is not asked, as decideSwap does not.
\* That holds while no two requests change the roster or the swaps at a time, and
\* none stops between changing the roster and closing the swap.
THEOREM SwapsAreAsAsked == RosterSpec => SwappedAsAsked
<1>1. ASSUME RosterInv, [RosterNext]_rosterVars, {"roster", "swaps"} \cap crossed' = {}
      PROVE  \A i \in Shifts :
               (shift[i] # NoEntry /\ shift'[i] # NoEntry /\ shift'[i] # shift[i]) => AskedFor(i)
  BY <1>1, OnlySwaps, ApplyAsAsked
<1>2. RosterInv /\ [RosterNext]_rosterVars =>
        [{"roster", "swaps"} \cap crossed' = {} => \A i \in Shifts :
           (shift[i] # NoEntry /\ shift'[i] # NoEntry /\ shift'[i] # shift[i])
             => AskedFor(i)]_rosterVars
  BY <1>1
<1> QED
  BY RosterInvariant, <1>2, PTL DEF RosterSpec, SwappedAsAsked

-----------------------------------------------------------------------------
(* The four together.                                                      *)

\* A step of one part is a step of it, and leaves the other three as they are.
LEMMA ShopsSteps ==
  [ShopsNext]_shopsVars =>
    /\ [Next]_vars /\ [ShopNext]_shopVars
    /\ [OfflineNext]_offlineVars /\ [RosterNext]_rosterVars
<1>1. CASE ShopsNext
  BY <1>1 DEF ShopsNext
<1>2. CASE UNCHANGED shopsVars
  BY <1>2 DEF shopsVars
<1> QED
  BY <1>1, <1>2

\* Whatever a shop, its couriers and its staff do is a behaviour of the orders, of the
\* stock, of the offline queue and of the roster, so that every theorem about one of
\* them is one about the four.
THEOREM ShopsParts == ShopsSpec => Spec /\ ShopSpec /\ OfflineSpec /\ RosterSpec
<1>1. ShopsInit => Init /\ ShopInit /\ OfflineInit /\ RosterInit
  BY DEF ShopsInit
<1> QED
  BY <1>1, ShopsSteps, PTL DEF ShopsSpec, Spec, ShopSpec, OfflineSpec, RosterSpec

\* Orders, papers, queued sales, shifts and what requests hold of them keep their
\* types, whatever overlaps.
THEOREM ShopsTypes == ShopsSpec => []ShopsTypeOK
<1>1. TypeOK /\ ShopTypeOK /\ OfflineInv /\ RosterTypeOK => ShopsTypeOK
  BY DEF OfflineInv, ShopsTypeOK
<1> QED
  BY <1>1, ShopsParts, OrdersTypeCorrect, ShopTypesHold, OfflineInvariant, RosterTypes, PTL

\* What the composition promises, for any number of orders, sales, carts, colleagues
\* and requests, while the saves of one order do not overlap: stock and balances are
\* what the papers say, an order is settled once and keeps its corrections, a sale made
\* offline is made once, leave blocks its days, and shifts pass by open swaps.
THEOREM ShopsSafe ==
  ASSUME ~MayOverlap
  PROVE  ShopsSpec =>
           /\ CorrectionSticks /\ SwappedAsAsked
           /\ [](StockOutWhileDelivered /\ SettledOnce /\ StockAddsUp /\ CreditAddsUp)
           /\ [](SaleKept /\ SoldOnce /\ LeaveHolds)
<1>1. Spec => CorrectionSticks /\ []StockOutWhileDelivered /\ []SettledOnce
  BY CorrectionsStick, StockFollowsStatus, OrdersSettledOnce, PTL
<1>2. ShopSpec => []StockAddsUp /\ []CreditAddsUp
  BY StockIsWhatPapersSay, CreditBalances, PTL
<1>3. OfflineSpec => []SaleKept /\ []SoldOnce
  BY OfflineSalesKept, OfflineSoldOnce, PTL
<1>4. RosterSpec => SwappedAsAsked /\ []LeaveHolds
  BY SwapsAreAsAsked, LeaveIsKept, PTL
<1> QED
  BY <1>1, <1>2, <1>3, <1>4, ShopsParts, PTL
=============================================================================

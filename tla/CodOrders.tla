------------------------------ MODULE CodOrders ------------------------------
(***************************************************************************)
(* Cash-on-delivery orders: the status of an order and the stock it takes  *)
(* out, edits and deletions, the courier sync and the courier's payments.  *)
(* Handlers read an order, and later save the whole row as they read it;   *)
(* READ COMMITTED lets others commit in between. One catalogue item stands *)
(* for the stock. Its row is locked from the movement to the commit, so    *)
(* the movement and the save are one step.                                 *)
(***************************************************************************)
EXTENDS Integers, FiniteSets, Sequences

CONSTANTS
  Orders,          \* ids of cod_order rows
  Requests,        \* HTTP requests and runs of the sync, one order at a time
  Trackings,       \* tracking numbers of the courier's parcels
  Quantities,      \* catalogue quantities an order may have
  MayOverlap,      \* TRUE: an order may be written between a read and its save
  MaxStock,        \* bound: stock that staff count
  MaxRequests,     \* bound: requests, creations aside
  MaxRemittances   \* bound: payments recorded

ASSUME CodAssumption ==
  /\ Quantities \subseteq Nat /\ MayOverlap \in BOOLEAN
  /\ MaxStock \in Nat /\ MaxRequests \in Nat /\ MaxRemittances \in Nat

VARIABLES
  order,     \* cod_order rows
  lines,     \* the catalogue quantity of each order's cod_order_item rows
  stock,     \* cod_item.stock_quantity
  remitted,  \* the orders on each cod_remittance, in the order of their ids
  undone,    \* removed cod_remittance ids
  parcel,    \* what the courier says of each tracking number
  request,   \* the local variables of each request
  taken,     \* history: the stock moved out for each order, less that put back
  corrected, \* history: staff moved the order after the sync had acted on the
             \* parcel's state, and no sync was looking at it
  begun      \* requests begun, for the bound

tables == <<order, lines, stock, remitted, undone>>
history == <<taken, corrected>>
vars == <<tables, parcel, request, history, begun>>

Open == {"pending", "confirmed", "ongoing"}
Statuses == Open \union {"delivered", "returned", "cancelled"}

\* failed_attempt stands for return_started and unknown as well: none of the
\* three moves an order.
CourierStates == {"processing", "in_transit", "failed_attempt", "delivered", "returned"}

Absent == [status |-> "absent"]
Deleted == [status |-> "deleted"]
Rows == [status: Statuses, deducted: BOOLEAN, settled: 0..MaxRemittances,
         tracking: Trackings, courier: CourierStates \union {"none"}]
NewRow(t) == [status |-> "pending", deducted |-> FALSE, settled |-> 0,
              tracking |-> t, courier |-> "none"]

Exists(o) == order[o] \in Rows
Idle == [pc |-> "idle"]

Init ==
  /\ order = [o \in Orders |-> Absent]
  /\ lines = [o \in Orders |-> 0]
  /\ stock = MaxStock
  /\ remitted = <<>> /\ undone = {}
  /\ parcel = [t \in Trackings |-> "processing"]
  /\ request = [r \in Requests |-> Idle]
  /\ taken = [o \in Orders |-> 0]
  /\ corrected = [o \in Orders |-> FALSE]
  /\ begun = 0

Saving(r) == request[r].pc = "saving"
Syncing(o) == \E r \in Requests :
  request[r].pc \in {"asking", "moving", "saving", "stamping"} /\ request[r].job = "sync"
    /\ request[r].order = o

\* No request is between its read of the order and its save, or the database
\* does not care.
Free(o) == MayOverlap \/ \A r \in Requests : Saving(r) => request[r].order # o

Begin(r, locals) ==
  /\ request[r] = Idle /\ begun < MaxRequests
  /\ begun' = begun + 1
  /\ request' = [request EXCEPT ![r] = locals]
  /\ UNCHANGED <<tables, parcel, history>>

End(r) == request' = [request EXCEPT ![r] = Idle]

-----------------------------------------------------------------------------
(* The courier and the stock keeper.                                       *)

ParcelGoes(from, to) == <<from, to>> \in
  {<<"processing", "in_transit">>, <<"in_transit", "failed_attempt">>,
   <<"failed_attempt", "in_transit">>, <<"in_transit", "delivered">>,
   <<"failed_attempt", "returned">>, <<"delivered", "returned">>}

\* A parcel that the seller sent, or a sync asks about.
Sent(t) ==
  \/ \E o \in Orders : Exists(o) /\ order[o].tracking = t
  \/ \E r \in Requests : request[r].pc = "asking" /\ request[r].row.tracking = t

\* The courier scans a parcel: an order's correction was about its last state.
ParcelMoves(t, state) ==
  /\ Sent(t) /\ ParcelGoes(parcel[t], state)
  /\ parcel' = [parcel EXCEPT ![t] = state]
  /\ corrected' = [o \in Orders |-> corrected[o] /\ order[o].tracking # t]
  /\ UNCHANGED <<tables, request, taken, begun>>

\* updateItem: the form's number replaces the stock.
CountStock(n) ==
  /\ begun < MaxRequests /\ begun' = begun + 1
  /\ stock' = n
  /\ UNCHANGED <<order, lines, remitted, undone, parcel, request, history>>

-----------------------------------------------------------------------------
(* Orders.                                                                 *)

\* createOrder: inserted as pending. A requested status is a request of its own
\* that follows.
Create(o, t, q) ==
  /\ order[o] = Absent
  /\ order' = [order EXCEPT ![o] = NewRow(t)]
  /\ lines' = [lines EXCEPT ![o] = q]
  /\ UNCHANGED <<stock, remitted, undone, parcel, request, history, begun>>

\* The first query of updateOrderStatus, updateOrder, deleteOrder, setTracking
\* and markConfirmationSent.
ReadOrder(r, o, job) ==
  /\ Exists(o) /\ Free(o)
  /\ Begin(r, [pc |-> "saving", job |-> job, order |-> o, row |-> order[o]])

\* save: the row goes back as it was read, but for the changed columns. A
\* payment that was removed meanwhile is refused by the foreign key.
Storable(row) == row.settled = 0 \/ row.settled \in DOMAIN remitted \ undone

\* Mutant of StockMove: leaving delivered puts nothing back.
StockMoveOut(o, row, status) ==
  IF status = "delivered" /\ ~row.deducted THEN -lines[o] ELSE 0

\* applyStatus: what the move puts back into stock, or takes out.
StockMove(o, row, status) ==
  IF status = "delivered" /\ ~row.deducted THEN -lines[o]
  ELSE IF status # "delivered" /\ row.deducted THEN lines[o] ELSE 0

\* Mutant of InStock: stock is taken without looking.
InStockAlways(delta) == TRUE

\* moveStock takes out no more than is there: the UPDATE asks, or the
\* transaction fails with INSUFFICIENT_STOCK.
InStock(delta) == stock + delta >= 0

Moves(o, delta) ==
  /\ InStock(delta)
  /\ stock' = stock + delta
  /\ taken' = [taken EXCEPT ![o] = @ - delta]

\* applyStatus in the transaction of updateOrderStatus.
ApplyStatus(r, status) ==
  LET o == request[r].order
      row == request[r].row
  IN  /\ Storable(row) /\ row.status # status
      /\ Moves(o, StockMove(o, row, status))
      /\ order' = [order EXCEPT ![o] =
           [row EXCEPT !.status = status, !.deducted = (status = "delivered")]]
      /\ UNCHANGED <<lines, remitted, undone, parcel, begun>>

\* It is there already, or stock is missing: 409, and nothing is stored.
KeepStatus(r, status) ==
  LET o == request[r].order
      row == request[r].row
  IN  /\ row.status = status \/ ~InStock(StockMove(o, row, status))
      /\ UNCHANGED <<tables, parcel, taken, begun>>

\* updateOrderStatus by staff, alone or in bulkUpdateStatus.
SetStatus(r, status) ==
  LET o == request[r].order
  IN  /\ Saving(r) /\ request[r].job = "status" /\ End(r)
      /\ \/ /\ ApplyStatus(r, status)
            /\ corrected' = [corrected EXCEPT ![o] =
                 ~Syncing(o) /\ request[r].row.courier = parcel[request[r].row.tracking]]
         \/ KeepStatus(r, status) /\ UNCHANGED corrected

\* applyShipment: a different parcel starts its courier history afresh.
Shipped(row, t) ==
  [row EXCEPT !.tracking = t, !.courier = IF t = row.tracking THEN @ ELSE "none"]

SaveShipment(o, row, t) ==
  /\ Storable(row)
  /\ order' = [order EXCEPT ![o] = Shipped(row, t)]
  /\ corrected' = [corrected EXCEPT ![o] = @ /\ t = row.tracking]

\* updateOrder: the old quantities go back and the new ones are taken out.
EditMove(o, row, q) == IF row.deducted THEN lines[o] - q ELSE 0

UpdateOrder(r, t, q) ==
  LET o == request[r].order
      row == request[r].row
  IN  /\ Saving(r) /\ request[r].job = "edit" /\ End(r)
      /\ Moves(o, EditMove(o, row, q))
      /\ lines' = [lines EXCEPT ![o] = q]
      /\ SaveShipment(o, row, t)
      /\ UNCHANGED <<remitted, undone, parcel, begun>>

\* setTracking; markConfirmationSent saves the row with the same shipment.
SetTracking(r, t) ==
  /\ Saving(r) /\ request[r].job = "edit" /\ End(r)
  /\ SaveShipment(request[r].order, request[r].row, t)
  /\ UNCHANGED <<lines, stock, remitted, undone, parcel, taken, begun>>

\* deleteOrder: stock goes back, the lines go, and the payment's line of the
\* order loses its order_id.
DeleteOrder(r) ==
  LET o == request[r].order
  IN  /\ Saving(r) /\ request[r].job = "delete" /\ End(r)
      /\ Moves(o, IF request[r].row.deducted THEN lines[o] ELSE 0)
      /\ order' = [order EXCEPT ![o] = Deleted]
      /\ lines' = [lines EXCEPT ![o] = 0]
      /\ remitted' = [n \in DOMAIN remitted |-> remitted[n] \ {o}]
      /\ corrected' = [corrected EXCEPT ![o] = FALSE]
      /\ UNCHANGED <<undone, parcel, begun>>

-----------------------------------------------------------------------------
(* Courier sync.                                                           *)

\* syncAccount or syncOrderNow reads the order and asks the courier.
AskCourier(r, o) ==
  /\ Exists(o)
  /\ Begin(r, [pc |-> "asking", job |-> "sync", order |-> o, row |-> order[o]])

\* courierDecision: the status a new state calls for, or the one it has.
CourierDecision(current, state) ==
  CASE state = "in_transit" /\ current \in {"pending", "confirmed"} -> "ongoing"
    [] state = "delivered" /\ current \in Open -> "delivered"
    [] state = "returned" /\ current \in Open \union {"delivered"} -> "returned"
    [] OTHER -> current

\* Mutant of NewState: the last state is not looked at.
AnyState(row, state) == TRUE

\* Each state acts once.
NewState(row, state) == state # row.courier

\* syncOrder with the courier's answer about the parcel that was asked for.
CourierAnswers(r) ==
  LET row == request[r].row
      state == parcel[row.tracking]
      status == CourierDecision(row.status, state)
      next(pc) == [pc |-> pc, job |-> "sync", order |-> request[r].order,
                   state |-> state, status |-> status]
  IN  /\ request[r].pc = "asking"
      /\ request' = [request EXCEPT ![r] =
           IF ~NewState(row, state) THEN Idle
           ELSE IF status = row.status THEN next("stamping") ELSE next("moving")]
      /\ UNCHANGED <<tables, parcel, history, begun>>

\* updateOrderStatus reads the order anew; a deleted one ends the sync.
SyncReads(r) ==
  LET o == request[r].order
  IN  /\ request[r].pc = "moving" /\ Free(o) /\ Exists(o)
      /\ request' = [request EXCEPT ![r] =
           [pc |-> "saving", job |-> "sync", order |-> o, row |-> order[o],
            state |-> request[r].state, status |-> request[r].status]]
      /\ UNCHANGED <<tables, parcel, history, begun>>

SyncSaves(r) ==
  /\ Saving(r) /\ request[r].job = "sync"
  /\ ApplyStatus(r, request[r].status) \/ KeepStatus(r, request[r].status)
  /\ request' = [request EXCEPT ![r] =
       [pc |-> "stamping", job |-> "sync", order |-> request[r].order,
        state |-> request[r].state, status |-> request[r].status]]
  /\ UNCHANGED corrected

\* The last update of syncOrder names its columns; it may find no row.
Stamp(r) ==
  LET o == request[r].order
  IN  /\ request[r].pc = "stamping" /\ Free(o) /\ End(r)
      /\ order' = IF Exists(o) THEN [order EXCEPT ![o].courier = request[r].state] ELSE order
      /\ UNCHANGED <<lines, stock, remitted, undone, parcel, history, begun>>

-----------------------------------------------------------------------------
(* Courier payments.                                                       *)

\* record: the statement is checked against the orders; those that are settled
\* are left out.
CheckStatement(r, statement) ==
  LET applied == {o \in statement : Exists(o) /\ order[o].settled = 0}
  IN  /\ applied # {}
      /\ Begin(r, [pc |-> "recording", job |-> "record", orders |-> applied])

\* Mutant of StillUnsettled: the orders are not looked at again.
StillUnsettledAll(S) == S

\* The lock is there: those that another payment settled meanwhile drop out.
StillUnsettled(S) == {o \in S : order[o].settled = 0}

\* The orders are locked and looked at again. One that is deleted meanwhile is
\* refused by the foreign key of the payment's line.
RecordPayment(r) ==
  LET applied == StillUnsettled(request[r].orders)
      n == Len(remitted) + 1
  IN  /\ request[r].pc = "recording" /\ n <= MaxRemittances
      /\ \A o \in request[r].orders : Exists(o) /\ Free(o)
      /\ applied # {} /\ End(r)
      /\ remitted' = Append(remitted, applied)
      /\ order' = [o \in Orders |-> IF o \in applied THEN [order[o] EXCEPT !.settled = n]
                                    ELSE order[o]]
      /\ UNCHANGED <<lines, stock, undone, parcel, history, begun>>

\* remove: its orders are with the courier again.
RemovePayment(n) ==
  LET of == {o \in Orders : Exists(o) /\ order[o].settled = n}
  IN  /\ begun < MaxRequests /\ begun' = begun + 1
      /\ n \in DOMAIN remitted \ undone
      /\ \A o \in of : Free(o)
      /\ order' = [o \in Orders |-> IF o \in of THEN [order[o] EXCEPT !.settled = 0]
                                    ELSE order[o]]
      /\ remitted' = [remitted EXCEPT ![n] = {}]
      /\ undone' = undone \union {n}
      /\ UNCHANGED <<lines, stock, parcel, request, history>>

-----------------------------------------------------------------------------

\* A request fails: the process dies, the courier or the database answers with
\* an error, or a check refuses. An open transaction is rolled back.
Abandon(r) ==
  /\ request[r] # Idle /\ End(r)
  /\ UNCHANGED <<tables, parcel, history, begun>>

Staff(r) ==
  \/ \E o \in Orders, job \in {"status", "edit", "delete"} : ReadOrder(r, o, job)
  \/ \E status \in Statuses : SetStatus(r, status)
  \/ \E t \in Trackings : SetTracking(r, t) \/ \E q \in Quantities : UpdateOrder(r, t, q)
  \/ DeleteOrder(r)
  \/ \E S \in SUBSET Orders : CheckStatement(r, S)
  \/ RecordPayment(r)

Sync(r) ==
  \/ \E o \in Orders : AskCourier(r, o)
  \/ CourierAnswers(r) \/ SyncReads(r) \/ SyncSaves(r) \/ Stamp(r)

Next ==
  \/ \E r \in Requests : Staff(r) \/ Sync(r) \/ Abandon(r)
  \/ \E o \in Orders, t \in Trackings, q \in Quantities : Create(o, t, q)
  \/ \E n \in 1..MaxRemittances : RemovePayment(n)
  \/ \E t \in Trackings, state \in CourierStates : ParcelMoves(t, state)
  \/ \E n \in 0..MaxStock : CountStock(n)

Spec == Init /\ [][Next]_vars

-----------------------------------------------------------------------------
(* Properties.                                                             *)

Requesting ==
  {Idle}
  \union [pc: {"saving"}, job: {"status", "edit", "delete"}, order: Orders, row: Rows]
  \union [pc: {"asking"}, job: {"sync"}, order: Orders, row: Rows]
  \union [pc: {"moving", "stamping"}, job: {"sync"}, order: Orders,
          state: CourierStates, status: Statuses]
  \union [pc: {"saving"}, job: {"sync"}, order: Orders, row: Rows,
          state: CourierStates, status: Statuses]
  \union [pc: {"recording"}, job: {"record"}, orders: SUBSET Orders]

\* The rows of the cod tables and the local variables of requests; stock never
\* falls below zero.
TypeOK ==
  /\ order \in [Orders -> Rows \union {Absent, Deleted}]
  /\ lines \in [Orders -> Quantities \union {0}]
  /\ stock \in Nat
  /\ remitted \in Seq(SUBSET Orders) /\ undone \subseteq DOMAIN remitted
  /\ parcel \in [Trackings -> CourierStates]
  /\ request \in [Requests -> Requesting]
  /\ taken \in [Orders -> Int] /\ corrected \in [Orders -> BOOLEAN]
  /\ begun \in 0..MaxRequests

\* An order has taken its lines out of stock exactly while it is delivered:
\* after edits, returns, deletions, refusals, crashes and the courier's answers.
StockOutWhileDelivered ==
  \A o \in Orders :
    /\ taken[o] = IF order[o].status = "delivered" THEN lines[o] ELSE 0
    /\ Exists(o) => order[o].deducted = (order[o].status = "delivered")

\* An order is on the payment its remittance_id names and on no other, though
\* two people save overlapping statements and a third removes a payment.
SettledOnce ==
  \A o \in Orders, n \in DOMAIN remitted :
    o \in remitted[n] <=> Exists(o) /\ order[o].settled = n

\* A status that staff set once the sync had acted on the parcel's state stays
\* until the courier has something new, whatever syncs overlap or die.
CorrectionSticks ==
  [][\A r \in Requests : LET o == request[r].order IN
       (Saving(r) /\ request[r].job = "sync" /\ request'[r].pc = "stamping" /\ corrected[o])
         => order'[o].status = order[o].status]_vars
=============================================================================

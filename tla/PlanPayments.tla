---------------------------- MODULE PlanPayments ----------------------------
(***************************************************************************)
(* What one account pays for and what it may use: payments through OnePay  *)
(* and by bank slip (billing.service.ts), turning a product on             *)
(* (product-access.service.ts), and the nightly end of lapsed plans        *)
(* (super-admin.service.ts).                                               *)
(*                                                                         *)
(* OnePay's notices may be repeated and come in any order; the customer's  *)
(* return to the site asks OnePay as well.  A handler saves the payment,   *)
(* then deletes the product's subscription rows, then inserts new ones,    *)
(* with no transaction around them, and may die in between.  A super       *)
(* admin's change of the plan writes the same rows: see PlanChanges.       *)
(***************************************************************************)
EXTENDS Naturals, FiniteSets

CONSTANTS
  Payments,     \* payment_transaction rows that may be made
  Plan,         \* package of a payment
  Product,      \* product of a package
  Slips,        \* the payments made by bank transfer, the others use OnePay
  TopUp,        \* the package that only adds orders to the month
  TopUpPlan,    \* the package a top-up can be bought on
  Trial, Free,  \* rows that no payment stands behind
  PayCalls,     \* requests in flight at one time
  MaxPayCalls,  \* bound: requests in all
  MaxPayFails,  \* bound: handlers that die half way
  MaxNights     \* bound: runs of the nightly job

Packages == {Plan[p] : p \in Payments}
Products == {Product[k] : k \in Packages}

ASSUME PlanAssumption ==
  /\ Packages \subseteq DOMAIN Product
  /\ "cod" \in Products \/ Products = {}
  /\ Slips \subseteq Payments
  /\ {Trial, Free} \cap Payments = {}
  /\ {MaxPayCalls, MaxPayFails, MaxNights} \subseteq Nat

VARIABLES
  payment,    \* payment_transaction.status, "none" before the row exists
  captured,   \* external: payments OnePay took the money for, slips approved
  notices,    \* external: what OnePay has said of a payment, to be told again
  rows,       \* the account's subscription rows
  topups,     \* cod_order_topup: how many rows of this payment_ref
  account,    \* tenant.status
  handler,    \* the locals of each request
  night,      \* the locals of the nightly job
  begun,      \* [calls, fails, nights], for the bounds
  raced       \* history: products two requests were at work on at a time

planVars == <<payment, captured, notices, rows, topups, account, handler, night, begun, raced>>

Waiting == [pc |-> "idle"]
Lapsed == {r \in rows : r.active /\ r.over /\ r.by \in Payments}

PlanInit ==
  /\ payment = [p \in Payments |-> "none"]
  /\ captured = {} /\ notices = {} /\ rows = {}
  /\ topups = [p \in Payments |-> 0]
  /\ account = "active"
  /\ handler = [c \in PayCalls |-> Waiting]
  /\ night = [pc |-> "day"]
  /\ begun = [calls |-> 0, fails |-> 0, nights |-> 0]
  /\ raced = {}

\* A row counts while it is active; for COD also when it is over, for the others not.
Access(product) ==
  \E r \in rows : r.product = product /\ r.active /\ (product = "cod" \/ ~r.over)

-----------------------------------------------------------------------------
(* Requests.                                                               *)

About(c, product) == handler[c] # Waiting /\ handler[c].product = product

Start(c, product, locals) ==
  /\ handler[c] = Waiting /\ begun.calls < MaxPayCalls
  /\ begun' = [begun EXCEPT !.calls = @ + 1]
  /\ handler' = [handler EXCEPT ![c] = locals]
  /\ raced' = IF \E d \in PayCalls : About(d, product) THEN raced \union {product} ELSE raced

ProductOf(p) == Product[Plan[p]]
\* Mutant of Serving: the package is taken for the product.
ServingPlan(p, pc) == [pc |-> pc, pay |-> p, product |-> Plan[p]]

Serving(p, pc) == [pc |-> pc, pay |-> p, product |-> ProductOf(p)]

\* assertCanBuy: a top-up needs a current paid row of the plan it extends. A COD
\* package may be retired at any time, and sold again: the refusal of a retired one
\* is no step, and nothing that is sold must be bought.
CanBuy(p) ==
  Plan[p] = TopUp =>
    \E r \in rows : r.active /\ ~r.over /\ r.by \in Payments /\ Plan[r.by] = TopUpPlan

\* initiateOnepay up to the redirect: the row, and the page the customer pays on. A
\* row whose page OnePay refused can never be paid, and is left out.
InitiateOnepay(p) ==
  /\ p \notin Slips /\ payment[p] = "none" /\ CanBuy(p)
  /\ payment' = [payment EXCEPT ![p] = "pending"]
  /\ UNCHANGED <<captured, notices, rows, topups, account, handler, night, begun, raced>>

\* One pending slip per product.
BeginSlip(c, p) ==
  /\ p \in Slips /\ payment[p] = "none" /\ CanBuy(p)
  /\ \A q \in Slips : ProductOf(q) = ProductOf(p) => payment[q] # "pending"
  /\ \A d \in PayCalls : handler[d] # Serving(p, "slip")
  /\ Start(c, ProductOf(p), Serving(p, "slip"))
  /\ UNCHANGED <<payment, captured, notices, rows, topups, account, night>>

\* Mutant of Reported: every notice is one of success.
ReportedGood(success) == "complete"

Reported(success) == IF success THEN "complete" ELSE "fail"

\* handleOnepayWebhook, as far as reading the row: whatever its status is.
BeginWebhook(c, p, success) ==
  /\ <<p, success>> \in notices
  /\ Start(c, ProductOf(p), Serving(p, Reported(success)))
  /\ UNCHANGED <<payment, captured, notices, rows, topups, account, night>>

\* verifyOnepayReturn: a completed payment is left alone, another is asked about.
BeginVerify(c, p) ==
  /\ p \in captured \ Slips /\ payment[p] \notin {"none", "completed"}
  /\ Start(c, ProductOf(p), Serving(p, "complete"))
  /\ UNCHANGED <<payment, captured, notices, rows, topups, account, night>>

BeginApprove(c, p) ==
  /\ p \in Slips /\ payment[p] = "pending"
  /\ Start(c, ProductOf(p), Serving(p, "approve"))
  /\ UNCHANGED <<payment, captured, notices, rows, topups, account, night>>

BeginReject(c, p) ==
  /\ p \in Slips /\ payment[p] = "pending"
  /\ Start(c, ProductOf(p), Serving(p, "fail"))
  /\ UNCHANGED <<payment, captured, notices, rows, topups, account, night>>

Enabled(product) == IF product = "pos" THEN "active" ELSE account

\* enableProduct, for a product the account has no row of. A shop's account is made
\* active first, whether it has one or not.
BeginEnable(c, product) ==
  /\ ~\E r \in rows : r.product = product
  /\ Start(c, product, [pc |-> "enable", product |-> product])
  /\ account' = Enabled(product)
  /\ UNCHANGED <<payment, captured, notices, rows, topups, night>>

EnableAgain(product) ==
  /\ \E r \in rows : r.product = product
  /\ account' = Enabled(product)
  /\ UNCHANGED <<payment, captured, notices, rows, topups, handler, night, begun, raced>>

-----------------------------------------------------------------------------
(* Their writes.                                                           *)

Goto(c, pc) == handler' = [handler EXCEPT ![c].pc = pc]
Answer(c) == handler' = [handler EXCEPT ![c] = Waiting]
SetPayment(c, status) == payment' = [payment EXCEPT ![handler[c].pay] = status]

InsertSlip(c) ==
  /\ handler[c].pc = "slip" /\ SetPayment(c, "pending") /\ Answer(c)
  /\ UNCHANGED <<captured, notices, rows, topups, account, night, begun, raced>>

\* The payment is saved; then it is applied.
SaveCompleted(c) ==
  /\ handler[c].pc \in {"complete", "approve"}
  /\ SetPayment(c, "completed")
  /\ captured' = IF handler[c].pc = "approve" THEN captured \union {handler[c].pay} ELSE captured
  /\ account' = IF handler[c].pc = "approve" THEN "active" ELSE account
  /\ Goto(c, "apply")
  /\ UNCHANGED <<notices, rows, topups, night, begun, raced>>

SaveFailed(c) ==
  /\ handler[c].pc = "fail" /\ SetPayment(c, "failed") /\ Answer(c)
  /\ UNCHANGED <<captured, notices, rows, topups, account, night, begun, raced>>

Added(p) == topups[p] > 0

\* activateSubscription for a top-up: nothing to do, or a row to insert.
FindTopUp(c) ==
  LET p == handler[c].pay
  IN /\ handler[c].pc = "apply" /\ Plan[p] = TopUp
     /\ IF Added(p) THEN Answer(c) ELSE Goto(c, "topup")
     /\ UNCHANGED <<payment, captured, notices, rows, topups, account, night, begun, raced>>

InsertTopUp(c) ==
  /\ handler[c].pc = "topup" /\ Answer(c)
  /\ topups' = [topups EXCEPT ![handler[c].pay] = @ + 1]
  /\ UNCHANGED <<payment, captured, notices, rows, account, night, begun, raced>>

\* Mutant of Replaced: a free or trial row stays.
ReplacedPaid(product) == {r \in rows : r.product = product /\ r.by \in Payments}

Replaced(product) == {r \in rows : r.product = product}

\* activateSubscription for a plan: the old rows of its product go first.
DeleteRows(c) ==
  LET p == handler[c].pay
  IN /\ handler[c].pc = "apply" /\ Plan[p] # TopUp
     /\ rows' = rows \ Replaced(ProductOf(p))
     /\ Goto(c, "insert")
     /\ UNCHANGED <<payment, captured, notices, topups, account, night, begun, raced>>

NewRow(product, by) ==
  [product |-> product, by |-> by, active |-> TRUE, over |-> FALSE, id |-> begun.calls]

InsertRows(c) ==
  /\ handler[c].pc = "insert" /\ Answer(c)
  /\ rows' = rows \union {NewRow(handler[c].product, handler[c].pay)}
  /\ UNCHANGED <<payment, captured, notices, topups, account, night, begun, raced>>

\* A trial, or COD Free.
InsertFirst(c) ==
  LET product == handler[c].product
  IN /\ handler[c].pc = "enable" /\ Answer(c)
     /\ rows' = rows \union {NewRow(product, IF product = "cod" THEN Free ELSE Trial)}
     /\ UNCHANGED <<payment, captured, notices, topups, account, night, begun, raced>>

PayFail(c) ==
  /\ handler[c] # Waiting /\ begun.fails < MaxPayFails
  /\ begun' = [begun EXCEPT !.fails = @ + 1]
  /\ Answer(c)
  /\ UNCHANGED <<payment, captured, notices, rows, topups, account, night, raced>>

-----------------------------------------------------------------------------
(* Time, the nightly job, and OnePay, which is external.                   *)

\* Everything but COD Free ends some day.
RunOut(r) ==
  /\ ~r.over /\ r.by # Free
  /\ rows' = (rows \ {r}) \union {[r EXCEPT !.over = TRUE]}
  /\ UNCHANGED <<payment, captured, notices, topups, account, handler, night, begun, raced>>

FindLapsed ==
  /\ night.pc = "day" /\ begun.nights < MaxNights /\ Lapsed # {}
  /\ begun' = [begun EXCEPT !.nights = @ + 1]
  /\ night' = [pc |-> "rows", left |-> Lapsed, told |-> FALSE]
  /\ UNCHANGED <<payment, captured, notices, rows, topups, account, handler, raced>>

\* save() of a row as it was read, also when it was deleted in the meantime.
EndPlan(r) ==
  /\ night.pc = "rows" /\ r \in night.left
  /\ rows' = (rows \ {r}) \union {[r EXCEPT !.active = FALSE]}
  /\ night' = [night EXCEPT !.left = @ \ {r}, !.pc = IF night.told THEN "rows" ELSE "tenant"]
  /\ UNCHANGED <<payment, captured, notices, topups, account, handler, begun, raced>>

Suspend ==
  /\ night.pc = "tenant"
  /\ account' = "suspended"
  /\ night' = [night EXCEPT !.pc = "rows", !.told = TRUE]
  /\ UNCHANGED <<payment, captured, notices, rows, topups, handler, begun, raced>>

NightDone ==
  /\ night.pc = "rows" /\ night.left = {}
  /\ night' = [pc |-> "day"]
  /\ UNCHANGED <<payment, captured, notices, rows, topups, account, handler, begun, raced>>

\* The customer pays, or is declined and may try again on the same page.
OnePayAnswers(p, success) ==
  /\ p \notin Slips \union captured /\ payment[p] # "none"
  /\ captured' = IF success THEN captured \union {p} ELSE captured
  /\ notices' = notices \union {<<p, success>>}
  /\ UNCHANGED <<payment, rows, topups, account, handler, night, begun, raced>>

PlanNext ==
  \/ \E p \in Payments : InitiateOnepay(p) \/ \E ok \in BOOLEAN : OnePayAnswers(p, ok)
  \/ \E c \in PayCalls :
       \/ \E p \in Payments :
            \/ BeginSlip(c, p) \/ BeginVerify(c, p) \/ BeginApprove(c, p) \/ BeginReject(c, p)
            \/ \E ok \in BOOLEAN : BeginWebhook(c, p, ok)
       \/ \E product \in Products : BeginEnable(c, product)
       \/ InsertSlip(c) \/ SaveCompleted(c) \/ SaveFailed(c)
       \/ FindTopUp(c) \/ InsertTopUp(c) \/ DeleteRows(c) \/ InsertRows(c) \/ InsertFirst(c)
       \/ PayFail(c)
  \/ \E product \in Products : EnableAgain(product)
  \/ \E r \in rows : RunOut(r)
  \/ FindLapsed \/ (night.pc = "rows" /\ \E r \in night.left : EndPlan(r))
  \/ Suspend \/ NightDone

PlanSpec == PlanInit /\ [][PlanNext]_planVars

-----------------------------------------------------------------------------
(* Properties.                                                             *)

SubscriptionRow ==
  [product: Products, by: Payments \union {Trial, Free}, active: BOOLEAN, over: BOOLEAN, id: Nat]
HandlerState ==
  {Waiting} \union [pc: {"enable"}, product: Products]
    \union [pc: {"slip", "complete", "approve", "fail", "apply", "topup", "insert"},
            pay: Payments, product: Products]

\* The rows of payment_transaction, subscription and cod_order_topup, and locals.
PlanTypeOK ==
  /\ payment \in [Payments -> {"none", "pending", "completed", "failed"}]
  /\ captured \subseteq Payments /\ notices \subseteq Payments \X BOOLEAN
  /\ rows \subseteq SubscriptionRow
  /\ topups \in [Payments -> Nat] /\ account \in {"active", "suspended"}
  /\ handler \in [PayCalls -> HandlerState]
  /\ \/ night = [pc |-> "day"]
     \/ night \in [pc: {"rows", "tenant"}, left: SUBSET SubscriptionRow, told: BOOLEAN]
  /\ begun \in [calls: Nat, fails: Nat, nights: Nat] /\ raced \subseteq Products

\* Nothing is given for money that never came: a plan or orders that name a
\* payment are there only if OnePay took it or an administrator approved its slip.
PaidForPlan ==
  /\ \A r \in rows : r.by \in Payments => r.by \in captured
  /\ \A p \in Payments : topups[p] > 0 => p \in captured

\* However often and by whichever way a payment is reported, and wherever a
\* handler died, its orders are added once and the account is never on two plans of
\* a product; unless two requests about the product overlapped.
ActivatedOnce ==
  /\ \A p \in Payments : ProductOf(p) \notin raced => topups[p] <= 1
  /\ \A product \in Products \ raced :
       \A r, s \in rows : (r.product = product /\ s.product = product /\ r.active /\ s.active)
                            => r = s

\* The comment in getAccess and PLATFORM.md: COD does not lock. Once there is a
\* row and no request is replacing it, the account can use COD.
LapsedCodStaysOpen ==
  ((\E r \in rows : r.product = "cod") /\ \A c \in PayCalls : handler[c] = Waiting)
    => Access("cod")
=============================================================================

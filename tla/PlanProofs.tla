----------------------------- MODULE PlanProofs -----------------------------
(***************************************************************************)
(* What an account pays for and what it gets, for any number of payments,  *)
(* products, requests and nights: nothing is given without money, and a    *)
(* payment is applied once (PlanPayments); a coupon keeps its limit and    *)
(* people are told of the plan they are on (PlanChanges).                  *)
(***************************************************************************)
EXTENDS PlanPayments, PlanChanges, WellFoundedInduction, TLAPS

-----------------------------------------------------------------------------
(* PlanPayments: types.                                                    *)

PaymentStatuses == {"none", "pending", "completed", "failed"}
Paying == [pc: {"slip", "complete", "approve", "fail", "apply", "topup", "insert"},
           pay: Payments, product: Products]
NightState == [pc: {"rows", "tenant"}, left: SUBSET SubscriptionRow, told: BOOLEAN]

LEMMA PlanInitTypes == PlanInit => PlanTypeOK
  BY DEF PlanInit, PlanTypeOK, HandlerState, Waiting

\* What a request that is under way holds, by the step it is at.
LEMMA HandlerFields ==
  ASSUME PlanTypeOK, NEW c \in PayCalls
  PROVE  /\ handler[c].pc \in {"slip", "complete", "approve", "fail", "apply", "topup", "insert"}
              => handler[c] \in Paying
         /\ handler[c].pc = "enable" => handler[c] \in [pc: {"enable"}, product: Products]
         /\ handler[c] # Waiting => handler[c].product \in Products /\ handler[c].pc # "idle"
  BY DEF PlanTypeOK, HandlerState, Paying, Waiting

LEMMA ServingType ==
  ASSUME NEW p \in Payments
  PROVE  /\ ProductOf(p) \in Products
         /\ \A pc \in {"slip", "complete", "approve", "fail"} : Serving(p, pc) \in Paying
  BY DEF Products, Packages, ProductOf, Serving, Paying

\* A request begins.
LEMMA StartTypes ==
  ASSUME PlanTypeOK, NEW c \in PayCalls, NEW product \in Products, NEW locals \in HandlerState,
         Start(c, product, locals)
  PROVE  /\ handler' \in [PayCalls -> HandlerState]
         /\ begun' \in [calls: Nat, fails: Nat, nights: Nat]
         /\ raced' \subseteq Products
  BY DEF Start, PlanTypeOK

\* A request goes on, or is answered.
LEMMA GotoTypes ==
  ASSUME PlanTypeOK, NEW c \in PayCalls, handler[c] \in Paying,
         NEW pc \in {"apply", "topup", "insert"}, Goto(c, pc)
  PROVE  handler' \in [PayCalls -> HandlerState]
<1>1. [handler[c] EXCEPT !.pc = pc] \in HandlerState
  BY DEF Paying, HandlerState
<1> QED
  BY <1>1 DEF Goto, PlanTypeOK

LEMMA AnswerTypes ==
  ASSUME PlanTypeOK, NEW c \in PayCalls, Answer(c)
  PROVE  handler' \in [PayCalls -> HandlerState]
  BY DEF Answer, PlanTypeOK, HandlerState

LEMMA NewRowType ==
  ASSUME PlanTypeOK, NEW product \in Products, NEW by \in Payments \union {Trial, Free}
  PROVE  NewRow(product, by) \in SubscriptionRow
  BY DEF NewRow, SubscriptionRow, PlanTypeOK

\* The requests that only read before they write, and the step they begin at.
Begins(c, p) ==
  BeginSlip(c, p) \/ BeginVerify(c, p) \/ BeginApprove(c, p) \/ BeginReject(c, p)
    \/ \E ok \in BOOLEAN : BeginWebhook(c, p, ok)

LEMMA BeginsAt ==
  ASSUME NEW c \in PayCalls, NEW p \in Payments, Begins(c, p)
  PROVE  \E pc \in {"slip", "complete", "approve", "fail"} :
           /\ Start(c, ProductOf(p), Serving(p, pc))
           /\ pc = "complete" => p \in captured \/ <<p, TRUE>> \in notices
           /\ UNCHANGED <<payment, captured, notices, rows, topups, account, night>>
<1>1. ASSUME NEW ok \in BOOLEAN, BeginWebhook(c, p, ok)
      PROVE  /\ Start(c, ProductOf(p), Serving(p, IF ok THEN "complete" ELSE "fail"))
             /\ ok => <<p, TRUE>> \in notices
             /\ UNCHANGED <<payment, captured, notices, rows, topups, account, night>>
  BY <1>1 DEF BeginWebhook, Reported
<1> QED
  BY <1>1 DEF Begins, BeginSlip, BeginVerify, BeginApprove, BeginReject

\* A step of PlanNext, action by action.
LEMMA PlanCases ==
  ASSUME PlanNext
  PROVE  \/ \E p \in Payments : InitiateOnepay(p)
         \/ \E p \in Payments, ok \in BOOLEAN : OnePayAnswers(p, ok)
         \/ \E c \in PayCalls, p \in Payments : Begins(c, p)
         \/ \E c \in PayCalls, product \in Products : BeginEnable(c, product)
         \/ \E c \in PayCalls : InsertSlip(c) \/ SaveFailed(c) \/ PayFail(c)
         \/ \E c \in PayCalls : SaveCompleted(c)
         \/ \E c \in PayCalls : FindTopUp(c)
         \/ \E c \in PayCalls : InsertTopUp(c)
         \/ \E c \in PayCalls : DeleteRows(c)
         \/ \E c \in PayCalls : InsertRows(c)
         \/ \E c \in PayCalls : InsertFirst(c)
         \/ \E product \in Products : EnableAgain(product)
         \/ \E r \in rows : RunOut(r)
         \/ FindLapsed
         \/ night.pc = "rows" /\ \E r \in night.left : EndPlan(r)
         \/ Suspend \/ NightDone
  BY Zenon DEF PlanNext, Begins

LEMMA PlanStepTypes == PlanTypeOK /\ [PlanNext]_planVars => PlanTypeOK'
<1> SUFFICES ASSUME PlanTypeOK, [PlanNext]_planVars PROVE PlanTypeOK'
  OBVIOUS
<1>1. CASE UNCHANGED planVars
  BY <1>1 DEF planVars, PlanTypeOK
<1>2. ASSUME NEW p \in Payments, InitiateOnepay(p)
      PROVE  PlanTypeOK'
  BY <1>2 DEF InitiateOnepay, PlanTypeOK
<1>3. ASSUME NEW p \in Payments, NEW ok \in BOOLEAN, OnePayAnswers(p, ok)
      PROVE  PlanTypeOK'
  BY <1>3 DEF OnePayAnswers, PlanTypeOK
<1>4. ASSUME NEW c \in PayCalls, NEW p \in Payments, Begins(c, p)
      PROVE  PlanTypeOK'
  <2>1. PICK pc \in {"slip", "complete", "approve", "fail"} :
          /\ Start(c, ProductOf(p), Serving(p, pc))
          /\ UNCHANGED <<payment, captured, notices, rows, topups, account, night>>
    BY <1>4, BeginsAt
  <2>2. ProductOf(p) \in Products /\ Serving(p, pc) \in HandlerState
    BY ServingType DEF HandlerState, Paying
  <2> QED
    BY <2>1, <2>2, StartTypes DEF PlanTypeOK
<1>5. ASSUME NEW c \in PayCalls, NEW product \in Products, BeginEnable(c, product)
      PROVE  PlanTypeOK'
  <2>1. [pc |-> "enable", product |-> product] \in HandlerState
    BY DEF HandlerState
  <2> QED
    BY <1>5, <2>1, StartTypes DEF BeginEnable, Enabled, PlanTypeOK
<1>6. ASSUME NEW c \in PayCalls, InsertSlip(c) \/ SaveFailed(c) \/ PayFail(c)
      PROVE  PlanTypeOK'
  <2>1. Answer(c) /\ (payment' = payment \/ \E st \in PaymentStatuses : SetPayment(c, st))
    BY <1>6 DEF InsertSlip, SaveFailed, PayFail, PaymentStatuses
  <2>2. handler' \in [PayCalls -> HandlerState]
    BY <2>1, AnswerTypes
  <2>3. payment' \in [Payments -> PaymentStatuses]
    BY <2>1 DEF SetPayment, PlanTypeOK, PaymentStatuses
  <2> QED
    BY <1>6, <2>2, <2>3 DEF InsertSlip, SaveFailed, PayFail, PlanTypeOK, PaymentStatuses
<1>7. ASSUME NEW c \in PayCalls, SaveCompleted(c)
      PROVE  PlanTypeOK'
  <2>1. handler[c] \in Paying
    BY <1>7, HandlerFields DEF SaveCompleted
  <2>2. handler' \in [PayCalls -> HandlerState]
    BY <1>7, <2>1, GotoTypes DEF SaveCompleted
  <2>3. payment' \in [Payments -> PaymentStatuses] /\ captured' \subseteq Payments
    BY <1>7, <2>1 DEF SaveCompleted, SetPayment, PlanTypeOK, PaymentStatuses, Paying
  <2> QED
    BY <1>7, <2>2, <2>3 DEF SaveCompleted, PlanTypeOK, PaymentStatuses
<1>8. ASSUME NEW c \in PayCalls, FindTopUp(c) \/ InsertTopUp(c)
      PROVE  PlanTypeOK'
  <2>1. handler[c] \in Paying
    BY <1>8, HandlerFields DEF FindTopUp, InsertTopUp
  <2>2. handler' \in [PayCalls -> HandlerState]
    BY <1>8, <2>1, GotoTypes, AnswerTypes DEF FindTopUp, InsertTopUp
  <2>3. topups' \in [Payments -> Nat]
    BY <1>8, <2>1 DEF FindTopUp, InsertTopUp, PlanTypeOK, Paying
  <2> QED
    BY <1>8, <2>2, <2>3 DEF FindTopUp, InsertTopUp, PlanTypeOK
<1>9. ASSUME NEW c \in PayCalls, DeleteRows(c) \/ InsertRows(c)
      PROVE  PlanTypeOK'
  <2>1. handler[c] \in Paying
    BY <1>9, HandlerFields DEF DeleteRows, InsertRows
  <2>2. handler' \in [PayCalls -> HandlerState]
    BY <1>9, <2>1, GotoTypes, AnswerTypes DEF DeleteRows, InsertRows
  <2>3. rows' \subseteq SubscriptionRow
    BY <1>9, <2>1, NewRowType DEF DeleteRows, InsertRows, PlanTypeOK, Paying
  <2> QED
    BY <1>9, <2>2, <2>3 DEF DeleteRows, InsertRows, PlanTypeOK
<1>10. ASSUME NEW c \in PayCalls, InsertFirst(c)
       PROVE  PlanTypeOK'
  <2>1. handler[c].product \in Products
    BY <1>10, HandlerFields DEF InsertFirst
  <2>2. handler' \in [PayCalls -> HandlerState]
    BY <1>10, AnswerTypes DEF InsertFirst
  <2>3. rows' \subseteq SubscriptionRow
    BY <1>10, <2>1, NewRowType DEF InsertFirst, PlanTypeOK
  <2> QED
    BY <1>10, <2>2, <2>3 DEF InsertFirst, PlanTypeOK
<1>11. ASSUME NEW product \in Products, EnableAgain(product)
       PROVE  PlanTypeOK'
  BY <1>11 DEF EnableAgain, Enabled, PlanTypeOK
<1>12. ASSUME NEW r \in rows, RunOut(r)
       PROVE  PlanTypeOK'
  BY <1>12 DEF RunOut, PlanTypeOK, SubscriptionRow
<1>13. CASE FindLapsed
  BY <1>13 DEF FindLapsed, Lapsed, PlanTypeOK
<1>14. ASSUME night.pc = "rows", NEW r \in night.left, EndPlan(r)
       PROVE  PlanTypeOK'
  <2>1. night \in NightState
    BY <1>14 DEF PlanTypeOK, NightState
  <2>2. rows' \subseteq SubscriptionRow /\ night' \in NightState
    BY <1>14, <2>1 DEF EndPlan, PlanTypeOK, NightState, SubscriptionRow
  <2> QED
    BY <1>14, <2>2 DEF EndPlan, PlanTypeOK, NightState
<1>15. CASE Suspend \/ NightDone
  <2>1. CASE Suspend
    <3>1. night \in NightState
      BY <2>1 DEF Suspend, PlanTypeOK, NightState
    <3>2. night' \in NightState
      BY <2>1, <3>1 DEF Suspend, NightState
    <3> QED
      BY <2>1, <3>2 DEF Suspend, PlanTypeOK, NightState
  <2>2. CASE NightDone
    BY <2>2 DEF NightDone, PlanTypeOK
  <2> QED
    BY <1>15, <2>1, <2>2
<1> QED
  BY <1>1, <1>2, <1>3, <1>4, <1>5, <1>6, <1>7, <1>8, <1>9, <1>10, <1>11, <1>12, <1>13, <1>14,
     <1>15, PlanCases

\* The rows of payment_transaction, subscription and cod_order_topup keep their types.
THEOREM PlanTypes == PlanSpec => []PlanTypeOK
  BY PlanInitTypes, PlanStepTypes, PTL DEF PlanSpec

-----------------------------------------------------------------------------
(* Nothing is given for money that never came.                             *)

NoticePaid == \A p \in Payments : <<p, TRUE>> \in notices => p \in captured
HandlerPaid ==
  \A c \in PayCalls :
    handler[c].pc \in {"complete", "apply", "topup", "insert"} => handler[c].pay \in captured
AllPaid(S) == \A r \in S : r.by \in Payments => r.by \in captured
NightPaid == night.pc # "day" => AllPaid(night.left)
TopUpsPaid == \A p \in Payments : topups[p] > 0 => p \in captured

PaidInv ==
  /\ PlanTypeOK
  /\ NoticePaid /\ HandlerPaid /\ AllPaid(rows) /\ NightPaid /\ TopUpsPaid

LEMMA PlanPaidInit == PlanInit => PaidInv
  BY PlanInitTypes
     DEF PlanInit, PaidInv, NoticePaid, HandlerPaid, AllPaid, NightPaid, TopUpsPaid, Waiting

\* A step that leaves money and what was given for it alone, and whose handler c
\* only ends.
LEMMA PaidAnswer ==
  ASSUME PaidInv, NEW c \in PayCalls, Answer(c)
  PROVE  \A d \in PayCalls :
           handler'[d].pc \in {"complete", "apply", "topup", "insert"}
             => handler'[d].pay \in captured
  BY DEF Answer, PaidInv, HandlerPaid, PlanTypeOK, Waiting

LEMMA PaidGoto ==
  ASSUME PaidInv, NEW c \in PayCalls, NEW pc \in {"apply", "topup", "insert"}, Goto(c, pc),
         handler[c] \in Paying, handler[c].pay \in captured'
  PROVE  \A d \in PayCalls :
           handler'[d].pc \in {"complete", "apply", "topup", "insert"}
             => handler'[d].pay \in captured \union captured'
<1>1. handler' = [handler EXCEPT ![c] = [handler[c] EXCEPT !.pc = pc]]
  BY DEF Goto
<1> QED
  BY <1>1 DEF PaidInv, HandlerPaid, PlanTypeOK, Paying

LEMMA PaidStep == PaidInv /\ [PlanNext]_planVars => PaidInv'
<1> SUFFICES ASSUME PaidInv, [PlanNext]_planVars
             PROVE  NoticePaid' /\ HandlerPaid' /\ AllPaid(rows)' /\ NightPaid' /\ TopUpsPaid'
  BY PlanStepTypes DEF PaidInv
<1> USE DEF NoticePaid, HandlerPaid, AllPaid, NightPaid, TopUpsPaid
<1>1. CASE UNCHANGED planVars
  BY <1>1 DEF planVars, PaidInv
<1>2. ASSUME NEW p \in Payments, InitiateOnepay(p)
      PROVE  NoticePaid' /\ HandlerPaid' /\ AllPaid(rows)' /\ NightPaid' /\ TopUpsPaid'
  BY <1>2 DEF InitiateOnepay, PaidInv
<1>3. ASSUME NEW p \in Payments, NEW ok \in BOOLEAN, OnePayAnswers(p, ok)
      PROVE  NoticePaid' /\ HandlerPaid' /\ AllPaid(rows)' /\ NightPaid' /\ TopUpsPaid'
  BY <1>3 DEF OnePayAnswers, PaidInv
<1>4. ASSUME NEW c \in PayCalls, NEW p \in Payments, Begins(c, p)
      PROVE  NoticePaid' /\ HandlerPaid' /\ AllPaid(rows)' /\ NightPaid' /\ TopUpsPaid'
  <2>1. PICK pc \in {"slip", "complete", "approve", "fail"} :
          /\ Start(c, ProductOf(p), Serving(p, pc))
          /\ pc = "complete" => p \in captured \/ <<p, TRUE>> \in notices
          /\ UNCHANGED <<payment, captured, notices, rows, topups, account, night>>
    BY <1>4, BeginsAt
  <2>2. pc = "complete" => p \in captured
    BY <2>1 DEF PaidInv
  <2>3. HandlerPaid'
    BY <2>1, <2>2 DEF Start, Serving, PaidInv, PlanTypeOK
  <2> QED
    BY <2>1, <2>3 DEF PaidInv
<1>5. ASSUME NEW c \in PayCalls, NEW product \in Products, BeginEnable(c, product)
      PROVE  NoticePaid' /\ HandlerPaid' /\ AllPaid(rows)' /\ NightPaid' /\ TopUpsPaid'
  BY <1>5 DEF BeginEnable, Start, PaidInv, PlanTypeOK
<1>6. ASSUME NEW c \in PayCalls, InsertSlip(c) \/ SaveFailed(c) \/ PayFail(c)
      PROVE  NoticePaid' /\ HandlerPaid' /\ AllPaid(rows)' /\ NightPaid' /\ TopUpsPaid'
  BY <1>6, PaidAnswer DEF InsertSlip, SaveFailed, PayFail, PaidInv
<1>7. ASSUME NEW c \in PayCalls, SaveCompleted(c)
      PROVE  NoticePaid' /\ HandlerPaid' /\ AllPaid(rows)' /\ NightPaid' /\ TopUpsPaid'
  <2>1. handler[c] \in Paying
    BY <1>7, HandlerFields DEF SaveCompleted, PaidInv
  <2>2. captured \subseteq captured' /\ handler[c].pay \in captured'
    BY <1>7 DEF SaveCompleted, PaidInv
  <2>3. HandlerPaid'
    BY <1>7, <2>1, <2>2, PaidGoto DEF SaveCompleted
  <2> QED
    BY <1>7, <2>2, <2>3 DEF SaveCompleted, PaidInv
<1>8. ASSUME NEW c \in PayCalls, FindTopUp(c)
      PROVE  NoticePaid' /\ HandlerPaid' /\ AllPaid(rows)' /\ NightPaid' /\ TopUpsPaid'
  <2>1. handler[c] \in Paying /\ handler[c].pay \in captured
    BY <1>8, HandlerFields DEF FindTopUp, PaidInv
  <2>2. HandlerPaid'
    BY <1>8, <2>1, PaidGoto, PaidAnswer DEF FindTopUp
  <2> QED
    BY <1>8, <2>2 DEF FindTopUp, PaidInv
<1>9. ASSUME NEW c \in PayCalls, InsertTopUp(c)
      PROVE  NoticePaid' /\ HandlerPaid' /\ AllPaid(rows)' /\ NightPaid' /\ TopUpsPaid'
  <2>1. handler[c].pay \in captured
    BY <1>9 DEF InsertTopUp, PaidInv
  <2> QED
    BY <1>9, <2>1, PaidAnswer DEF InsertTopUp, PaidInv, PlanTypeOK
<1>10. ASSUME NEW c \in PayCalls, DeleteRows(c)
       PROVE  NoticePaid' /\ HandlerPaid' /\ AllPaid(rows)' /\ NightPaid' /\ TopUpsPaid'
  <2>1. handler[c] \in Paying /\ handler[c].pay \in captured
    BY <1>10, HandlerFields DEF DeleteRows, PaidInv
  <2>2. HandlerPaid'
    BY <1>10, <2>1, PaidGoto DEF DeleteRows
  <2> QED
    BY <1>10, <2>2 DEF DeleteRows, PaidInv
<1>11. ASSUME NEW c \in PayCalls, InsertRows(c)
       PROVE  NoticePaid' /\ HandlerPaid' /\ AllPaid(rows)' /\ NightPaid' /\ TopUpsPaid'
  <2>1. handler[c].pay \in captured
    BY <1>11 DEF InsertRows, PaidInv
  <2>2. AllPaid(rows)'
    <3>1. NewRow(handler[c].product, handler[c].pay).by = handler[c].pay
      BY DEF NewRow
    <3> QED
      BY <1>11, <2>1, <3>1 DEF InsertRows, PaidInv
  <2>3. HandlerPaid'
    BY <1>11, PaidAnswer DEF InsertRows
  <2> QED
    BY <1>11, <2>2, <2>3 DEF InsertRows, PaidInv
<1>12. ASSUME NEW c \in PayCalls, InsertFirst(c)
       PROVE  NoticePaid' /\ HandlerPaid' /\ AllPaid(rows)' /\ NightPaid' /\ TopUpsPaid'
  <2>1. AllPaid(rows)'
    <3>1. \A by : NewRow(handler[c].product, by).by = by
      BY DEF NewRow
    <3> QED
      BY <1>12, <3>1, PlanAssumption DEF InsertFirst, PaidInv
  <2>2. HandlerPaid'
    BY <1>12, PaidAnswer DEF InsertFirst
  <2> QED
    BY <1>12, <2>1, <2>2 DEF InsertFirst, PaidInv
<1>13. ASSUME NEW product \in Products, EnableAgain(product)
       PROVE  NoticePaid' /\ HandlerPaid' /\ AllPaid(rows)' /\ NightPaid' /\ TopUpsPaid'
  BY <1>13 DEF EnableAgain, PaidInv
<1>14. ASSUME NEW r \in rows, RunOut(r)
       PROVE  NoticePaid' /\ HandlerPaid' /\ AllPaid(rows)' /\ NightPaid' /\ TopUpsPaid'
  BY <1>14 DEF RunOut, PaidInv, PlanTypeOK, SubscriptionRow
<1>15. CASE FindLapsed
  BY <1>15 DEF FindLapsed, Lapsed, PaidInv
<1>16. ASSUME night.pc = "rows", NEW r \in night.left, EndPlan(r)
       PROVE  NoticePaid' /\ HandlerPaid' /\ AllPaid(rows)' /\ NightPaid' /\ TopUpsPaid'
  <2>1. night \in NightState /\ r \in SubscriptionRow /\ AllPaid(night.left)
    BY <1>16 DEF PaidInv, PlanTypeOK, NightState
  <2>2. AllPaid(rows)'
    <3>1. [r EXCEPT !.active = FALSE].by = r.by
      BY <2>1 DEF SubscriptionRow
    <3> QED
      BY <1>16, <2>1, <3>1 DEF EndPlan, PaidInv
  <2>3. NightPaid'
    BY <1>16, <2>1 DEF EndPlan, NightState
  <2> QED
    BY <1>16, <2>2, <2>3 DEF EndPlan, PaidInv
<1>17. CASE Suspend \/ NightDone
  <2>1. NightPaid'
    <3>1. CASE Suspend
      <4>1. night \in NightState /\ night.pc # "day"
        BY <3>1 DEF Suspend, PaidInv, PlanTypeOK, NightState
      <4> QED
        BY <3>1, <4>1 DEF Suspend, PaidInv, NightState
    <3>2. CASE NightDone
      BY <3>2 DEF NightDone
    <3> QED
      BY <1>17, <3>1, <3>2
  <2> QED
    BY <1>17, <2>1 DEF Suspend, NightDone, PaidInv
<1> QED
  BY <1>1, <1>2, <1>3, <1>4, <1>5, <1>6, <1>7, <1>8, <1>9, <1>10, <1>11, <1>12, <1>13, <1>14,
     <1>15, <1>16, <1>17, PlanCases

\* A plan or orders that name a payment are there only if OnePay took the money or
\* an administrator approved the slip: a request that is past its first save stands
\* for a payment that came in, wherever it and the nightly job are.
THEOREM PlansArePaid == PlanSpec => []PaidForPlan
<1>1. PaidInv => PaidForPlan
  BY DEF PaidInv, PaidForPlan, AllPaid, TopUpsPaid
<1> QED
  BY <1>1, PlanPaidInit, PaidStep, PTL DEF PlanSpec

-----------------------------------------------------------------------------
(* A payment is applied once.                                              *)

\* Two requests about a product are at work together only if it is in "raced".
OneAbout ==
  \A product \in Products \ raced : \A c, d \in PayCalls :
    About(c, product) /\ About(d, product) => c = d
\* A request about a payment is about the product of its package.
RightProduct ==
  \A c \in PayCalls : handler[c] \in Paying => handler[c].product = ProductOf(handler[c].pay)
TopUpOnce ==
  \A p \in Payments : ProductOf(p) \notin raced =>
    /\ topups[p] <= 1
    /\ \A c \in PayCalls : handler[c].pc = "topup" /\ handler[c].pay = p => topups[p] = 0
OneActive ==
  \A product \in Products \ raced : \A r, s \in rows :
    (r.product = product /\ s.product = product /\ r.active /\ s.active) => r = s
\* A request that is about to insert a row finds no active one.
RoomFor ==
  \A product \in Products \ raced : \A c \in PayCalls :
    About(c, product) /\ handler[c].pc \in {"insert", "enable"}
      => \A r \in rows : r.product = product => ~r.active

OnceInv == PlanTypeOK /\ OneAbout /\ RightProduct /\ TopUpOnce /\ OneActive /\ RoomFor

LEMMA OnceInit == PlanInit => OnceInv
  BY PlanInitTypes
     DEF PlanInit, OnceInv, OneAbout, RightProduct, TopUpOnce, OneActive, RoomFor, About, Waiting,
         Paying

\* A request begins: about a product nobody else is at work on, or the product is raced.
LEMMA OnceStart ==
  ASSUME OnceInv, NEW c \in PayCalls, NEW product \in Products, NEW locals \in HandlerState,
         locals.product = product, locals.pc \notin {"topup", "insert"},
         locals.pc = "enable" => \A r \in rows : r.product # product,
         locals \in Paying => locals.product = ProductOf(locals.pay),
         Start(c, product, locals), UNCHANGED <<rows, topups>>
  PROVE  OneAbout' /\ RightProduct' /\ TopUpOnce' /\ OneActive' /\ RoomFor'
<1>1. /\ handler' = [handler EXCEPT ![c] = locals] /\ raced \subseteq raced'
      /\ product \in raced' \/ \A d \in PayCalls : ~About(d, product)
  BY DEF Start
<1>2. /\ handler'[c] = locals
      /\ \A d \in PayCalls \ {c} : handler'[d] = handler[d]
  BY <1>1 DEF OnceInv, PlanTypeOK
<1>3. \A q \in Products : \A d \in PayCalls : 
        About(d, q)' => \/ d = c /\ q = product
                        \/ d # c /\ About(d, q)
  BY <1>2 DEF About
<1>4. OneAbout'
  BY <1>1, <1>3 DEF OneAbout, OnceInv
<1>5. RightProduct'
  BY <1>2 DEF RightProduct, OnceInv
<1>6. TopUpOnce'
  BY <1>1, <1>2 DEF TopUpOnce, OnceInv
<1>7. OneActive'
  BY <1>1 DEF OneActive, OnceInv
<1>8. RoomFor'
  <2> SUFFICES ASSUME NEW q \in Products \ raced', NEW d \in PayCalls, About(d, q)',
                      handler'[d].pc \in {"insert", "enable"},
                      NEW r \in rows, r.product = q
               PROVE  ~r.active
    BY DEF RoomFor
  <2>1. CASE d = c
    BY <1>2, <1>3, <2>1
  <2>2. CASE d # c
    BY <1>1, <1>2, <1>3, <2>2 DEF RoomFor, OnceInv
  <2> QED
    BY <2>1, <2>2
<1> QED
  BY <1>4, <1>5, <1>6, <1>7, <1>8

\* A request ends, or goes on to a step of the same payment.
LEMMA OnceAnswer ==
  ASSUME OnceInv, NEW c \in PayCalls, Answer(c), raced' = raced
  PROVE  /\ OneAbout' /\ RightProduct'
         /\ handler'[c] = Waiting
         /\ \A d \in PayCalls \ {c} : handler'[d] = handler[d]
         /\ \A d \in PayCalls : \A q \in Products : About(d, q)' => About(d, q) /\ d # c
<1>1. /\ handler'[c] = Waiting
      /\ \A d \in PayCalls \ {c} : handler'[d] = handler[d]
  BY DEF Answer, OnceInv, PlanTypeOK
<1>2. \A d \in PayCalls : \A q \in Products : About(d, q)' => About(d, q) /\ d # c
  BY <1>1 DEF About
<1>3. OneAbout' /\ RightProduct'
  BY <1>1, <1>2 DEF OneAbout, RightProduct, OnceInv, Waiting, Paying
<1> QED
  BY <1>1, <1>2, <1>3

LEMMA OnceGoto ==
  ASSUME OnceInv, NEW c \in PayCalls, NEW pc \in {"apply", "topup", "insert"}, Goto(c, pc),
         handler[c] \in Paying, raced' = raced
  PROVE  /\ OneAbout' /\ RightProduct'
         /\ handler'[c].pc = pc /\ handler'[c].pay = handler[c].pay
         /\ \A d \in PayCalls \ {c} : handler'[d] = handler[d]
         /\ \A d \in PayCalls : \A q \in Products : About(d, q)' => About(d, q)
<1>1. /\ handler'[c] = [handler[c] EXCEPT !.pc = pc]
      /\ \A d \in PayCalls \ {c} : handler'[d] = handler[d]
  BY DEF Goto, OnceInv, PlanTypeOK
<1>2. /\ handler'[c].pc = pc /\ handler'[c].pay = handler[c].pay
      /\ handler'[c].product = handler[c].product /\ handler'[c] \in Paying
      /\ handler[c] # Waiting /\ handler'[c] # Waiting
  BY <1>1 DEF Paying, Waiting
<1>3. \A d \in PayCalls : \A q \in Products : About(d, q)' => About(d, q)
  BY <1>1, <1>2 DEF About
<1>4. OneAbout' /\ RightProduct'
  BY <1>1, <1>2, <1>3 DEF OneAbout, RightProduct, OnceInv
<1> QED
  BY <1>1, <1>2, <1>3, <1>4

\* A request about to insert a row inserts it: the only active one of its product.
LEMMA OnceInsert ==
  ASSUME OnceInv, NEW c \in PayCalls, handler[c].pc \in {"insert", "enable"},
         NEW product \in Products, handler[c].product = product,
         Answer(c), UNCHANGED <<raced, topups>>,
         NEW row, row.product = product, rows' = rows \union {row}
  PROVE  OneAbout' /\ RightProduct' /\ TopUpOnce' /\ OneActive' /\ RoomFor'
<1>1. About(c, product)
  BY DEF About, Waiting
<1>2. product \notin raced => \A r \in rows : r.product = product => ~r.active
  BY <1>1 DEF OnceInv, RoomFor
<1>3. OneActive'
  BY <1>2 DEF OnceInv, OneActive
<1>4. TopUpOnce'
  BY OnceAnswer DEF OnceInv, TopUpOnce, Waiting
<1>5. product \notin raced => \A d \in PayCalls : ~About(d, product)'
  BY <1>1, OnceAnswer DEF OnceInv, OneAbout
<1>6. RoomFor'
  BY <1>2, <1>5, OnceAnswer DEF OnceInv, RoomFor
<1> QED
  BY <1>3, <1>4, <1>6, OnceAnswer

\* A row is written again, with its product and no more active than it was, or not
\* active at all.
LEMMA OnceRewrite ==
  ASSUME OnceInv, NEW old, NEW new, new.product = old.product,
         new.active => old \in rows /\ old.active,
         rows' = (rows \ {old}) \union {new}, UNCHANGED <<raced, topups, handler>>
  PROVE  OneAbout' /\ RightProduct' /\ TopUpOnce' /\ OneActive' /\ RoomFor'
<1>1. OneAbout' /\ RightProduct' /\ TopUpOnce'
  BY DEF OnceInv, OneAbout, RightProduct, TopUpOnce, About
<1>2. OneActive'
  BY DEF OnceInv, OneActive
<1>3. RoomFor'
  BY DEF OnceInv, RoomFor, About
<1> QED
  BY <1>1, <1>2, <1>3

LEMMA OnceStep == OnceInv /\ [PlanNext]_planVars => OnceInv'
<1> SUFFICES ASSUME OnceInv, [PlanNext]_planVars
             PROVE  OneAbout' /\ RightProduct' /\ TopUpOnce' /\ OneActive' /\ RoomFor'
  BY PlanStepTypes DEF OnceInv
<1>0. ASSUME UNCHANGED <<rows, topups, handler, raced>>
      PROVE  OneAbout' /\ RightProduct' /\ TopUpOnce' /\ OneActive' /\ RoomFor'
  BY <1>0 DEF OnceInv, OneAbout, RightProduct, TopUpOnce, OneActive, RoomFor, About
<1>1. CASE UNCHANGED planVars
  BY <1>0, <1>1 DEF planVars
<1>2. ASSUME NEW p \in Payments, InitiateOnepay(p)
      PROVE  OneAbout' /\ RightProduct' /\ TopUpOnce' /\ OneActive' /\ RoomFor'
  BY <1>0, <1>2 DEF InitiateOnepay
<1>3. ASSUME NEW p \in Payments, NEW ok \in BOOLEAN, OnePayAnswers(p, ok)
      PROVE  OneAbout' /\ RightProduct' /\ TopUpOnce' /\ OneActive' /\ RoomFor'
  BY <1>0, <1>3 DEF OnePayAnswers
<1>4. ASSUME NEW c \in PayCalls, NEW p \in Payments, Begins(c, p)
      PROVE  OneAbout' /\ RightProduct' /\ TopUpOnce' /\ OneActive' /\ RoomFor'
  <2>1. PICK pc \in {"slip", "complete", "approve", "fail"} :
          /\ Start(c, ProductOf(p), Serving(p, pc))
          /\ UNCHANGED <<payment, captured, notices, rows, topups, account, night>>
    BY <1>4, BeginsAt
  <2>2. ProductOf(p) \in Products /\ Serving(p, pc) \in HandlerState
    BY ServingType DEF HandlerState, Paying
  <2>3. /\ Serving(p, pc).product = ProductOf(p) /\ Serving(p, pc).pay = p
        /\ Serving(p, pc).pc = pc
    BY DEF Serving
  <2> QED
    BY <2>1, <2>2, <2>3, OnceStart
<1>5. ASSUME NEW c \in PayCalls, NEW product \in Products, BeginEnable(c, product)
      PROVE  OneAbout' /\ RightProduct' /\ TopUpOnce' /\ OneActive' /\ RoomFor'
  <2> DEFINE locals == [pc |-> "enable", product |-> product]
  <2>1. /\ locals \in HandlerState /\ locals \notin Paying
        /\ locals.product = product /\ locals.pc = "enable"
    BY DEF HandlerState, Paying
  <2>2. /\ Start(c, product, locals) /\ UNCHANGED <<rows, topups>>
        /\ \A r \in rows : r.product # product
    BY <1>5 DEF BeginEnable
  <2> QED
    BY <2>1, <2>2, OnceStart
<1>6. ASSUME NEW c \in PayCalls, InsertSlip(c) \/ SaveFailed(c) \/ PayFail(c)
      PROVE  OneAbout' /\ RightProduct' /\ TopUpOnce' /\ OneActive' /\ RoomFor'
  <2>1. Answer(c) /\ UNCHANGED <<rows, topups, raced>>
    BY <1>6 DEF InsertSlip, SaveFailed, PayFail
  <2> QED
    BY <2>1, OnceAnswer DEF OnceInv, TopUpOnce, OneActive, RoomFor, Waiting
<1>7. ASSUME NEW c \in PayCalls, SaveCompleted(c)
      PROVE  OneAbout' /\ RightProduct' /\ TopUpOnce' /\ OneActive' /\ RoomFor'
  <2>1. handler[c] \in Paying /\ Goto(c, "apply") /\ UNCHANGED <<rows, topups, raced>>
    BY <1>7, HandlerFields DEF SaveCompleted, OnceInv
  <2> QED
    BY <2>1, OnceGoto DEF OnceInv, TopUpOnce, OneActive, RoomFor
<1>8. ASSUME NEW c \in PayCalls, FindTopUp(c)
      PROVE  OneAbout' /\ RightProduct' /\ TopUpOnce' /\ OneActive' /\ RoomFor'
  <2>1. handler[c] \in Paying /\ UNCHANGED <<rows, topups, raced>>
    BY <1>8, HandlerFields DEF FindTopUp, OnceInv
  <2>2. CASE topups[handler[c].pay] > 0
    <3>1. Answer(c)
      BY <1>8, <2>2 DEF FindTopUp, Added
    <3> QED
      BY <2>1, <3>1, OnceAnswer DEF OnceInv, TopUpOnce, OneActive, RoomFor, Waiting
  <2>3. CASE ~(topups[handler[c].pay] > 0)
    <3>1. Goto(c, "topup") /\ topups[handler[c].pay] = 0
      BY <1>8, <2>1, <2>3 DEF FindTopUp, Added, OnceInv, PlanTypeOK, Paying
    <3> QED
      BY <2>1, <3>1, OnceGoto DEF OnceInv, TopUpOnce, OneActive, RoomFor
  <2> QED
    BY <2>2, <2>3
<1>9. ASSUME NEW c \in PayCalls, InsertTopUp(c)
      PROVE  OneAbout' /\ RightProduct' /\ TopUpOnce' /\ OneActive' /\ RoomFor'
  <2> DEFINE p == handler[c].pay
  <2>1. /\ handler[c] \in Paying /\ handler[c].pc = "topup" /\ p \in Payments
        /\ Answer(c) /\ UNCHANGED <<rows, raced>>
        /\ topups' = [topups EXCEPT ![p] = @ + 1]
    BY <1>9, HandlerFields DEF InsertTopUp, OnceInv, Paying
  <2>2. \A d \in PayCalls : handler[d].pc = "topup" /\ handler[d].pay = p
          => About(d, ProductOf(p))
    BY <2>1, HandlerFields DEF OnceInv, RightProduct, About, Waiting
  <2>3. \A d \in PayCalls \ {c} :
          ProductOf(p) \notin raced => ~(handler[d].pc = "topup" /\ handler[d].pay = p)
    BY <2>1, <2>2, ServingType DEF OnceInv, OneAbout
  <2>4. TopUpOnce'
    <3>1. \A q \in Payments \ {p} : topups'[q] = topups[q]
      BY <2>1 DEF OnceInv, PlanTypeOK
    <3>2. ProductOf(p) \notin raced => topups'[p] = 1
      BY <2>1 DEF OnceInv, TopUpOnce, PlanTypeOK
    <3> QED
      BY <2>1, <2>3, <3>1, <3>2, OnceAnswer DEF OnceInv, TopUpOnce, Waiting
  <2> QED
    BY <2>1, <2>4, OnceAnswer DEF OnceInv, OneActive, RoomFor
<1>10. ASSUME NEW c \in PayCalls, DeleteRows(c)
       PROVE  OneAbout' /\ RightProduct' /\ TopUpOnce' /\ OneActive' /\ RoomFor'
  <2>1. /\ handler[c] \in Paying /\ Goto(c, "insert") /\ UNCHANGED <<topups, raced>>
        /\ rows' = rows \ {r \in rows : r.product = ProductOf(handler[c].pay)}
    BY <1>10, HandlerFields DEF DeleteRows, Replaced, OnceInv
  <2>2. handler[c].product = ProductOf(handler[c].pay)
    BY <2>1 DEF OnceInv, RightProduct
  <2>3. TopUpOnce' /\ OneActive'
    BY <2>1, OnceGoto DEF OnceInv, TopUpOnce, OneActive
  <2>4. RoomFor'
    <3>1. handler'[c].product = handler[c].product
      BY <2>1 DEF Goto, Paying, OnceInv, PlanTypeOK
    <3>2. \A q \in Products : About(c, q)' => q = ProductOf(handler[c].pay)
      BY <2>2, <3>1 DEF About
    <3> QED
      BY <2>1, <3>2, OnceGoto DEF OnceInv, RoomFor
  <2> QED
    BY <2>1, <2>3, <2>4, OnceGoto
<1>11. ASSUME NEW c \in PayCalls, InsertRows(c)
       PROVE  OneAbout' /\ RightProduct' /\ TopUpOnce' /\ OneActive' /\ RoomFor'
  <2>1. /\ handler[c].product \in Products
        /\ NewRow(handler[c].product, handler[c].pay).product = handler[c].product
    BY <1>11, HandlerFields DEF InsertRows, NewRow, OnceInv, Waiting
  <2> QED
    BY <1>11, <2>1, OnceInsert DEF InsertRows
<1>12. ASSUME NEW c \in PayCalls, InsertFirst(c)
       PROVE  OneAbout' /\ RightProduct' /\ TopUpOnce' /\ OneActive' /\ RoomFor'
  <2>1. /\ handler[c].product \in Products
        /\ \A by : NewRow(handler[c].product, by).product = handler[c].product
    BY <1>12, HandlerFields DEF InsertFirst, NewRow, OnceInv, Waiting
  <2> QED
    BY <1>12, <2>1, OnceInsert DEF InsertFirst
<1>13. ASSUME NEW product \in Products, EnableAgain(product)
       PROVE  OneAbout' /\ RightProduct' /\ TopUpOnce' /\ OneActive' /\ RoomFor'
  BY <1>0, <1>13 DEF EnableAgain
<1>14. ASSUME NEW r \in rows, RunOut(r)
       PROVE  OneAbout' /\ RightProduct' /\ TopUpOnce' /\ OneActive' /\ RoomFor'
  <2>1. r \in SubscriptionRow
    BY DEF OnceInv, PlanTypeOK
  <2>2. /\ [r EXCEPT !.over = TRUE].product = r.product
        /\ [r EXCEPT !.over = TRUE].active = r.active
    BY <2>1 DEF SubscriptionRow
  <2> QED
    BY <1>14, <2>2, OnceRewrite DEF RunOut
<1>15. CASE FindLapsed
  BY <1>0, <1>15 DEF FindLapsed
<1>16. ASSUME night.pc = "rows", NEW r \in night.left, EndPlan(r)
       PROVE  OneAbout' /\ RightProduct' /\ TopUpOnce' /\ OneActive' /\ RoomFor'
  <2>1. r \in SubscriptionRow
    BY <1>16 DEF OnceInv, PlanTypeOK, NightState
  <2>2. /\ [r EXCEPT !.active = FALSE].product = r.product
        /\ [r EXCEPT !.active = FALSE].active = FALSE
    BY <2>1 DEF SubscriptionRow
  <2> QED
    BY <1>16, <2>2, OnceRewrite DEF EndPlan
<1>17. CASE Suspend \/ NightDone
  BY <1>0, <1>17 DEF Suspend, NightDone
<1> QED
  BY <1>1, <1>2, <1>3, <1>4, <1>5, <1>6, <1>7, <1>8, <1>9, <1>10, <1>11, <1>12, <1>13, <1>14,
     <1>15, <1>16, <1>17, PlanCases

\* However often and by whichever way a payment is reported, and wherever a request
\* died, its orders are added once and the account is never on two plans of a
\* product, unless two requests about the product overlapped.
THEOREM PaymentsApplyOnce == PlanSpec => []ActivatedOnce
<1>1. OnceInv => ActivatedOnce
  BY DEF OnceInv, ActivatedOnce, TopUpOnce, OneActive
<1> QED
  BY <1>1, OnceInit, OnceStep, PTL DEF PlanSpec

-----------------------------------------------------------------------------
(* PlanChanges: types.                                                     *)

Change == [pc: Changing, price: Prices, before: FirstOrBought \union {0}, id: NoticeIds]
Replacing == [pc: {"bought", "first"}, price: FirstOrBought]
Toggle == [pc: Toggling, read: Coupon]
RequestState == {NoRequest} \union Toggle \union Replacing \union Change
Counts == [changes: Nat, buys: Nat, toggles: Nat, deaths: Nat]

LEMMA MinIsIn ==
  ASSUME NEW S, S \subseteq Nat, S # {}
  PROVE  Min(S) \in S
<1>1. PICK x \in S : \A y \in S : <<y, x>> \notin OpToRel(<, Nat)
  BY WFMin, NatLessThanWellFounded, Zenon
<1>2. \A y \in S : x <= y
  <2> SUFFICES ASSUME NEW y \in S, y < x PROVE FALSE
    OBVIOUS
  <2>1. <<y, x>> \in Nat \X Nat /\ <<y, x>>[1] < <<y, x>>[2]
    OBVIOUS
  <2>2. <<y, x>> \in OpToRel(<, Nat)
    BY <2>1, Zenon DEF OpToRel
  <2> QED
    BY <1>1, <2>2
<1>3. (CHOOSE m \in S : \A y \in S : m <= y) \in S
  BY <1>2
<1> QED
  BY <1>3 DEF Min

LEMMA ChangeInitTypes == ChangeInit => ChangeTypeOK
  BY DEF ChangeInit, ChangeTypeOK, Coupon

LEMMA RequestFields ==
  ASSUME ChangeTypeOK, NEW a \in Requests
  PROVE  /\ request[a].pc \in Changing => request[a] \in Change
         /\ request[a].pc = "toggle" => request[a] \in Toggle
         /\ request[a].pc \in {"bought", "first"} => request[a] \in Replacing
  BY DEF ChangeTypeOK, Change, Toggle, Replacing, NoRequest, Changing, Toggling

LEMMA ActiveTypes == ChangeTypeOK => ActivePrices \subseteq FirstOrBought
  BY DEF ChangeTypeOK, ActivePrices, SubRow

\* What becomes of the requests when one goes on, ends, or begins.
LEMMA StepRequest ==
  ASSUME ChangeTypeOK, NEW a \in Requests, request[a] \in Change, NEW pc \in Changing, Step(a, pc)
  PROVE  /\ request' \in [Requests -> RequestState]
         /\ request'[a].pc = pc /\ request'[a].id = request[a].id
         /\ request'[a].price = request[a].price /\ request'[a].before = request[a].before
         /\ \A b \in Requests \ {a} : request'[b] = request[b]
<1>1. /\ request'[a] = [request[a] EXCEPT !.pc = pc]
      /\ \A b \in Requests \ {a} : request'[b] = request[b]
      /\ request' = [request EXCEPT ![a] = [request[a] EXCEPT !.pc = pc]]
  BY DEF Step, ChangeTypeOK
<1>2. [request[a] EXCEPT !.pc = pc] \in Change
  BY DEF Change
<1>3. request' \in [Requests -> RequestState]
  BY <1>1, <1>2 DEF ChangeTypeOK, RequestState, Change, Toggle, Replacing
<1> QED
  BY <1>1, <1>3 DEF Change

LEMMA EndRequest ==
  ASSUME ChangeTypeOK, NEW a \in Requests, End(a)
  PROVE  /\ request' \in [Requests -> RequestState]
         /\ request'[a] = NoRequest
         /\ \A b \in Requests \ {a} : request'[b] = request[b]
  BY DEF End, ChangeTypeOK, RequestState, Change, Toggle, Replacing

\* The plan before is that of any active row.
LEMMA ReadBefore ==
  ASSUME ChangeTypeOK, NEW a \in Requests, ReadCurrent(a)
  PROVE  \E before \in FirstOrBought \union {0} :
           request' = [request EXCEPT ![a] =
                         [request[a] EXCEPT !.pc = "delete", !.before = before]]
<1>1. ActivePrices \union {0} \subseteq FirstOrBought \union {0}
  BY ActiveTypes
<1> QED
  BY <1>1 DEF ReadCurrent, ChangeTypeOK

\* A purchase, or the first plan, begins to replace the rows.
LEMMA BeginReplacing ==
  ASSUME ChangeTypeOK, NEW a \in Requests, NEW price, NEW pc,
         \/ DeleteForBought(a, price) /\ price \in Prices /\ pc = "bought"
         \/ FindNoPlan(a) /\ price = FirstPrice /\ pc = "first"
  PROVE  /\ request[a] = NoRequest /\ pc \in {"bought", "first"}
         /\ request' \in [Requests -> RequestState]
         /\ request'[a].pc = pc /\ request'[a].price = price
         /\ \A b \in Requests \ {a} : request'[b] = request[b]
<1>1. /\ request[a] = NoRequest /\ pc \in {"bought", "first"}
      /\ request' = [request EXCEPT ![a] = [pc |-> pc, price |-> price]]
      /\ price \in FirstOrBought
  BY DEF DeleteForBought, FindNoPlan, FirstOrBought
<1>2. [pc |-> pc, price |-> price] \in Replacing
  BY <1>1 DEF Replacing
<1>3. request' \in [Requests -> RequestState]
  BY <1>1, <1>2 DEF ChangeTypeOK, RequestState, Change, Toggle, Replacing
<1> QED
  BY <1>1, <1>3 DEF ChangeTypeOK

LEMMA BeginRequest ==
  ASSUME ChangeTypeOK, NEW a \in Requests, NEW price \in Prices, NEW withCoupon \in BOOLEAN,
         BeginChange(a, price, withCoupon)
  PROVE  /\ request[a] = NoRequest
         /\ request' \in [Requests -> RequestState]
         /\ count' \in Counts /\ count'.changes = count.changes + 1
         /\ request'[a].pc = (IF withCoupon THEN "redeem" ELSE "current")
         /\ request'[a].price = price /\ request'[a].id = count.changes + 1
         /\ request'[a].pc \in {"redeem", "current"}
         /\ \A b \in Requests \ {a} : request'[b] = request[b]
<1> DEFINE pc == IF withCoupon THEN "redeem" ELSE "current"
<1>1. /\ request' = [request EXCEPT ![a] = [pc |-> pc, price |-> price, before |-> 0,
                                        id |-> count'.changes]]
      /\ request[a] = NoRequest /\ count.changes < MaxChanges
      /\ count' = [count EXCEPT !.changes = @ + 1]
  BY DEF BeginChange
<1>2. count' \in Counts /\ count'.changes = count.changes + 1 /\ count'.changes \in NoticeIds
  <2>1. count \in Counts /\ MaxChanges \in Nat
    BY ChangeAssumption DEF ChangeTypeOK, Counts
  <2>2. count' \in Counts /\ count'.changes = count.changes + 1
    BY <1>1, <2>1 DEF Counts
  <2> QED
    BY <1>1, <2>1, <2>2 DEF Counts, NoticeIds
<1>3. [pc |-> pc, price |-> price, before |-> 0, id |-> count'.changes] \in Change
  BY <1>2 DEF Change, Changing
<1>4. request' \in [Requests -> RequestState]
  BY <1>1, <1>3 DEF ChangeTypeOK, RequestState, Change, Toggle, Replacing
<1>5. /\ request'[a] = [pc |-> pc, price |-> price, before |-> 0, id |-> count'.changes]
      /\ \A b \in Requests \ {a} : request'[b] = request[b]
  BY <1>1 DEF ChangeTypeOK
<1>6. request'[a].pc = pc /\ request'[a].price = price /\ request'[a].id = count'.changes
  BY <1>5
<1> QED
  BY <1>1, <1>2, <1>4, <1>5, <1>6

\* A step of ChangeNext, action by action.
LEMMA ChangeStepTypes == ChangeTypeOK /\ [ChangeNext]_changeVars => ChangeTypeOK'
<1> SUFFICES ASSUME ChangeTypeOK, [ChangeNext]_changeVars PROVE ChangeTypeOK'
  OBVIOUS
<1> USE DEF RequestState, Change, Toggle, Replacing
<1>1. CASE UNCHANGED changeVars
  BY <1>1 DEF changeVars, ChangeTypeOK
<1>2. ASSUME NEW a \in Requests, NEW price \in Prices, NEW withCoupon \in BOOLEAN,
             BeginChange(a, price, withCoupon)
      PROVE  ChangeTypeOK'
  <2>1. mixed' \subseteq {"plan", "coupon"}
    BY <1>2 DEF BeginChange, Overlapped, ChangeTypeOK
  <2> QED
    BY <1>2, <2>1, BeginRequest DEF BeginChange, ChangeTypeOK, Counts
<1>3. ASSUME NEW a \in Requests, Redeem(a)
      PROVE  ChangeTypeOK'
  <2>1. request[a] \in Change
    BY <1>3, RequestFields DEF Redeem, Changing
  <2>2. request' \in [Requests -> RequestState]
    BY <1>3, <2>1, StepRequest, EndRequest DEF Redeem, Changing
  <2>3. coupon' \in Coupon /\ redeemed' \in Nat
    BY <1>3 DEF Redeem, ChangeTypeOK, Coupon
  <2> QED
    BY <1>3, <2>2, <2>3 DEF Redeem, ChangeTypeOK
<1>4. ASSUME NEW a \in Requests, ReadCurrent(a)
      PROVE  ChangeTypeOK'
  <2>1. request[a] \in Change
    BY <1>4, RequestFields DEF ReadCurrent, Changing
  <2>2. PICK before \in FirstOrBought \union {0} :
          request' = [request EXCEPT ![a] =
                     [request[a] EXCEPT !.pc = "delete", !.before = before]]
    BY <1>4, ReadBefore
  <2>3. [request[a] EXCEPT !.pc = "delete", !.before = before] \in Change
    BY <2>1 DEF Changing
  <2> QED
    BY <1>4, <2>2, <2>3 DEF ReadCurrent, ChangeTypeOK
<1>5. ASSUME NEW a \in Requests, DeletePlan(a) \/ InsertPlan(a)
      PROVE  ChangeTypeOK'
  <2>1. request[a] \in Change
    BY <1>5, RequestFields DEF DeletePlan, InsertPlan, Changing
  <2>2. request' \in [Requests -> RequestState]
    BY <1>5, <2>1, StepRequest DEF DeletePlan, InsertPlan, Changing
  <2>3. Row(request[a].price, "paid") \in SubRow /\ request[a].price \in Prices
    BY <2>1 DEF Row, SubRow, FirstOrBought
  <2>4. plans' \subseteq SubRow
    BY <1>5, <2>3 DEF DeletePlan, InsertPlan, ChangeTypeOK
  <2>5. given' \in [price: Prices \union {0}, stands: BOOLEAN]
    <3>1. given' = given \/ given' = [price |-> request[a].price, stands |-> TRUE]
      BY <1>5 DEF DeletePlan, InsertPlan
    <3>2. given \in [price: Prices \union {0}, stands: BOOLEAN]
      BY DEF ChangeTypeOK
    <3>3. request[a].price \in Prices \union {0}
      BY <2>3
    <3>4. [price |-> request[a].price, stands |-> TRUE]
            \in [price: Prices \union {0}, stands: BOOLEAN]
      BY <3>3, Zenon
    <3> QED
      BY <3>1, <3>2, <3>4, Zenon
  <2> QED
    BY <1>5, <2>2, <2>4, <2>5 DEF DeletePlan, InsertPlan, ChangeTypeOK
<1>6. ASSUME NEW a \in Requests, DropNotices(a) \/ AddNotice(a)
      PROVE  ChangeTypeOK'
  <2>1. request[a] \in Change
    BY <1>6, RequestFields DEF DropNotices, AddNotice, Changing
  <2>2. request' \in [Requests -> RequestState]
    BY <1>6, <2>1, StepRequest, EndRequest DEF DropNotices, AddNotice, Changing
  <2>3. unseen' \subseteq Notice
    BY <1>6, <2>1 DEF DropNotices, AddNotice, ChangeTypeOK, Notice
  <2> QED
    BY <1>6, <2>2, <2>3 DEF DropNotices, AddNotice, ChangeTypeOK
<1>7. ASSUME NEW a \in Requests, ChangeDies(a)
      PROVE  ChangeTypeOK'
  <2>1. request' \in [Requests -> RequestState]
    BY <1>7, EndRequest DEF ChangeDies
  <2> QED
    BY <1>7, <2>1 DEF ChangeDies, ChangeTypeOK
<1>8. ASSUME NEW a \in Requests, BeginToggle(a)
      PROVE  ChangeTypeOK'
  BY <1>8 DEF BeginToggle, ChangeTypeOK, Toggling
<1>9. ASSUME NEW a \in Requests, SaveToggle(a)
      PROVE  ChangeTypeOK'
  <2>1. request[a] \in Toggle
    BY <1>9, RequestFields DEF SaveToggle
  <2>2. coupon' \in Coupon
    BY <1>9, <2>1 DEF SaveToggle, Coupon
  <2>3. request' \in [Requests -> RequestState]
    BY <1>9, EndRequest DEF SaveToggle
  <2> QED
    BY <1>9, <2>2, <2>3 DEF SaveToggle, ChangeTypeOK
<1>10. ASSUME NEW b \in Tabs, FindNotice(b)
       PROVE  ChangeTypeOK'
  <2> DEFINE ids == {n.id : n \in unseen}
  <2>1. ids \subseteq NoticeIds /\ ids # {}
    BY <1>10 DEF FindNotice, ChangeTypeOK, Notice
  <2>2. Min(ids) \in NoticeIds
    BY <2>1, MinIsIn DEF NoticeIds
  <2> QED
    BY <1>10, <2>2 DEF FindNotice, Oldest, ChangeTypeOK
<1>11. ASSUME NEW b \in Tabs, MarkSeen(b)
       PROVE  ChangeTypeOK'
  <2>1. tab[b] \in NoticeIds
    BY <1>11 DEF MarkSeen, ChangeTypeOK
  <2>2. shown' \in [NoticeIds -> Nat]
    BY <1>11, <2>1 DEF MarkSeen, ChangeTypeOK
  <2> QED
    BY <1>11, <2>2 DEF MarkSeen, ChangeTypeOK
<1>12. ASSUME NEW a \in Requests, NEW price \in Prices, DeleteForBought(a, price)
       PROVE  ChangeTypeOK'
  <2>1. request' \in [Requests -> RequestState]
    BY ONLY <1>12, ChangeTypeOK, BeginReplacing
  <2>2. count' \in Counts /\ mixed' \subseteq {"plan", "coupon"}
    BY <1>12 DEF DeleteForBought, Overlapped, ChangeTypeOK, Counts
  <2>3. plans' = {} /\ given' \in [price: Prices \union {0}, stands: BOOLEAN]
    BY <1>12 DEF DeleteForBought, ChangeTypeOK
  <2> QED
    BY <1>12, <2>1, <2>2, <2>3 DEF DeleteForBought, ChangeTypeOK, Counts
<1>13. ASSUME NEW a \in Requests, FindNoPlan(a)
       PROVE  ChangeTypeOK'
  <2>1. request' \in [Requests -> RequestState]
    BY ONLY <1>13, ChangeTypeOK, BeginReplacing
  <2>2. mixed' \subseteq {"plan", "coupon"}
    BY <1>13 DEF FindNoPlan, Overlapped, ChangeTypeOK
  <2> QED
    BY <1>13, <2>1, <2>2 DEF FindNoPlan, ChangeTypeOK
<1>14. ASSUME NEW a \in Requests, InsertBought(a) \/ InsertFree(a)
       PROVE  ChangeTypeOK'
  <2>1. request[a] \in Replacing
    BY <1>14, RequestFields DEF InsertBought, InsertFree
  <2>2. plans' \subseteq SubRow
    BY <1>14, <2>1 DEF InsertBought, InsertFree, Row, SubRow, ChangeTypeOK
  <2>3. request' \in [Requests -> RequestState]
    BY <1>14, EndRequest DEF InsertBought, InsertFree
  <2> QED
    BY <1>14, <2>2, <2>3 DEF InsertBought, InsertFree, ChangeTypeOK
<1>15. ASSUME NEW row \in plans, PlanLapses(row)
       PROVE  ChangeTypeOK'
  <2>1. row.price \in FirstOrBought
    BY DEF ChangeTypeOK, SubRow
  <2>2. Row(row.price, "inactive") \in SubRow
    BY <2>1 DEF Row, SubRow
  <2>3. plans' \subseteq SubRow
    BY <1>15, <2>2 DEF PlanLapses, ChangeTypeOK
  <2>4. given' \in [price: Prices \union {0}, stands: BOOLEAN]
    BY <1>15 DEF PlanLapses, ChangeTypeOK
  <2> QED
    BY <1>15, <2>3, <2>4 DEF PlanLapses, ChangeTypeOK
<1> QED
  BY <1>1, <1>2, <1>3, <1>4, <1>5, <1>6, <1>7, <1>8, <1>9, <1>10, <1>11, <1>12, <1>13, <1>14,
     <1>15
     DEF ChangeNext

\* The coupon's row, the notices' rows and the locals of changePlan keep their types.
THEOREM ChangeTypes == ChangeSpec => []ChangeTypeOK
  BY ChangeInitTypes, ChangeStepTypes, PTL DEF ChangeSpec

-----------------------------------------------------------------------------
(* A coupon of limited use.                                                *)

\* The request that toggles the coupon is the only one at work on it, and will write
\* the count it would read now.
CouponInv ==
  /\ ChangeTypeOK
  /\ "coupon" \notin mixed =>
       /\ redeemed = coupon.used /\ coupon.used <= MaxUses
       /\ \A a \in Requests : request[a].pc = "toggle" =>
            /\ request[a].read.used = coupon.used
            /\ \A b \in Requests \ {a} : request[b].pc \notin {"redeem", "toggle"}

LEMMA CouponInit == ChangeInit => CouponInv
  BY ChangeInitTypes, ChangeAssumption DEF ChangeInit, CouponInv, NoRequest

\* A step on neither the coupon nor the requests that are at work on it.
LEMMA CouponKept ==
  ASSUME CouponInv, ChangeTypeOK', UNCHANGED <<coupon, redeemed>>, mixed \subseteq mixed',
         \A a \in Requests : request'[a].pc \in {"redeem", "toggle"} => request'[a] = request[a]
  PROVE  CouponInv'
  BY DEF CouponInv

LEMMA CouponStep == CouponInv /\ [ChangeNext]_changeVars => CouponInv'
<1> SUFFICES ASSUME CouponInv, [ChangeNext]_changeVars PROVE CouponInv'
  OBVIOUS
<1>0. ChangeTypeOK /\ ChangeTypeOK'
  BY ChangeStepTypes DEF CouponInv
<1>1. CASE UNCHANGED changeVars
  BY <1>1, <1>0, CouponKept DEF changeVars
<1>2. ASSUME NEW a \in Requests, NEW price \in Prices, NEW withCoupon \in BOOLEAN,
             BeginChange(a, price, withCoupon)
      PROVE  CouponInv'
  <2>1. /\ UNCHANGED <<coupon, redeemed>> /\ mixed \subseteq mixed'
        /\ withCoupon /\ "coupon" \notin mixed' => Busy(Toggling) = {}
    BY <1>2 DEF BeginChange
  <2>2. /\ request'[a].pc = IF withCoupon THEN "redeem" ELSE "current"
        /\ \A b \in Requests \ {a} : request'[b] = request[b]
    BY <1>0, <1>2, BeginRequest
  <2> QED
    BY <1>0, <2>1, <2>2 DEF CouponInv, Busy, Toggling
<1>3. ASSUME NEW a \in Requests, Redeem(a)
      PROVE  CouponInv'
  <2>1. request[a] \in Change
    BY <1>0, <1>3, RequestFields DEF Redeem, Changing
  <2>2. request'[a].pc \in {"current", "idle"} /\ \A b \in Requests \ {a} : request'[b] = request[b]
    BY <1>0, <1>3, <2>1, StepRequest, EndRequest DEF Redeem, Changing, NoRequest
  <2>3. CASE StillValid
    <3>1. /\ coupon'.used = coupon.used + 1 /\ redeemed' = redeemed + 1 /\ mixed' = mixed
          /\ coupon.used < MaxUses
      BY <1>0, <1>3, <2>3 DEF Redeem, StillValid, Valid, ChangeTypeOK, Coupon
    <3>2. "coupon" \notin mixed => \A b \in Requests : request[b].pc # "toggle"
      BY <1>3 DEF CouponInv, Redeem
    <3> QED
      BY <1>0, <2>2, <3>1, <3>2, ChangeAssumption DEF CouponInv, ChangeTypeOK, Coupon
  <2>4. CASE ~StillValid
    BY <1>0, <1>3, <2>2, <2>4, CouponKept DEF Redeem
  <2> QED
    BY <2>3, <2>4
<1>4. ASSUME NEW a \in Requests, ReadCurrent(a)
      PROVE  CouponInv'
  <2>1. \A b \in Requests : request'[b] = request[b] \/ request'[b].pc = "delete"
    <3>1. request[a] \in Change
      BY <1>0, <1>4, RequestFields DEF ReadCurrent, Changing
    <3>2. PICK before \in FirstOrBought \union {0} :
            request' = [request EXCEPT ![a] =
                       [request[a] EXCEPT !.pc = "delete", !.before = before]]
      BY <1>0, <1>4, ReadBefore
    <3> QED
      BY <1>0, <3>1, <3>2 DEF ChangeTypeOK, Change
  <2> QED
    BY <1>0, <1>4, <2>1, CouponKept DEF ReadCurrent
<1>5. ASSUME NEW a \in Requests, DeletePlan(a) \/ InsertPlan(a) \/ DropNotices(a) \/ AddNotice(a)
      PROVE  CouponInv'
  <2>1. request[a] \in Change
    BY <1>0, <1>5, RequestFields DEF DeletePlan, InsertPlan, DropNotices, AddNotice, Changing
  <2>2. \/ End(a)
        \/ \E pc \in {"insert", "notices", "notice"} : Step(a, pc)
    BY <1>5 DEF DeletePlan, InsertPlan, DropNotices, AddNotice
  <2>3. /\ request'[a].pc \notin {"redeem", "toggle"}
        /\ \A b \in Requests \ {a} : request'[b] = request[b]
    BY <1>0, <2>1, <2>2, StepRequest, EndRequest DEF Changing, NoRequest
  <2> QED
    BY <1>0, <1>5, <2>3, CouponKept DEF DeletePlan, InsertPlan, DropNotices, AddNotice
<1>6. ASSUME NEW a \in Requests, ChangeDies(a)
      PROVE  CouponInv'
  <2>1. \A b \in Requests : request'[b].pc \in {"redeem", "toggle"} => request'[b] = request[b]
    BY <1>0, <1>6, EndRequest DEF ChangeDies, NoRequest
  <2> QED
    BY <1>0, <1>6, <2>1, CouponKept DEF ChangeDies
<1>7. ASSUME NEW a \in Requests, BeginToggle(a)
      PROVE  CouponInv'
  <2>1. /\ request'[a] = [pc |-> "toggle", read |-> coupon]
        /\ \A b \in Requests \ {a} : request'[b] = request[b]
    BY <1>0, <1>7 DEF BeginToggle, ChangeTypeOK
  <2>2. /\ request'[a].read = coupon /\ UNCHANGED <<coupon, redeemed>> /\ mixed \subseteq mixed'
        /\ "coupon" \notin mixed' => \A b \in Requests : request[b].pc \notin {"redeem", "toggle"}
    BY <1>7, <2>1 DEF BeginToggle, Busy
  <2> QED
    BY <1>0, <2>1, <2>2 DEF CouponInv
<1>8. ASSUME NEW a \in Requests, SaveToggle(a)
      PROVE  CouponInv'
  <2>1. request[a] \in Toggle
    BY <1>0, <1>8, RequestFields DEF SaveToggle
  <2>2. coupon'.used = request[a].read.used /\ UNCHANGED <<redeemed, mixed>>
    BY <1>8, <2>1 DEF SaveToggle, Toggle, Coupon
  <2>3. request'[a].pc = "idle" /\ \A b \in Requests \ {a} : request'[b] = request[b]
    BY <1>0, <1>8, EndRequest DEF SaveToggle, NoRequest
  <2>4. request[a].pc = "toggle"
    BY <1>8 DEF SaveToggle
  <2> QED
    BY <1>0, <2>2, <2>3, <2>4 DEF CouponInv
<1>9. ASSUME NEW b \in Tabs, FindNotice(b) \/ MarkSeen(b)
      PROVE  CouponInv'
  BY <1>0, <1>9, CouponKept DEF FindNotice, MarkSeen
<1>10. ASSUME NEW a \in Requests,
              FindNoPlan(a) \/ \E price \in Prices : DeleteForBought(a, price)
       PROVE  CouponInv'
  <2>1. \A b \in Requests : request'[b] = request[b] \/ request'[b].pc \in {"bought", "first"}
    BY ONLY <1>0, <1>10, BeginReplacing
  <2> QED
    BY <1>0, <1>10, <2>1, CouponKept DEF DeleteForBought, FindNoPlan
<1>11. ASSUME NEW a \in Requests, InsertBought(a) \/ InsertFree(a)
       PROVE  CouponInv'
  <2>1. \A b \in Requests : request'[b] = request[b] \/ request'[b].pc = "idle"
    BY <1>0, <1>11, EndRequest DEF InsertBought, InsertFree, NoRequest
  <2> QED
    BY <1>0, <1>11, <2>1, CouponKept DEF InsertBought, InsertFree
<1>12. ASSUME NEW row \in plans, PlanLapses(row)
       PROVE  CouponInv'
  BY <1>0, <1>12, CouponKept DEF PlanLapses
<1> QED
  BY <1>1, <1>2, <1>3, <1>4, <1>5, <1>6, <1>7, <1>8, <1>9, <1>10, <1>11, <1>12
     DEF ChangeNext

\* Concurrent redemptions of a limited coupon do not slip past the limit, however
\* many super admins change plans at a time, unless the coupon is toggled meanwhile.
THEOREM CouponsKeepTheLimit == ChangeSpec => []CouponWithinLimit
<1>1. CouponInv => CouponWithinLimit
  BY DEF CouponInv, CouponWithinLimit
<1> QED
  BY <1>1, CouponInit, CouponStep, PTL DEF ChangeSpec

-----------------------------------------------------------------------------
(* The notices.                                                            *)

IsChanging(a) == request[a].pc \in Changing

\* The number of a change stands for its request, then for its unseen notice, then
\* for one that was shown.
ChangeIds ==
  \A a \in Requests : IsChanging(a) =>
    /\ request[a].id <= count.changes
    /\ \A b \in Requests : IsChanging(b) /\ request[b].id = request[a].id => a = b
UnseenIds ==
  \A n \in unseen :
    n.id <= count.changes /\ \A a \in Requests : IsChanging(a) => request[a].id # n.id
ShownIds ==
  \A i \in NoticeIds : shown[i] > 0 =>
    /\ shown[i] = 1 /\ i <= count.changes
    /\ \A a \in Requests : IsChanging(a) => request[a].id # i
    /\ \A n \in unseen : n.id # i

\* What nobody saw tells the plan a super admin gave last, which the account is on as
\* long as it stands.
OnlyOn(price) == given.stands => ActivePrices = {price}
Current == \A n \in unseen : n.price = given.price /\ OnlyOn(n.price)
IsWriting(a) == request[a].pc \in Writing
OneChange ==
  "plan" \notin mixed => \A a, b \in Requests : IsWriting(a) /\ IsWriting(b) => a = b
\* What the one request at work has left of the plan and of the notices.
Left(a) ==
  /\ request[a].pc \in {"redeem", "current", "delete", "first"} => Current
  /\ request[a].pc = "first" => plans = {}
  /\ request[a].pc = "bought" => Current /\ ~given.stands
  /\ request[a].pc = "insert" => plans = {}
  /\ request[a].pc \in {"notices", "notice"} =>
       given.price = request[a].price /\ OnlyOn(request[a].price)
  /\ request[a].pc = "notice" => unseen = {}
PlanTold ==
  "plan" \notin mixed =>
    /\ (\A a \in Requests : ~IsWriting(a)) => Current
    /\ \A a \in Requests : Left(a)

NoticeInv == ChangeTypeOK /\ ChangeIds /\ UnseenIds /\ ShownIds /\ OneChange /\ PlanTold

LEMMA NoticeInit == ChangeInit => NoticeInv
  BY ChangeInitTypes
     DEF ChangeInit, NoticeInv, ChangeIds, UnseenIds, ShownIds, OneChange, PlanTold, Left, Current,
         IsChanging, IsWriting, Writing, Changing, NoRequest

\* No request begins, no notice is added or shown.
LEMMA IdsKept ==
  ASSUME NoticeInv, count'.changes = count.changes, unseen' \subseteq unseen, shown' = shown,
         \A a \in Requests : IsChanging(a)' => IsChanging(a) /\ request'[a].id = request[a].id
  PROVE  ChangeIds' /\ UnseenIds' /\ ShownIds'
<1>1. ChangeIds'
  BY DEF NoticeInv, ChangeIds
<1>2. UnseenIds'
  BY DEF NoticeInv, UnseenIds
<1>3. ShownIds'
  BY DEF NoticeInv, ShownIds
<1> QED
  BY <1>1, <1>2, <1>3

\* A request begins to write the rows, goes from one step to the next or ends, and
\* what it leaves of the plan and of the notices is as its new step says.
LEMMA ToldStep ==
  ASSUME NoticeInv, NEW a \in Requests, mixed \subseteq mixed',
         \A b \in Requests \ {a} : request'[b] = request[b],
         "plan" \notin mixed' =>
           /\ \A b \in Requests \ {a} : ~IsWriting(b)
           /\ Left(a)' /\ (~IsWriting(a)' => Current')
  PROVE  OneChange' /\ PlanTold'
<1>1. OneChange'
  BY DEF OneChange, IsWriting
<1>2. PlanTold'
  <2> SUFFICES ASSUME "plan" \notin mixed'
               PROVE  /\ (\A b \in Requests : ~IsWriting(b)') => Current'
                      /\ \A b \in Requests : Left(b)'
    BY DEF PlanTold
  <2>1. \A b \in Requests \ {a} : ~IsWriting(b)'
    BY DEF IsWriting
  <2>2. \A b \in Requests \ {a} : Left(b)'
    BY <2>1 DEF Left, IsWriting, Writing, Changing
  <2> QED
    BY <2>2
<1> QED
  BY <1>1, <1>2

\* A request that goes on or ends was alone on the rows.
LEMMA WritesAlone ==
  ASSUME NoticeInv, NEW a \in Requests, IsWriting(a), mixed' = mixed,
         \A b \in Requests \ {a} : request'[b] = request[b],
         "plan" \notin mixed => Left(a)' /\ (~IsWriting(a)' => Current')
  PROVE  OneChange' /\ PlanTold'
<1>1. "plan" \notin mixed => \A b \in Requests \ {a} : ~IsWriting(b)
  BY DEF NoticeInv, OneChange
<1> QED
  BY <1>1, ToldStep

\* A request that dies or is about the coupon leaves the plan and the notices alone.
LEMMA RestsOn ==
  ASSUME NoticeInv, NEW a \in Requests, UNCHANGED <<plans, given, unseen>>,
         mixed \subseteq mixed', \A b \in Requests \ {a} : request'[b] = request[b],
         "plan" \notin mixed' => ~IsWriting(a), ~IsWriting(a)'
  PROVE  OneChange' /\ PlanTold'
<1>1. Current' <=> Current
  BY DEF Current, OnlyOn, ActivePrices
<1>2. OneChange'
  BY DEF NoticeInv, OneChange, IsWriting
<1>3. PlanTold'
  <2> SUFFICES ASSUME "plan" \notin mixed'
               PROVE  /\ (\A b \in Requests : ~IsWriting(b)') => Current'
                      /\ \A b \in Requests : Left(b)'
    BY DEF PlanTold
  <2>1. Left(a)'
    BY DEF Left, IsWriting, Writing, Changing
  <2>2. \A b \in Requests \ {a} : Left(b) => Left(b)'
    BY <1>1 DEF Left, OnlyOn, ActivePrices
  <2>3. (\A b \in Requests : ~IsWriting(b)') => Current'
    BY <1>1 DEF NoticeInv, PlanTold, IsWriting
  <2> QED
    BY <2>1, <2>2, <2>3 DEF NoticeInv, PlanTold
<1> QED
  BY <1>2, <1>3

LEMMA NoticeStep == NoticeInv /\ [ChangeNext]_changeVars => NoticeInv'
<1> SUFFICES ASSUME NoticeInv, [ChangeNext]_changeVars
             PROVE  ChangeIds' /\ UnseenIds' /\ ShownIds' /\ OneChange' /\ PlanTold'
  BY ChangeStepTypes DEF NoticeInv
<1>0. ChangeTypeOK /\ ChangeTypeOK'
  BY ChangeStepTypes DEF NoticeInv
<1>1. ASSUME UNCHANGED <<plans, given, unseen, shown, request, mixed>>, count'.changes = count.changes
      PROVE  ChangeIds' /\ UnseenIds' /\ ShownIds' /\ OneChange' /\ PlanTold'
  BY <1>1 DEF NoticeInv, ChangeIds, UnseenIds, ShownIds, OneChange, PlanTold, Left, Current,
              OnlyOn, ActivePrices, IsChanging, IsWriting
<1>2. CASE UNCHANGED changeVars
  BY <1>1, <1>2 DEF changeVars
<1>3. ASSUME NEW a \in Requests, NEW price \in Prices, NEW withCoupon \in BOOLEAN,
             BeginChange(a, price, withCoupon)
      PROVE  ChangeIds' /\ UnseenIds' /\ ShownIds' /\ OneChange' /\ PlanTold'
  <2>1. /\ ~IsChanging(a) /\ request'[a].id = count.changes + 1
        /\ request'[a].pc \in {"redeem", "current"}
        /\ count'.changes = count.changes + 1 /\ count.changes \in Nat
        /\ \A b \in Requests \ {a} : request'[b] = request[b]
    BY <1>0, <1>3, BeginRequest DEF IsChanging, Changing, NoRequest, ChangeTypeOK
  <2>2. /\ UNCHANGED <<plans, given, unseen, shown>> /\ mixed \subseteq mixed'
        /\ "plan" \notin mixed' => \A b \in Requests : ~IsWriting(b)
    BY <1>3 DEF BeginChange, Overlapped, Busy, IsWriting
  <2>3. \A b \in Requests : IsChanging(b) => request[b].id \in Nat
    BY <1>0, RequestFields DEF IsChanging, Change, NoticeIds
  <2>4. \A n \in unseen : n.id \in Nat
    BY <1>0 DEF ChangeTypeOK, Notice, NoticeIds
  <2>5. ChangeIds'
    BY <2>1, <2>3 DEF NoticeInv, ChangeIds, IsChanging
  <2>6. UnseenIds'
    BY <2>1, <2>2, <2>4 DEF NoticeInv, UnseenIds, IsChanging
  <2>7. ShownIds'
    BY <2>1, <2>2 DEF NoticeInv, ShownIds, IsChanging, NoticeIds
  <2>8. "plan" \notin mixed' => Current'
    BY <2>2 DEF NoticeInv, PlanTold, Current, OnlyOn, ActivePrices
  <2>9. "plan" \notin mixed' => Left(a)'
    BY <2>1, <2>8 DEF Left
  <2> QED
    BY <2>1, <2>2, <2>5, <2>6, <2>7, <2>8, <2>9, ToldStep
<1>4. ASSUME NEW a \in Requests, Redeem(a)
      PROVE  ChangeIds' /\ UnseenIds' /\ ShownIds' /\ OneChange' /\ PlanTold'
  <2>1. request[a] \in Change /\ IsChanging(a) /\ IsWriting(a) /\ request[a].pc = "redeem"
    BY <1>0, <1>4, RequestFields DEF Redeem, Changing, Writing, IsChanging, IsWriting
  <2>2. /\ \/ request'[a].pc = "current" /\ request'[a].id = request[a].id
           \/ request'[a].pc = "idle"
        /\ \A b \in Requests \ {a} : request'[b] = request[b]
    BY <1>0, <1>4, <2>1, StepRequest, EndRequest DEF Redeem, Changing, NoRequest
  <2>3. "plan" \notin mixed => Current
    BY <2>1 DEF NoticeInv, PlanTold, Left
  <2>4. UNCHANGED <<plans, given, unseen, shown, count, mixed>>
    BY <1>4 DEF Redeem
  <2>5. "plan" \notin mixed => Left(a)' /\ Current'
    BY <2>2, <2>3, <2>4 DEF Left, Current, OnlyOn, ActivePrices
  <2> QED
    BY <2>1, <2>2, <2>4, <2>5, IdsKept, WritesAlone DEF IsChanging, Changing
<1>5. ASSUME NEW a \in Requests, ReadCurrent(a)
      PROVE  ChangeIds' /\ UnseenIds' /\ ShownIds' /\ OneChange' /\ PlanTold'
  <2>1. request[a] \in Change /\ IsChanging(a) /\ IsWriting(a) /\ request[a].pc = "current"
    BY <1>0, <1>5, RequestFields DEF ReadCurrent, Changing, Writing, IsChanging, IsWriting
  <2>2. PICK before \in FirstOrBought \union {0} :
          request' = [request EXCEPT ![a] =
                     [request[a] EXCEPT !.pc = "delete", !.before = before]]
    BY <1>0, <1>5, ReadBefore
  <2>3. /\ request'[a].pc = "delete" /\ request'[a].id = request[a].id
        /\ \A b \in Requests \ {a} : request'[b] = request[b]
    BY <1>0, <2>1, <2>2 DEF ChangeTypeOK, Change
  <2>4. UNCHANGED <<plans, given, unseen, shown, count, mixed>>
    BY <1>5 DEF ReadCurrent
  <2>5. "plan" \notin mixed => Left(a)' /\ Current'
    BY <2>1, <2>3, <2>4 DEF NoticeInv, PlanTold, Left, Current, OnlyOn, ActivePrices
  <2> QED
    BY <2>1, <2>3, <2>4, <2>5, IdsKept, WritesAlone DEF IsChanging
<1>6. ASSUME NEW a \in Requests, DeletePlan(a)
      PROVE  ChangeIds' /\ UnseenIds' /\ ShownIds' /\ OneChange' /\ PlanTold'
  <2>1. request[a] \in Change /\ IsChanging(a) /\ IsWriting(a)
    BY <1>0, <1>6, RequestFields DEF DeletePlan, Changing, Writing, IsChanging, IsWriting
  <2>2. /\ request'[a].pc = "insert" /\ request'[a].id = request[a].id
        /\ \A b \in Requests \ {a} : request'[b] = request[b]
    BY <1>0, <1>6, <2>1, StepRequest DEF DeletePlan, Changing
  <2>3. plans' = {} /\ UNCHANGED <<given, unseen, shown, count, mixed>>
    BY <1>6 DEF DeletePlan
  <2>4. Left(a)' /\ IsChanging(a)' /\ IsWriting(a)'
    BY <2>2, <2>3 DEF Left, IsChanging, IsWriting, Changing, Writing
  <2> QED
    BY <2>1, <2>2, <2>3, <2>4, IdsKept, WritesAlone DEF IsChanging
<1>7. ASSUME NEW a \in Requests, InsertPlan(a)
      PROVE  ChangeIds' /\ UnseenIds' /\ ShownIds' /\ OneChange' /\ PlanTold'
  <2>1. request[a] \in Change /\ IsChanging(a) /\ IsWriting(a) /\ request[a].pc = "insert"
    BY <1>0, <1>7, RequestFields DEF InsertPlan, Changing, Writing, IsChanging, IsWriting
  <2>2. /\ request'[a].pc = "notices" /\ request'[a].id = request[a].id
        /\ request'[a].price = request[a].price
        /\ \A b \in Requests \ {a} : request'[b] = request[b]
    BY <1>0, <1>7, <2>1, StepRequest DEF InsertPlan, Changing
  <2>3. /\ plans' = plans \union {Row(request[a].price, "paid")}
        /\ given'.price = request[a].price /\ UNCHANGED <<unseen, shown, count, mixed>>
    BY <1>7 DEF InsertPlan
  <2>4. "plan" \notin mixed => ActivePrices' = {request[a].price}
    <3> DEFINE new == Row(request[a].price, "paid")
    <3>1. new.price = request[a].price /\ new.status = "paid"
      BY DEF Row
    <3>2. ASSUME "plan" \notin mixed PROVE plans' = {new}
      BY <2>1, <2>3, <3>2 DEF NoticeInv, PlanTold, Left
    <3> HIDE DEF new
    <3> QED
      BY <3>1, <3>2 DEF ActivePrices
  <2>5. ("plan" \notin mixed => Left(a)') /\ IsChanging(a)' /\ IsWriting(a)'
    BY <2>2, <2>3, <2>4 DEF Left, OnlyOn, IsChanging, IsWriting, Changing, Writing
  <2> QED
    BY <2>1, <2>2, <2>3, <2>5, IdsKept, WritesAlone DEF IsChanging
<1>8. ASSUME NEW a \in Requests, DropNotices(a)
      PROVE  ChangeIds' /\ UnseenIds' /\ ShownIds' /\ OneChange' /\ PlanTold'
  <2>1. request[a] \in Change /\ IsChanging(a) /\ IsWriting(a) /\ request[a].pc = "notices"
    BY <1>0, <1>8, RequestFields DEF DropNotices, Changing, Writing, IsChanging, IsWriting
  <2>2. /\ \/ /\ request'[a].pc = "notice" /\ request'[a].id = request[a].id
              /\ request'[a].price = request[a].price
           \/ request'[a].pc = "idle"
        /\ \A b \in Requests \ {a} : request'[b] = request[b]
    BY <1>0, <1>8, <2>1, StepRequest, EndRequest DEF DropNotices, Changing, NoRequest
  <2>3. unseen' = {} /\ UNCHANGED <<plans, given, shown, count, mixed>>
    BY <1>8 DEF DropNotices, OutOfDate
  <2>4. "plan" \notin mixed => given.price = request[a].price /\ OnlyOn(request[a].price)
    BY <2>1 DEF NoticeInv, PlanTold, Left
  <2>5. "plan" \notin mixed => Left(a)' /\ Current'
    BY <2>2, <2>3, <2>4 DEF Left, Current, OnlyOn, ActivePrices
  <2> QED
    BY <2>1, <2>2, <2>3, <2>5, IdsKept, WritesAlone DEF IsChanging, Changing
<1>9. ASSUME NEW a \in Requests, AddNotice(a)
      PROVE  ChangeIds' /\ UnseenIds' /\ ShownIds' /\ OneChange' /\ PlanTold'
  <2> DEFINE new == [id |-> request[a].id, price |-> request[a].price]
  <2>1. request[a] \in Change /\ IsChanging(a) /\ IsWriting(a) /\ request[a].pc = "notice"
    BY <1>0, <1>9, RequestFields DEF AddNotice, Changing, Writing, IsChanging, IsWriting
  <2>2. request'[a].pc = "idle" /\ \A b \in Requests \ {a} : request'[b] = request[b]
    BY <1>0, <1>9, EndRequest DEF AddNotice, NoRequest
  <2>3. /\ unseen' = unseen \union {new} /\ UNCHANGED <<plans, given, shown, count, mixed>>
        /\ new.id = request[a].id /\ new.price = request[a].price
    BY <1>9 DEF AddNotice
  <2> HIDE DEF new
  <2>4. \A b \in Requests : IsChanging(b)' => IsChanging(b) /\ b # a /\ request'[b].id = request[b].id
    BY <2>2 DEF IsChanging, Changing
  <2>5. ChangeIds'
    BY <2>3, <2>4 DEF NoticeInv, ChangeIds
  <2>6. UnseenIds'
    BY <2>1, <2>3, <2>4 DEF NoticeInv, UnseenIds, ChangeIds
  <2>7. ShownIds'
    BY <2>1, <2>3, <2>4 DEF NoticeInv, ShownIds
  <2>8. "plan" \notin mixed =>
          given.price = request[a].price /\ OnlyOn(request[a].price) /\ unseen = {}
    BY <2>1 DEF NoticeInv, PlanTold, Left
  <2>9. "plan" \notin mixed => Left(a)' /\ Current'
    BY <2>2, <2>3, <2>8 DEF Left, Current, OnlyOn, ActivePrices
  <2> QED
    BY <2>1, <2>2, <2>3, <2>5, <2>6, <2>7, <2>9, WritesAlone
<1>10. ASSUME NEW a \in Requests, ChangeDies(a)
       PROVE  ChangeIds' /\ UnseenIds' /\ ShownIds' /\ OneChange' /\ PlanTold'
  <2>1. request'[a].pc = "idle" /\ \A b \in Requests \ {a} : request'[b] = request[b]
    BY <1>0, <1>10, EndRequest DEF ChangeDies, NoRequest
  <2>2. /\ UNCHANGED <<plans, given, unseen, shown>> /\ count'.changes = count.changes
        /\ mixed \subseteq mixed'
        /\ "plan" \notin mixed' => ~IsWriting(a)
    BY <1>0, <1>10 DEF ChangeDies, IsWriting, ChangeTypeOK
  <2>3. \A b \in Requests : IsChanging(b)' => IsChanging(b) /\ request'[b].id = request[b].id
    BY <2>1 DEF IsChanging, Changing
  <2>4. ~IsWriting(a)'
    BY <2>1 DEF IsWriting, Writing, Changing
  <2> QED
    BY <2>1, <2>2, <2>3, <2>4, IdsKept, RestsOn
<1>11. ASSUME NEW a \in Requests, BeginToggle(a) \/ SaveToggle(a)
       PROVE  ChangeIds' /\ UnseenIds' /\ ShownIds' /\ OneChange' /\ PlanTold'
  <2>1. /\ request[a].pc \notin Writing /\ request'[a].pc \in {"toggle", "idle"}
        /\ \A b \in Requests \ {a} : request'[b] = request[b]
    BY <1>0, <1>11 DEF BeginToggle, SaveToggle, End, ChangeTypeOK, NoRequest, Changing, Writing
  <2>2. UNCHANGED <<plans, given, unseen, shown>> /\ count'.changes = count.changes
        /\ mixed \subseteq mixed'
    BY <1>0, <1>11 DEF BeginToggle, SaveToggle, ChangeTypeOK
  <2>3. \A b \in Requests : IsChanging(b)' => IsChanging(b) /\ request'[b].id = request[b].id
    BY <2>1 DEF IsChanging, Changing
  <2>4. ~IsWriting(a) /\ ~IsWriting(a)'
    BY <2>1 DEF IsWriting, Writing, Changing
  <2> QED
    BY <2>1, <2>2, <2>3, <2>4, IdsKept, RestsOn
<1>12. ASSUME NEW b \in Tabs, FindNotice(b)
       PROVE  ChangeIds' /\ UnseenIds' /\ ShownIds' /\ OneChange' /\ PlanTold'
  BY <1>1, <1>12 DEF FindNotice
<1>13. ASSUME NEW b \in Tabs, MarkSeen(b)
       PROVE  ChangeIds' /\ UnseenIds' /\ ShownIds' /\ OneChange' /\ PlanTold'
  <2> DEFINE found == {n \in unseen : n.id = tab[b]}
  <2>1. /\ unseen' = unseen \ found /\ UNCHANGED <<plans, given, request, count, mixed>>
        /\ tab[b] \in NoticeIds
        /\ shown' = IF found # {} THEN [shown EXCEPT ![tab[b]] = @ + 1] ELSE shown
    BY <1>0, <1>13 DEF MarkSeen, Told, ChangeTypeOK
  <2>2. ChangeIds' /\ UnseenIds'
    BY <2>1 DEF NoticeInv, ChangeIds, UnseenIds, IsChanging
  <2>3. OneChange' /\ PlanTold'
    BY <2>1 DEF NoticeInv, OneChange, PlanTold, Left, Current, OnlyOn, ActivePrices, IsWriting
  <2>4. CASE found = {}
    <3>1. ShownIds'
      BY <2>1, <2>4 DEF NoticeInv, ShownIds, IsChanging
    <3> QED
      BY <2>2, <2>3, <3>1
  <2>5. CASE found # {}
    <3>1. PICK n \in unseen : n.id = tab[b]
      BY <2>5
    <3>2. /\ shown[tab[b]] = 0 /\ tab[b] <= count.changes
          /\ \A a \in Requests : IsChanging(a) => request[a].id # tab[b]
      BY <1>0, <2>1, <3>1 DEF NoticeInv, ShownIds, UnseenIds, ChangeTypeOK
    <3>3. \A m \in unseen' : m \in unseen /\ m.id # tab[b]
      BY <2>1
    <3>4. /\ shown'[tab[b]] = 1
          /\ \A i \in NoticeIds \ {tab[b]} : shown'[i] = shown[i]
      BY <1>0, <2>1, <2>5, <3>2 DEF ChangeTypeOK
    <3>5. ShownIds'
      BY <2>1, <3>2, <3>3, <3>4 DEF NoticeInv, ShownIds, IsChanging
    <3> QED
      BY <2>2, <2>3, <3>5
  <2> QED
    BY <2>4, <2>5
<1>14. ASSUME NEW a \in Requests, NEW price \in Prices, DeleteForBought(a, price)
       PROVE  ChangeIds' /\ UnseenIds' /\ ShownIds' /\ OneChange' /\ PlanTold'
  <2>1. /\ request'[a].pc = "bought" /\ \A b \in Requests \ {a} : request'[b] = request[b]
        /\ request[a].pc = "idle"
    BY <1>0, <1>14, BeginReplacing DEF NoRequest
  <2>2. /\ count'.changes = count.changes /\ UNCHANGED <<unseen, shown>>
        /\ given'.price = given.price /\ ~given'.stands
        /\ mixed \subseteq mixed'
        /\ "plan" \notin mixed' => \A b \in Requests : ~IsWriting(b)
    BY <1>0, <1>14 DEF DeleteForBought, Overlapped, Busy, IsWriting, ChangeTypeOK
  <2>3. \A b \in Requests : IsChanging(b)' => IsChanging(b) /\ request'[b].id = request[b].id
    BY <2>1 DEF IsChanging, Changing
  <2>4. "plan" \notin mixed' => Current'
    BY <2>2 DEF NoticeInv, PlanTold, Current, OnlyOn
  <2>5. "plan" \notin mixed' => Left(a)'
    BY <2>1, <2>2, <2>4 DEF Left
  <2> QED
    BY <2>1, <2>2, <2>3, <2>4, <2>5, IdsKept, ToldStep
<1>15. ASSUME NEW a \in Requests, FindNoPlan(a)
       PROVE  ChangeIds' /\ UnseenIds' /\ ShownIds' /\ OneChange' /\ PlanTold'
  <2>1. /\ request'[a].pc = "first" /\ \A b \in Requests \ {a} : request'[b] = request[b]
        /\ request[a].pc = "idle"
    BY <1>0, <1>15, BeginReplacing DEF NoRequest
  <2>2. /\ UNCHANGED <<plans, given, count, unseen, shown>> /\ plans = {}
        /\ mixed \subseteq mixed'
        /\ "plan" \notin mixed' => \A b \in Requests : ~IsWriting(b)
    BY <1>15 DEF FindNoPlan, Overlapped, Busy, IsWriting
  <2>3. \A b \in Requests : IsChanging(b)' => IsChanging(b) /\ request'[b].id = request[b].id
    BY <2>1 DEF IsChanging, Changing
  <2>4. "plan" \notin mixed' => Current'
    BY <2>2 DEF NoticeInv, PlanTold, Current, OnlyOn, ActivePrices
  <2>5. "plan" \notin mixed' => Left(a)'
    BY <2>1, <2>2, <2>4 DEF Left
  <2> QED
    BY <2>1, <2>2, <2>3, <2>4, <2>5, IdsKept, ToldStep
<1>16. ASSUME NEW a \in Requests, InsertBought(a) \/ InsertFree(a)
       PROVE  ChangeIds' /\ UnseenIds' /\ ShownIds' /\ OneChange' /\ PlanTold'
  <2>1. /\ request[a].pc \in {"bought", "first"} /\ IsWriting(a) /\ request'[a].pc = "idle"
        /\ \A b \in Requests \ {a} : request'[b] = request[b]
    BY <1>0, <1>16, EndRequest DEF InsertBought, InsertFree, NoRequest, IsWriting, Writing
  <2>2. UNCHANGED <<given, unseen, shown, count, mixed>>
    BY <1>16 DEF InsertBought, InsertFree
  <2>3. \A b \in Requests : IsChanging(b)' => IsChanging(b) /\ request'[b].id = request[b].id
    BY <2>1 DEF IsChanging, Changing
  \* A notice of a plan that stands is of rows that are there.
  <2>4. "plan" \notin mixed => Current /\ (~given.stands \/ unseen = {})
    <3>1. "plan" \notin mixed => /\ Current
                                /\ (request[a].pc = "first" => plans = {})
                                /\ (request[a].pc = "bought" => ~given.stands)
      BY <2>1 DEF NoticeInv, PlanTold, Left
    <3>2. plans = {} => ActivePrices = {}
      BY DEF ActivePrices
    <3> QED
      BY <2>1, <3>1, <3>2 DEF Current, OnlyOn
  <2>5. "plan" \notin mixed => Left(a)' /\ Current'
    BY <2>1, <2>2, <2>4 DEF Left, Current, OnlyOn
  <2> QED
    BY <2>1, <2>2, <2>3, <2>5, IdsKept, WritesAlone
<1>17. ASSUME NEW row \in plans, PlanLapses(row)
       PROVE  ChangeIds' /\ UnseenIds' /\ ShownIds' /\ OneChange' /\ PlanTold'
  <2>1. /\ UNCHANGED <<request, unseen, shown, count, mixed>>
        /\ given'.price = given.price /\ ~given'.stands /\ plans # {}
    BY <1>0, <1>17 DEF PlanLapses, ChangeTypeOK
  <2>2. OneChange'
    BY <2>1 DEF NoticeInv, OneChange, IsWriting
  <2>3. Current => Current'
    BY <2>1 DEF Current, OnlyOn
  <2>4. \A a \in Requests : Left(a) => Left(a)'
    BY <2>1, <2>3 DEF Left, OnlyOn
  <2>5. PlanTold'
    BY <2>1, <2>3, <2>4 DEF NoticeInv, PlanTold, IsWriting
  <2> QED
    BY <2>1, <2>2, <2>5, IdsKept DEF IsChanging
<1> QED
  BY <1>2, <1>3, <1>4, <1>5, <1>6, <1>7, <1>8, <1>9, <1>10, <1>11, <1>12, <1>13, <1>14, <1>15,
     <1>16, <1>17
     DEF ChangeNext

\* No notice is shown twice, by however many tabs it is found, and one that nobody
\* saw tells the plan a super admin gave last, which the account is on unless a
\* purchase replaced it or it ran out; or requests overlapped, or one died half way.
THEOREM NoticesTellThePlan == ChangeSpec => []NoticeIsCurrent
<1>1. NoticeInv => NoticeIsCurrent
  <2> SUFFICES ASSUME NoticeInv PROVE NoticeIsCurrent
    OBVIOUS
  <2>1. \A n \in NoticeIds : shown[n] <= 1
    BY DEF NoticeInv, ShownIds, ChangeTypeOK
  <2>2. Busy(Writing) = {} => \A a \in Requests : ~IsWriting(a)
    BY DEF Busy, IsWriting
  <2> QED
    BY <2>1, <2>2 DEF NoticeInv, PlanTold, Current, OnlyOn, NoticeIsCurrent
<1> QED
  BY <1>1, NoticeInit, NoticeStep, PTL DEF ChangeSpec
=============================================================================

# Kadehub in TLA+

A verification project for Kadehub: the backend (`src/backend/src`) and the part of the
web frontend that keeps state of its own. It models the parts of the program whose
correctness depends on the order in which several actors act, checks them with TLC on
small instances, and proves the most important safety properties with TLAPS for
instances of every size.

Two kinds of code carry most of the risk. The e-mail agent (`modules/email-agent`) lets a
language model draft mail that people approve and overlapping workers send; its rules rest
on database triggers, conditional UPDATEs, leases and retries. The business modules (orders,
tasks, billing, payroll, shop, roster) have hardly a transaction: a request reads, checks and
writes in separate statements, and everything depends on what may come in between.

## 1. Inventory

Paths are relative to `src/backend/src` unless they begin with `frontend`. Handlers read and
write rows of one PostgreSQL database; requests share no memory, so components interact by
rows, by the HTTP interface, by the in-process event emitter (`common/events`) and by cron
ticks.

| Component | State | Operations | Interacts with | Hard behaviour | What makes it correct | Modelled |
|---|---|---|---|---|---|---|
| Row guard: `database/migrations-email-agent.ts` | `ea_email`, `ea_attachment`, their triggers | every INSERT, UPDATE | all writers of the agent | two triggers in one statement, older snapshots under READ COMMITTED | approval is stamped by the trigger; a changed content loses it; only what was approved is claimed | `EaEmailRow` |
| Approvals: `email-agent/approval.service.ts` | `ea_email`, `ea_attachment`, `ea_prospect.status` | approve, edit, reject, cancel, reopenFailed, add/removeAttachment | row guard, job queue | reviewers act at once; role read outside the transaction; check and UPDATE apart | what is approved is what was shown, by someone who may | `EaSendPath` |
| Send path: `email-agent/send.service.ts`, `mail/gmail.ts` | `ea_email.status`, `ea_daily_send`, the worker's locals | sendApproved, recordSent, markFailed, voidApproval, cancel, sweepStuck | approvals, ingest, Gmail | stale reads between queries, crash, lost answers, frozen workers, midnight | one message at most per approval; daily limit; opt-outs respected; `sending` ends | `EaSendPath`, `EaApprovalTickets` |
| Job queue: `email-agent/jobs.service.ts`, `worker.service.ts` | `ea_job`, the tick's locals | enqueue, claim, complete, defer, fail, retry, tick | all jobs | overlapping ticks, leases, crash, outcomes written by id | jobs are handed out as from a locked table; one holder; bounded attempts; every job ends | `EaJobQueue`, `EaLockedQueue` |
| Ingest: `email-agent/ingest.service.ts` | `ea_mailbox_state`, `ea_message`, poll locals | poll, processIds, store | Gmail, send path, job queue | lease outlived, expired history, page caps, failures | every message applied once; the cursor passes no unread mail | `EaPoll` |
| Outreach: `email-agent/pipeline.service.ts`, `worker.service.ts` | `ea_prospect`, `ea_email`, `ea_job` | scheduleOutreach, draftOutreach, advanceSequence, start, stop | job queue, send path, ingest | a prospect leaves while the AI thinks; a crash between two updates; redrafts | each touch once and in order; nobody forgotten; who left is left alone | `EaOutreach` |
| Research, classification, AI budget: `research.service.ts`, `ai.service.ts` | `ea_ai_usage`, `ea_campaign` | model calls | job queue | - | - | no (what is written, not when) |
| Settings and admin: `email-agent/settings.service.ts`, `admin.service.ts` | `ea_settings`, `ea_suppression` | update, pause, suppress, retryJob, startProspects | all of the above | changed under running jobs | (inputs of the others) | as actions of the above |
| COD orders: `modules/cod` | `cod_order`, stock, settlements, credit, plan counters | create, applyStatus, edit, delete, settle, courier sync | courier APIs, platform | unlocked read, then save of the whole entity; courier answers against a stale order | stock follows the status; settled by one payment; corrections stick | `CodOrders`, but credit and limits |
| Tasks market: `modules/tasks`, `super-admin/tasks-cleanup.ts` | `task`, `task_offer`, `tasker_profile` | post, edit, offer, withdraw, accept, cancel, complete, confirm, autoClose, account deletion | cron | two-sided protocol without locks | the accepted offer is the hired one; hired for good; counted once; closed in the end | `TaskMarket` |
| Billing: `modules/billing`, `platform/product-access.service.ts` | `payment_transaction`, `subscription`, `cod_order_topup`, `tenant.status` | initiate, webhook, verify, slip, approve, reject, enable, nightly expiry | OnePay, cron | notices repeated, late, out of order; delete then insert | nothing without money; one plan per product; COD stays open | `PlanPayments` |
| Plan changes: `super-admin.service.ts`, `platform/plan-upgrade-notice.service.ts` | `coupon`, `subscription`, `plan_upgrade_notice` | changePlan, toggleCoupon, planChanged, claim | billing, product access and the nightly job write the same rows | coupon at its limit; two tabs; two changes; a purchase or the end of a plan under an unseen notice | limit kept; each notice shown once, and of the plan given last | `PlanChanges` |
| Shop: `pos`, `inventory`, `credit`, `supplier` | `inventory`, `sale`, `credit_sale`, `purchase_order` | createSale, voidSale, adjustStock, recordPayment, create/receive/cancelOrder | event emitter | check at the sale, decrement in a listener nobody waits for; double receive, double void | stock is what was bought less what was sold; balances add up | `ShopStock` |
| Offline sales: `frontend/src/hooks/useOfflineSync.ts`, `Cart.tsx` | `localStorage` queue | checkout, sync | POS | queue read at first, written at the end; lost answers, closed pages, two tabs | a queued sale is kept until sold, and sold once | `OfflineSales` |
| Payroll: `hr/hr-payroll.service.ts` | runs, payslips, advances, repayments, asset charges | create, regenerate, edit, remove, finalize, reopen, pay, advances | - | saves in a row without a transaction; run again after a failure; any order | advances add up; one payslip a period; paid is final | `Payroll` |
| Roster and leave: `hr/hr-time.service.ts` | roster, swaps, leave requests | fill, delete, swap, decide, leave | - | each side checks what the other had when it looked | leave blocks the day; swaps as they were asked for; balance kept | `HrRoster` |
| Attendance, hiring, reviews: `hr/hr-time`, `hr-talent`, `hr-org` | one row each | punch, CRUD, reports | - | - | - | no |
| Quotations, expenses, batches, analytics | one table each | CRUD, number sequence, reports | - | number race | - | no |
| Auth, tenants, staff | `user`, tokens | sign-up, sign-in, CRUD | every guard | - | - | no |
| Super admin | all tables | plan changes, coupons, nightly job, deletion, roles | all | role changes under running requests | the last admin stays | parts, in the modules above |
| Web frontend (`frontend/src`), rest | React state | pages and forms | HTTP | - | - | no |

## 2. Plan

Done, in this order:

1. `EaEmailRow`, `EaSendPath` and the abstract `EaApprovalTickets`, with proofs.
2. `EaJobQueue` and `EaPoll`, with proofs.
3. `CodOrders`, with proofs.
4. `TaskMarket` and `EaOutreach`, with proofs.
5. `PlanPayments` and `PlanChanges`, with proofs; `Payroll`, `ShopStock`, `OfflineSales` and
   `HrRoster`, each with proofs.

Left:

* `CodOrders`: customer credit and overpayment, the plan's monthly limit, the sync's queue (is
  every parcel asked about in the end?).
* `PlanPayments`: the registration fee (a payment that starts a trial) and invoices; and the plan
  changes of an administrator next to payments of several products (`PlanChanges` has everybody's
  writes of one product's rows, without the payments behind them).
* Proofs: every safety property that a passing run checks has its theorem, types of compositions and both
  refinements included; liveness stays with the runs (section 6).
* The calculators (`cod-orders-calc.ts`, `hr-calc.ts`) as operators against a reference.

## 3. Modules and how they correspond to the code

Every module keeps the rows of its tables as variables and the locals of each request in one
more (`worker`, `request`, `call`, `handler`, `clerk`, `till`, `desk`, `agent`, `sync`). A handler
with several queries is several actions, one per query or per transaction: what it does before
its first write is its `Begin...` action, with the early returns as guards, and each write is an
action that uses the locals as they were read. A request may stop between any two of them
(`Die`, `Fail`, `PayFail`, `Stop`, `Break`, `LeaveDesk`). Counters that only bound the search
(`begun`, `called`, `asked`, `served`, `filed`) are compared with the constants marked "bound".

History variables are read by properties and by no guard. Besides the records of what
happened (`grants`, `closings`, `given`, `taken`, `redeemed`, `shown`, `kept`, `adjusted`) there are those that say
which objects the code makes no promise about, because two requests were at work on them at a
time or one stopped half way: `raced` (products), `mixed` (coupon, plan), `mishaps` (payroll),
`muddled` (products, sales, orders), `uncounted` (taskers), `crossed`, `traded` and `stale` (roster), `unsure` (carts), `dropped`
(prospects). Section 4 says for each property what is exempted and why.

**`EaEmailRow`** is one row of `ea_email` and its BEFORE UPDATE trigger. `EmailGuard(old, new, actor,
admins)` is the set of rows the trigger stores for a statement that asks for `new`: a singleton, or
empty when the trigger raises and the transaction rolls back. `GuardAllows` is the conjunction
of the trigger's exceptions, `GuardStores` what it writes: the fall back to `pending_approval`,
and the stamp. The content hash is the tuple of what it covers (SHA-256 without collisions).
All writers in `EaSendPath` go through it, so the model cannot reach a row the database would
refuse. The PostgreSQL triggers are the ones modelled; the MySQL text states the same rules.

**`EaSendPath`** composes reviewers, environment and workers.

* Reviewers: one action per `ApprovalService` operation. `approve` is three: the load and
  comparison (`LoadForApproval`), the UPDATE (`Approve`), and its refusal (`ApproveConflict`),
  because nothing is locked in between. The other transactions are one action each: what they
  write does not depend on what they read before their UPDATE except through its WHERE clause
  or the trigger, which look again. `AddOverlapping` is two uploads whose transactions overlap.
  `HumanActor` is the role read before the transaction; `late` are the users disabled since,
  for one request.
* Environment: opt-outs with the cancellation `suppress()` makes in the same transaction, replies,
  prospect administration, pause, roles, midnight.
* Workers: `sendApproved` is one action per query (`ReadEmail` .. `Claim`, `Provider`, `RecordSent`,
  `MarkFailed`), with the locals in `worker[w]`; `Claim` is the transaction that takes a slot and
  moves the row to `sending`. `Provider` answers accepted, refused or unknown, and the unknown
  message may or may not have arrived. The bookkeeping may give up. `sweepStuck` is `GrowOld`
  (ten minutes pass), `SweepLook` and `SweepFail` or `RecordSent`. What `recordSent` does to the
  sequence afterwards is in `EaOutreach`.
* `BeginSend` stands for a send job in any worker's hands, so every schedule the queue may
  produce (re-runs, two holders) is included.

**`EaApprovalTickets`** is the promise: an approval is a ticket that is open, withdrawn, or claimed
once and then used at most once, on its own terms. `EaSendPath!KeepsTickets` is its specification
under the mapping `TicketOf`.

**`EaJobQueue`** keeps of each `ea_job` row its status, attempts and whether its time has come
(`ripe`). A claim remembers its `now` as the set of rows that were ripe for it (`timely`): a row
stamped later is not. `ReadCandidates`, `Try` (dead letter, win or lose the compare-and-swap) and
`EndClaim` are `claim`; `RunJob` is a job and its outcome, written by id as the code does. `MaySlow`
says whether a batch can outlast its lease.

**`EaPoll`** numbers messages by arrival; a history id is the number of the newest one and a moment
is the number of messages that had come. `TakeLease` to `Finish` are `poll` query by query;
`Abandon` is an error (lease released) or a crash (lease kept). `Arrive`, `Delete` and
`ExpireHistory` are Gmail, which is external.

**`EaOutreach`** is the sequence of a prospect: `ReadDue` and `Schedule` are `scheduleOutreach`,
`BeginDraft` and `SaveDraft`/`RefuseDraft`/`PutOff` are `draftOutreach` before and after the model call,
`CheckMail` .. `AdvanceSequence` the send and what it does to the prospect, `SweepFound` and
`SweepFail` the sweep, `Review`, `Reject`, `Cancel`, `Start`, `Leaves` and `Suppress` what people do. A send
is coarser here than in `EaSendPath`; what is finer is the bookkeeping after it, where
`recordSent` and `advanceSequence` are two steps and a worker can die in between. Two assumptions are
about time: a gap of days ends after whoever was sending or scheduling that moment is done
(`GapEnds`), and a reviewer's approval takes longer than the loop that schedules (`Review`).
`Late` says whether the sweep may take up an email that somebody still works on.

**`CodOrders`** models the handlers of `cod.service.ts` and of the two courier services.

* A handler reads an order, and later saves the whole row as it read it. The read is one action
  (`ReadOrder`, `SyncReads`), the save another (`SetStatus`, `UpdateOrder`, `SetTracking`, `DeleteOrder`,
  `SyncSaves`). The stock movement before the save belongs to the save's step: it locks the item's
  row until the commit, so no other movement comes between, and one catalogue item stands for
  all. `Storable` is the foreign key on the row's `remittance_id`.
* `lines` is the quantity an order asks for now, `taken` what a delivery took: edits of delivered
  orders, returns and deletions put back what the lines say at that time.
* `MayOverlap` says whether the database lets another write of the same order commit between a
  read and its save. The code takes no lock there, so it does; `FALSE` is the assumption that
  requests for one order come one after another.
* The sync is `AskCourier`, `CourierAnswers` (the decision, and "each state acts once"), `SyncReads` and
  `SyncSaves` (`updateOrderStatus`), and `Stamp`. Its calls to the courier overlap with everything,
  `MayOverlap` or not, and it may die between any two of them. `failed_attempt` stands for the
  three courier states that move no order. Every modelled order has a tracking number; one
  without it is never asked about.
* `CheckStatement` and `RecordPayment` are `record`: the statement is checked against the orders,
  then they are locked and looked at again. `RemovePayment` is `remove`.
* `ParcelMoves` is the courier, which is external. `CountStock` is the stock form.

**`TaskMarket`**: `BeginOffer`/`MakeOffer`, `BeginWithdraw`/`WithdrawOffer`, `BeginAccept`/`AcceptOffer`,
`BeginEdit`/`SaveEdit`, `BeginCancel`/`CancelOffers`/`CancelTask`, `BeginComplete`/`MarkComplete` and
`BeginConfirm`/`CloseTask` are the handlers of `tasks.service.ts`. `CloseTask`, `ReadProfile` and
`CountClosing` are `closeTask`, for the poster and for the hourly job (`FindDue`, then one task after
the other, `Onward`). Only `AcceptOffer` and `CloseTask` are guarded UPDATEs. `DeleteTasker` and
`DeletePoster` are `deleteTasksDataForUsers`, which runs in one transaction. `EditsOverlap` says
whether another write of a task may commit between the read and the save of an edit. `closings` counts
for the tasker who is hired when the UPDATE commits, `done` for the one of the row that was read;
`uncounted` has the taskers for whom the two may differ.

**`PlanPayments`** is one account: `BeginWebhook`, `BeginVerify`, `BeginSlip`, `BeginApprove`, `BeginReject` and
`BeginEnable` read and check; `SaveCompleted`, `SaveFailed`, `InsertSlip`, `FindTopUp`/`InsertTopUp`,
`DeleteRows`/`InsertRows` and `InsertFirst` are the writes, in the order of the code. The rows of a
plan (one per module of the package) are one here: they are deleted and saved together.
`OnePayAnswers` is external: a notice, once sent, may be delivered again at any time
(`notices` never shrinks). `FindLapsed`, `EndPlan` and `Suspend` are the nightly job, which saves rows
as it read them. `Access` is `getAccess`.

**`PlanChanges`** is one product of an account, with everybody who writes its subscription rows:
`changePlan` query by query (`BeginChange`, `Redeem`, `ReadCurrent`, `DeletePlan`, `InsertPlan`,
`DropNotices`, `AddNotice`), a purchase (`DeleteForBought`, `InsertBought`: `activateSubscription`), the
product turned on (`FindNoPlan`, `InsertFree`: `enableProduct` and `activateTrial`) and the nightly job
(`PlanLapses`); only the first touches notices. `toggleCoupon` is `BeginToggle` and `SaveToggle` (the row as
read, with its count), `claim` is `FindNotice` and `MarkSeen`. A row is a monthly price and whether it is
paid for a time, free, or inactive; `given` is the price a super admin gave last and whether it still
stands, that is, whether no purchase replaced it and it did not run out. Packages sold on top of a
plan (`OneOff`) are no upgrade, and their purchase leaves the rows alone.

**`Payroll`** has one action per save of `hr-payroll.service.ts`. A request that goes over payslips or
advances keeps what it has still to do, with the rows as it read them (`todo`, `open`). The
cascades of the schema are in `DropSlips` and `DropAdvance`; a save that names a row gone in the
meantime is refused (`Orphan`, `Refused`). `Deducted` is the end of `computePayslip`: assets before
advances, each capped by what is left of the pay.

**`ShopStock`**: sales and orders have lines (`Items`), several of one product among them. A sale is
`BeginSale`, `CheckLine` for each line by itself, `InsertSale`, `InsertItems`,
`InsertCredit`; it announces itself (`Announced`), and `Decrement` is one line of the listener, which
nobody waits for and which may be lost (`LoseListener`). Voids and receipts restore or add line
by line and mark the paper last. `BeginReceive` and `BeginCancelOrder` take an order in any status,
as the code does. `BeginAdjust`/`SaveStock` write an absolute number.

**`OfflineSales`** is the queue in the browser: `QueueSale` (checkout offline), `BeginSync`, `PostSale`,
`PostFails`, `LoseAnswer`, `EndSync` (the queue becomes what failed), `ClosePage`.

**`HrRoster`**: `BeginFill`/`SaveShift` are `saveEntry`, `bulkFill` and `copyWeek`, for one cell or many;
`RequestSwap`/`InsertSwap`, `AnswerSwap`/`SaveAnswer` and `ApproveSwap`/`ApplySwap` are the swaps;
`RequestLeave`, `DecideLeave`, `SaveLeave` and `OffRoster` are leave. `SetShifts` is what the schema does to
swaps when shifts go.

**`MC...`** modules give values and symmetry. Components are checked
side by side in one run: the initial state chooses a `part`, and only that part moves; each
part is explored completely. `MCEaSettles` has the send path and the poll; `MCScheduled` jobs,
market and outreach; `MCShops` COD, stock, offline sales and roster; `MCBusiness` payments, plan
changes, payroll and the mailbox. Most share no row with another; payments and plan changes do,
and `PlanChanges` has a purchase and the night as actions of its own for that; the sales that
`OfflineSales` posts are `ShopStock`'s, and it never reads them again. Operators introduced as a "Mutant of" a definition state
a plausible bug; nothing but mutation uses them.

**`EaLockedQueue`** is what `claim`'s comment promises of its compare-and-swap, "same guarantee as SKIP LOCKED"
(`jobs.service.ts:28-31`): a table whose rows are locked while they are looked at. A job is taken in one
step by a tick that nobody else runs it under (`Take`), settled by that tick alone (`Settle`), and buried
only when its ticks died too often (`Bury`). `EaJobQueue` implements it as `ActsLocked`: `by` is who holds
the job, `tries` its `attempts`; reading candidates, passing over those that were lost, and what expires
are stuttering steps.

**`...Proofs`** modules hold the theorems (section 6).

## 4. Runs

| Run | What it checks | Bounds |
|---|---|---|
| `EaSendOptOut` | `ClaimRespectsOptOut`: an opt-out or a reply stored after the approval keeps the email from being claimed. `ApproverStands`: the approver is active when the approval is stored and when it is claimed | 1 email of a prospect, 2 addresses, 1 worker, 2 approvals, 1 crash |
| `EaSendOverlap` | `TypeOK`; `WithinDailyLimit`; `SentWasAccepted`: a row shown as sent is in the mailbox; `KeepsTickets`: refinement | 2 workers that may freeze, limit 1, 2 days, 2 approvals, 1 crash |
| `EaSettles` | `OncePerApproval`, with attachments behind their hashes; `SendingSettles`: no email stays in `sending`; `MailIsRead`: each message is stored in the end | send: 1 worker, 2 files, 1 approval, 1 crash, freezing; mailbox: 2 polls, 2 messages, any number of failures, then none |
| `Scheduled` | jobs: `OneHolder`, `ActsLocked` (refinement of `EaLockedQueue`), `JobsEnd`; market: `AcceptedIsHired`, `HireKept`, `CreditedOnce`, `CompletedCloses`; outreach: `TouchesInOrder`, `NeverForgotten`, `EndsForGood`; and their types | 2 ticks, 2 jobs in batches of 2, 2 attempts, 1 crash, 1 retry; 1 task, 2 taskers with an offer each, 2 requests at a time and 6 in all, 1 failure; 1 prospect, 1 follow-up, 2 emails, 2 invocations, 1 loss |
| `Shops` | COD: `StockOutWhileDelivered`, `SettledOnce`, `CorrectionSticks`; shop: `StockAddsUp`, `CreditAddsUp`; offline: `SaleKept`, `SoldOnce`; roster: `LeaveHolds`, `SwappedAsAsked`; and their types | 2 orders of 1 or 2 pieces (1 at first), stock up to 2, 2 parcels, 2 requests at a time and 3 in all, 2 payments; 2 products, a sale on credit with two lines of one product and one for cash with a line of each, 1 delivery, 4 requests, 1 failure; 2 carts, 3 syncs, 1 page closed or answer lost; 2 colleagues, 2 days, 3 shifts, 1 swap, 2 leave requests, 2 fills and 4 others |
| `Business` | payments: `PaidForPlan`, `ActivatedOnce`; plan changes: `CouponWithinLimit`, `NoticeIsCurrent`; payroll: `AdvancesAddUp`, `OncePerPeriod`, `PaidIsFinal`; mailbox: `AppliedOnce`, `CursorCovers`; and their types | a plan, a top-up and a slip, 2 requests at a time and 3 in all, 1 failure, 1 night; 3 prices, one of them one-off, a coupon for 1 use, 3 in all of changes, a purchase, a toggle and a death, the night at any time; 1 employee, 1 advance up to 2, 1 asset, two runs of May and one of June, 5 requests, 1 stop; 2 polls, 2 messages, pages and cap of 1, an expiry or a deletion |
| `EaSendAccepted` | violation: accepted mail marked failed | as `EaSendOverlap` |
| `EaApproveShown` | violation: an unseen edit is approved | 2 reviewers, 2 texts |
| `EaJobsSlow` | violation: a done job runs again | 2 workers, 1 batch longer than its lease |
| `EaPollSkips` | violation: the cursor passes unread mail | as the mailbox of `Business` |
| `CodLocks` | violation: lapsed COD is closed | the payments of `Business` |
| `AssetTwice` | violation: one asset is charged twice | the payroll of `Business`, 4 requests one after the other |

### Why the bounds are enough

* One email with two approvals is the smallest history in which a worker can hold the first
  approval while the second is given; two workers are the smallest overlap; a limit of one
  with two days makes every slot contested and lets a refund land after midnight.
* Two jobs in a batch are needed for the second's lease to run while the first is at work; pages
  and cap of one with two messages make a poll stop early.
* One task with two offers has every conflict over an assignment; six requests are an offer each,
  two acceptances, a withdrawal and a confirmation. Two emails are a first touch with its redraft,
  or with its follow-up.
* Stock of 2 with quantities of 1 and 2 lets two deliveries compete and one be refused. Three
  requests are enough for a delivery, its correction and a sync that meets it, and for two
  overlapping statements and a removal. In the shop, one piece of each product makes the sales
  compete, and the two lines of a sale compete with each other; four requests are a delivery, two
  sales and a void.
* Three payment requests are a notice, its repetition and a night between, or an approval, a rejection
  and a payment. Three plan changes go up, down and up again around an unseen notice; two leave room
  for a purchase or a stop between or after them.
* Five payroll requests are create, finalize, reopen, edit and finalize again. Two that overlap
  are looked at among the first two requests only (`MaxOverlaps`, and in `MCBusiness` an overlap ends
  after two): the properties promise nothing after one, but the types and refusals do.
* `MCShops` lets the roster's requests overlap unless they are at work on the same thing
  (`crossed' = {}`): what follows such an overlap is exempted by its properties.

Every constant marked "bound" in a module only bounds the search; the others are parameters of the
system. In addition `MCShops` creates orders of one piece (`OneAtFirst`), and `MCBusiness` has one deletion
or one expiry of history, not both, and three in all of plan changes, purchases, toggles and deaths. Deadlock is checked in the runs of the send path and of the
mailbox, which may always go on. The others switch it off: the queue rests once all jobs are done,
and the business parts once the requests of their bound are used up.

### What the properties leave out, and why

These are limits of the code, not of the models; each is what TLC found when the property was
stated without the exemption.

* `ClaimRespectsOptOut`: an opt-out that commits after an approval was checked and before its
  UPDATE is not seen by that approval, and a worker that looked before it will claim.
* `EaJobQueue` runs with `MaySlow = FALSE` in `Scheduled`: a batch that outlasts its lease has its jobs taken by
  another tick, and `OneHolder` and `ActsLocked` fail; `EaJobsSlow` runs with `TRUE`.
* `CodOrders` runs with `MayOverlap = FALSE`. With `TRUE`, `StockOutWhileDelivered` and `SettledOnce` fail in
  six states: two requests read one order, both save it, and the second save brings back the
  first one's columns. The properties are what the handlers keep for any schedule of requests to
  different orders, of the courier's calls, of payments that overlap in their check, and of crashes.
* `CorrectionSticks` counts a status as corrected when staff set it after the sync had stamped the
  parcel's state on the order and with no sync of that order under way.
* `TaskMarket` runs with `EditsOverlap = FALSE`. With `TRUE` an edit read before an acceptance and saved
  after it takes the assignment back, with the offer still accepted: `AcceptedIsHired` and `HireKept`
  fail. `CreditedOnce` is an equality, but for the taskers in `uncounted`, whose count it bounds from above:
  two completions at a time may lose one, a handler may die before it counts, and when the
  tasker's account goes and another is hired between the read of a task and its close, the one who is
  hired is not credited. The code credits the one who left instead, in a profile made anew; of
  somebody whose account was deleted the property says nothing.
* `EaOutreach` runs with `Late = FALSE`. With `TRUE`, `TouchesInOrder` fails: `recordSent` moves the sequence on
  whether or not its UPDATE found the row in `sending`, so a sender that comes back after the sweep
  failed its email plans a follow-up to a touch that counts as failed. `NeverForgotten` exempts
  a prospect whose worker died between `recordSent` and `advanceSequence`, or whose email a reviewer
  redirected to somebody who then opted out: those are forgotten. `EndsForGood` lets `stopped` replace
  another reason, which a late refusal of the AI does.
* `ActivatedOnce`: two reports of one payment at a time add a top-up twice, or leave two sets of rows.
* `CouponWithinLimit`: a toggle that overlaps a redemption writes the old count back. `NoticeIsCurrent`: two
  overlapping writes of the plan, or one that died, leave a notice of another plan; and when the
  account buys another plan, or the plan ends, the notice of the old one stays, since
  `activateSubscription` (`billing.service.ts:748-762`) and `handlePlanExpiry`
  (`super-admin.service.ts:669-671`) touch no notice: it then tells what a super admin gave last,
  and not what the account is on.
* `StockAddsUp`: per product, an overlap of two requests about one paper, a second receipt, a correction
  made while stock moves, or a listener that died. And the stock goes below zero when two lines of a
  product are on sale at a time (`rush`): of two sales, where a sale goes on until its listener is done,
  or of one, whose lines are each checked against the whole stock (`pos.service.ts:39-43`).
  `CreditAddsUp`: two payments of one sale at a time lose one.
* `SaleKept`, `SoldOnce`: a sale queued while a sync is at work is lost when the sync writes back
  what it read; a lost answer, a closed page or a second tab posts a sale again.
* Payroll: two requests at a time break each property (a double click on finalize books twice), and
  a request that stopped leaves an advance closed or a payslip booked until it is run again.
* `LeaveHolds`: two requests that change the roster at a time, half days, and a shift got in return in a
  trade: `decideSwap` asks for the leave of the one who takes, not of the one who gets back.
  `SwappedAsAsked`: a shift that changed hands or was deleted while the swap was open. It does not say that
  the two agreed: `decideSwap` takes a request that still waits for the colleague
  (`hr-time.service.ts:347`), although a kiosk request is meant to go to the colleague first (310-311).

### What the violation runs show

* `EaApproveShown`. `approve` compares the hash of a row it has not locked with the one the page
  showed; its UPDATE asks only for id and status. An edit committed in between is approved, and
  the trigger pins the new content (`approval.service.ts:61-79`, against the comment at 55).
* `EaSendAccepted`. After an accepted message whose `recordSent` gave up, the sweep marks the email
  failed when the mailbox reader is not configured or does not answer
  (`send.service.ts:180-197`, against `docs/EMAIL_AGENT.md:54`).
* `EaJobsSlow`. Outcomes are written by id without asking who holds the job; with a batch longer
  than its lease a job that is done is queued again (`jobs.service.ts:64-88`, against
  `worker.service.ts:46`).
* `EaPollSkips`. A listing that stops at its cap writes the new cursor all the same; the older
  messages are never read (`ingest.service.ts:77-91`, against the comment at 40).
* `CodLocks`. The nightly job makes the lapsed paid rows of every product inactive, and COD, which
  looks at active rows only, is closed instead of carried on as Free
  (`super-admin.service.ts:669-671`, against `product-access.service.ts:65` and `docs/PLATFORM.md:46`).
* `AssetTwice`. Drafts of two periods each take the charge of an unreturned asset; finalizing the
  second skips the asset but keeps the deduction (`hr-payroll.service.ts:177-181` and 290, against
  `docs/PLATFORM.md:59`).

### Hazards that no property covers

`PROJECT.json` lists the hazards with their properties, and with what a property exempts. Two of those have
none: three parcels that the courier always answers with an error stay at the head of the sync's
queue (`cod-courier-sync.service.ts:156`), whose order is not modelled; and the sweep looks a
message up by its email, not by its attempt (`send.service.ts:180`), so that an earlier attempt's
message counts for the present one: `SentWasAccepted` asks no more than the sweep does. Known besides, and not modelled: a message whose store always throws
holds up the mailbox (`ingest.service.ts:115`; `MailIsRead` assumes it does not); two orders that list
two items in opposite order can deadlock on them (`cod.service.ts:375`); a customer's payments are
summed, then inserted (`cod.service.ts:574`); the plan's order limit is counted before the order is
created (`cod-account.service.ts:177`); two administrators can disable each other at once
(`super-admin-ops.service.ts:202`).

## 5. Fairness

* `EaSendPath!FairSpec`, restated in `MCEaSettles`: cron starts a tick every minute, and each tick
  begins with the sweep (`worker.service.ts:60`), so a sweep of an overdue email happens again and
  again (strong, because a busy worker disables it for a while); a started job's queries return or
  throw (weak); ten minutes pass (weak); the database is not away at each of infinitely many
  bookkeeping attempts (strong on `RecordSent`). Reviewers, opt-outs, crashes and the begin of a
  send are not assumed.
* `EaPoll!FairSpec`, there too: ticks keep coming, leases end, a poll's calls return, and trouble
  stops at some time; before it, any number of polls may fail or die.
* `EaJobQueue!FairSpec`, restated in `MCScheduled`: ticks keep coming, one begun goes on, time passes,
  and a job is not deferred for ever (the daily cap and the budget roll over, the agent is not
  paused for good).
* `TaskMarket!MarketFairness`, there too: the hourly job starts when something is due
  (`tasks.service.ts:482`, an `@Cron`), its queries return but for the failures of the bound, and seven
  days pass. Posters and taskers need not do anything.

No fairness is assumed of `EaOutreach`: that nobody is forgotten is stated as an invariant (something is
always ahead of an active prospect), which needs none.

## 6. Proofs

Eight modules hold theorems. `EaSendPathProofs` has the send path; `ScheduledProofs`, `ShopsProofs` and
`BusinessProofs` have the three compositions that `MCScheduled`, `MCShops` and `MCBusiness` check, the last
one with its parts in `PlanProofs`, `PayrollProofs` and `EaPollProofs`; `SumProofs` has the lemmas on sums that
two of them share. They speak of every value of the constants; the assumptions
(`SendAssumption`, `QueueAssumption`, `PollAssumption`, `CodAssumption`, `ShopAssumption`,
`OfflineAssumption`, `MarketAssumption`, `OutreachAssumption`, `PlanAssumption`, `ChangeAssumption`,
`PayrollAssumption`, `RosterAssumption`) state types, finiteness and distinctness of null values, and TLC
evaluates them in each run. `~MaySlow`, `~MayOverlap`, `~EditsOverlap` and `~Late` below are values of constants, and a
theorem under one of them says so; what happens without it is in section 4 or in the module.

### The send path: `EaSendPathProofs`

The module proves `TypeCorrect`, `ApprovalsConsistent` and `SentOncePerApproval`. `OncePerApproval` is not
inductive: nothing in it says why a worker about to send is the only one. The strengthening
`ApprovalInv` says that the pinned hash of an approved row is the grant of its last approval, that an
approval is claimed at most once and never while its row is approved, and that a worker past its
claim holds the body its approval pinned and has the only claim under which nothing went out.
The other promises of the send path are proved there too:

* `OptOutsRespected` (`ClaimRespectsOptOut`) rests on `NoNewObjection`: whatever speaks against an approved
  email spoke against it when it was approved, because `suppress` and `stopSequenceOnReply` cancel what
  is unsent in the transaction that stores the objection. The worker's own early checks are not needed.
* `SentMeansAccepted` (`SentWasAccepted`) adds `KnownAccepted`: a worker on its way to record a message,
  and a sweep that found one, refer to a message that is in the mailbox.
* `ApproversStand` (`ApproverStands`) is a property of steps, from the types and the trigger alone.
* `DailyLimitHolds` (`WithinDailyLimit`) is not inductive, since a refusal gives a slot back. `Slots` counts
  the workers that hold a slot of a day for a message the provider has not taken: what it took
  and what is held together stay within the count. It holds across midnight because a worker
  gives back the slot of the day it took it on.
* `SendPathKeepsTickets` (`KeepsTickets`): every step of the send path is a step of `EaApprovalTickets` or
  leaves the tickets alone, from `ApprovalInv`.

### What timers set off: `ScheduledProofs`

Job queue. `OneHolder`, that done is final (`DoneStaysDone`) and that attempts are bounded
are proved under `~MaySlow`, that batches end within their lease; `EaJobsSlow` shows the assumption is
needed. The invariant `QueueInv` adds to them: who holds a job, holds one that runs with his attempt
number and a live lease; a candidate read is no newer than its row; and a row that is ripe for a
claim under way is ripe. It is why the compare-and-swap on `attempts` is safe although `defer` lowers
them. `QueueTypes` needs no condition: an outcome written by id may then be of a job that others hold as
well, so only types can be said.

`QueueActsLocked` (`ActsLocked`) proves the refinement of `EaLockedQueue` under the same condition, which is
the comment's claim for any number of ticks, jobs, attempts and crashes. `LockedInv` is `QueueInv` with
`SnapshotsCurrent`: a candidate whose row is still timely is as it was read, since whoever writes `attempts` gives
the row a later `run_after` or lease. So who wins the compare-and-swap takes a job nobody holds and
whose attempts are not used up (`Take`); the second UPDATE of `claim` buries only a job whose holder is gone
(`Bury`: a copy that dropped its lease check would bury one that was retried and taken
again, which is the mutant of the property); an outcome, although written by id, is that of the one
holder (`Settle`); a crash is a `Leave`. Everything else stutters.

Outreach. `OutreachTypes` and `OutreachEndsForGood` are proved without a condition, and
`OutreachTouches` (`TouchesInOrder`) and `OutreachForgetsNobody` (`NeverForgotten`) under `~Late`. `TouchInv` says that
of each step of a prospect at most one thing is open: a touch that is due or being scheduled, a draft
job not done, a draft being written, or an email not yet settled; that whoever is past the claim of
an email is the only one; and that the prospect's step, jobs and emails of a step follow the sent
email of the step before. `NeverForgotten` speaks of jobs that are not done, and a job is done in
an early return too; `ForgetInv` speaks of drafts instead (`SomethingAhead`): an active prospect has a date, a
job without a draft, or an email that is not cancelled, sent ones included. It adds that a touch
with a date has no job yet and one being scheduled no approved email (`Unscheduled`, `Scheduling`), that
nothing is ahead of the prospect's step (`Behind`), that exactly one worker is there to plan after
a touch of that step was recorded (`Planning`), that a job of an active prospect's step ends only with
its draft (`DoneDrafted`), and that what is approved is for somebody who did not opt out (`Reachable`), so
that the check before a claim cancels only for prospects that left. With `Late` a worker that comes
back after the sweep sets a prospect's step back, and `Behind` is lost.

Market. `MarketTypes` is proved without a condition; under `~EditsOverlap` `MarketAccepted`, `MarketHireKept`
and `MarketCreditedOnce`. `AcceptedIsHired` is inductive only together with what `Hired`
adds: an open task has no offer, and the offer a task names was made for it, by the tasker it names. `CreditedOnce`
compares two things the code keeps apart: a closing counts for whoever is hired when the UPDATE
commits, the profile for the tasker of the row that was read. They are one person as long as his
account is there (`ReadsRight`), because nobody is hired in the place of somebody who is: that needs
`~EditsOverlap`, since an edit saved late would put an old tasker back. `CreditOK` then counts, for each
tasker who is still there: what the profile shows and the handlers on their way to it are together
no more than the closings, and as many while no count was in danger; and what such a handler read of
the profile leaves room for all of them (`ReadOK`).

### Stock and money: `ShopsProofs`

* COD: `OrdersTypeCorrect` without a condition, and under `~MayOverlap` `StockFollowsStatus`,
  `OrdersSettledOnce` and `CorrectionsStick`. All rest on `SaveInv`: while saves of an order do not overlap, a
  request about to save holds the row as it is, and is the only one. `StockOutWhileDelivered` and
  `SettledInv` (payments named by rows exist and were not removed) are inductive on top of it.
  `CorrectedAtRest` is the strengthening for corrections: a corrected order carries its parcel's
  state, and every sync of it in flight has yet to hear the courier and read the row after the stamp,
  so it will find nothing new.
* Credit: `CreditBalances` (`CreditAddsUp`). `CreditInv` calls a sale orderly that no two requests were about
  at a time: what was received is what the balance says, except while the one request that took
  the payment has yet to save the balance, and `TillKnows` says what that request will write.
* Stock: `StockIsWhatPapersSay` (`StockAddsUp`), with `ShopTypesHold`. The property speaks of a shop at rest, so
  `StockInv` says what holds at every step, product by product: its stock is the first stock and the
  corrections, plus the lines of orders brought so far, less those of sales taken off so far and not yet
  put back (`AddsUp`, from `Brought`, `TakenOff` and `PutBack`). It does so while the papers of the product are in
  order: at most one request is about a sale or an order, it finds the paper at the status it left it
  at, and at most one listener runs for the sale (`SaleClear`, `OrderClear`); a correction under way knows
  the stock, and nothing moves meanwhile (`GoodClear`). A second request, a stop or a lost listener muddles
  the paper, and of its products nothing is said from then on. That no more is sold than there is
  holds while at most one line of the product is on sale, of whatever sale: it has yet to be looked
  at, or the stock covers it (`Enough`). Two lines of one sale are as bad as two sales, as each is
  checked against the whole stock.
* Offline: `OfflineSalesKept` and `OfflineSoldOnce` from `OfflineInv`: a run that is not alone makes its carts
  unsure, and of the others the queue, what the one run has to post, what failed and what was sold
  add up.
* Roster: `RosterTypes`, and `LeaveTakesTheDay` (`LeaveBlocks`), `LeaveIsKept` (`LeaveHolds`) and `SwapsAreAsAsked`
  (`SwappedAsAsked`) from `RosterInv`, which has a part for each table, given up when two requests
  cross on it. Shifts (`RosterKept`): approved leave has taken its shifts off the roster or is about to
  (`Blocked`), and a request about to write shifts read them as they are and writes on nobody's leave
  (`Fresh`). Swaps (`SwapsKept`): an open swap passes on a shift of whoever asked, and in a trade names the other
  (`AsAsked`); who decides it knows it as it is (`Informed`). Leave (`LeaveKept`): what counts is within
  the year's days, and so it is with what a request is about to add (`Asked`), which is where the sums come in.

### Plans, pay and mail: `BusinessProofs` and its parts

`PlanProofs` has what is paid for. `PlanTypes` and `ChangeTypes` are the types.

* `PlansArePaid` (`PaidForPlan`): `PaidInv` follows the money to the rows: notices that say paid, handlers past
  their first save, the rows the night read and will write back, and top-ups all stand for a payment
  that was captured.
* `PaymentsApplyOnce` (`ActivatedOnce`): of a product that no two requests were about at a time, one handler is
  at work (`OneAbout`), about the product of its payment (`RightProduct`), it has not topped up before it
  does (`TopUpOnce`), and it inserts a row only where it left no active one (`RoomFor`).
* `CouponsKeepTheLimit` (`CouponWithinLimit`): the redemption is one conditional UPDATE; the toggle saves a row it
  read, so `CouponInv` says that one that overlapped no redemption writes the count as it is.
* `NoticesTellThePlan` (`NoticeIsCurrent`): the id of a change stands for its request, then for its unseen
  notice, then for one that was shown (`ChangeIds`, `UnseenIds`, `ShownIds`). `Current` is the promise about
  unseen notices: each is of the price given last, and that is the only active one as long as it stands
  (`OnlyOn`). It holds while nobody writes the plan, and `Left` says, for every place the one writer can be
  at, what is left of it: a purchase takes the plan away and has the last price no longer stand before
  it writes, a product turned on found no rows, and the night only ends what stood.

`PayrollProofs` has the payroll.

* Payroll: `PayTypesHold`; `OneSlipPerPeriod` (`OncePerPeriod`) and `PaidSlipsStand` (`PaidIsFinal`), which speak of the time in
  which no two requests overlapped. A request may stop between any two saves, so `PeriodInv` speaks
  of the rows at every one of them: a paid payslip is in a run that is no draft (`PaidLocked`), a person has
  one payslip of a period (`OnePerPeriod`), and each request `Knows` what it read, which is still so.
* Advances: `AdvancesStayCovered` (`AdvancesAddUp`), by `BooksInv`. Repayments are a table of advances by payslips and
  cash: a row adds up to what was paid back of an advance (`RepaidOf`), a column to what a payslip took back
  (`BookedOn`); `BooksGrow`, `BooksDrop` and `BooksForget` say what each write does to both sums. `Covered` says that no
  advance is paid back twice, and holds wherever requests stop: one that is about to book holds the
  balance it read, which is the balance still (`KnowsBalance`). `BooksKept` holds until one stops: an advance
  is closed only when it is paid back, but for those a reopen is about to open again; a payslip takes back no
  more than it deducts, and one of a draft nothing, but for the run that is being finalized. `KnowsBooked`
  says how far that request is: what is left to book fits what the payslip deducts, what it has yet to read
  was never booked, and an advance about to be closed is paid back.

`EaPollProofs` has the mailbox. `PollTypes`, `MailAppliedOnce` (`AppliedOnce`) and `CursorPassesHandled` (`CursorCovers`)
hold without a condition, for polls that outlive their lease too. `PollInv` says for each poll what it read: one of the
history has dealt with, or still has at hand, everything up to its position, which began at a
cursor that was right; a listing goes down from the newest message and has dealt with everything
above its position. So whichever poll writes its cursor last, what is behind it was handled.

### The compositions

A step of `MCScheduled` is a step of one of its parts that leaves the variables of the others alone. So
`ScheduledParts`, `ShopsParts` and `BusinessParts` prove that a behaviour of a composition is one of each of its
parts, whatever the values of the constants, and every theorem about a part is one about the
composition the run checks. `ScheduledTypes`, `ShopsTypes` and `BusinessTypes` are the type invariants of the three,
without a condition. `ScheduledSafe`, `ShopsSafe` and `BusinessSafe` state at one place all that the run of that name
checks but its types and what is live: the first under `~MaySlow`, `~EditsOverlap` and `~Late`, the second under
`~MayOverlap`, the values these runs have, and the third under no condition.

### Sums

`SumProofs` is about `MapThenSumSet` of the community modules: what it adds up does not depend on the order
in which it chooses the elements, and one entry that changes changes it by as much. The library's
induction over finite sets takes an operator as a parameter, which the provers cannot
instantiate. The lemmas use a smallest counterexample instead (`SmallestSubset`): strict inclusion is well-founded on
the subsets of a finite set, a fact that takes none.

### Only model-checked

Liveness (`SendingSettles`, `MailIsRead`, `JobsEnd`, `CompletedCloses`): fairness and ENABLED are outside of the prover.

## 7. What is left out

* Most of the repository by size is outside of the models: pages, forms and texts in three
  languages (`frontend/src`), which render what the server answers and keep no state it relies on;
  controllers and DTOs (routing and shapes); reports and exports; single-table CRUD. There is no
  protocol in them to check, so the models cover a small share of all lines, and most of the
  lines of the services they are about.
* Wording, MIME, the validator's verdicts and model calls; audit rows (append-only, read by no
  handler).
* The kinds filter of `claim` and its `limit * 3` candidates: they restrict which jobs a tick sees,
  and the model lets it see all.
* Time, except as what queries compare.
* In `CodOrders`: customer credit, payments by the customer, the plan's limit, item deletion; discounts,
  addresses and messages, which no modelled guard reads.
* In `TaskMarket`: questions, messages, photos, reports, reviews and hiding a task: single-row writes
  that no step of the protocol reads.
* In `PlanPayments`: the registration fee and invoices; a COD package that is retired while it can still be
  paid for. In `PlanChanges`: the deletion of the whole account, plans and notices with it. In `ShopStock`: product records, imports, loyalty points,
  discount codes. In `HrRoster`: attendance, and the overtime arithmetic of `hr-calc.ts`.
* Sign-up, sign-in, tenants and staff: checks of one row by one request; quotations, expenses and batches:
  CRUD with a number sequence whose number is unique in the database.

------------------------------- MODULE Payroll -------------------------------
(***************************************************************************)
(* Payroll runs, payslips and salary advances (hr-payroll.service.ts).     *)
(*                                                                         *)
(* Every request is a series of reads and single-row saves, with no        *)
(* transaction around them: finalizing books a repayment, closes an        *)
(* advance, charges an asset, one save after another, and the run's status *)
(* comes last.  A request may stop between any two of them.  An entity is  *)
(* saved as it was read, so a save also takes back what changed since.     *)
(***************************************************************************)
EXTENDS Integers, FiniteSets, FiniteSetsExt, Functions

CONSTANTS
  Employees,
  Advances,     \* numbered by given_date
  AdvanceOf,    \* hr_advance.employee_id
  Assets,       \* assets lost or damaged, to be charged
  AssetOf,      \* their employee
  Charge,       \* deduction_amount
  Runs,         \* payroll runs that may be created
  Period,       \* hr_payroll_run.period
  Covers,       \* the employees eligible for a run: those of its branch, or all
  Gross,        \* what a payslip's deductions are capped by, EPF and late taken
  Clerks,       \* requests in flight at one time
  MaxAmount,    \* bound: amount of an advance, and of a deduction
  MaxRequests,  \* bound: requests in all
  MaxOverlaps,  \* bound: only so many of the first may overlap
  MaxStops      \* bound: requests that stop half way

ASSUME PayrollAssumption ==
  /\ Advances \subseteq Nat /\ AdvanceOf \in [Advances -> Employees]
  /\ AssetOf \in [Assets -> Employees] /\ Charge \in [Assets -> Nat \ {0}]
  /\ Covers \in [Runs -> SUBSET Employees] /\ DOMAIN Period = Runs
  /\ Gross \in [Employees -> Nat]
  /\ IsFiniteSet(Employees) /\ IsFiniteSet(Runs) /\ IsFiniteSet(Advances) /\ IsFiniteSet(Assets)
  /\ {MaxAmount, MaxRequests, MaxOverlaps, MaxStops} \subseteq Nat

VARIABLES
  run,        \* hr_payroll_run.status, "none" when there is no such row
  slip,       \* hr_payslip by run and employee: deductions and paid_at
  advance,    \* hr_advance: amount, monthly_deduction and status
  repaid,     \* hr_advance_repayment: sums by advance, and payslip or cash
  charged,    \* deducted_payslip_id of each asset
  clerk,      \* the locals of each request
  asked,      \* [requests, stops], for the bounds
  mishaps     \* history: whether requests overlapped, and whether one stopped

payVars == <<run, slip, advance, repaid, charged, clerk, asked, mishaps>>

Payslips == Runs \X Employees
Cash == <<"cash">>       \* payslip_id IS NULL of a repayment
NoOne == <<"none">>      \* deducted_payslip_id IS NULL
Gone == <<"gone">>       \* the id of a payslip that was deleted
NoSlip == [asset |-> 0, advance |-> 0, paid |-> FALSE, there |-> FALSE]
NoAdvance == [amount |-> 0, monthly |-> 0, status |-> "none"]
AtRest == [pc |-> "idle"]

PayInit ==
  /\ run = [r \in Runs |-> "none"]
  /\ slip = [s \in Payslips |-> NoSlip]
  /\ advance = [a \in Advances |-> NoAdvance]
  /\ repaid = [a \in Advances |-> [k \in Payslips \union {Cash} |-> 0]]
  /\ charged = [x \in Assets |-> NoOne]
  /\ clerk = [c \in Clerks |-> AtRest]
  /\ asked = [requests |-> 0, stops |-> 0]
  /\ mishaps = {}

-----------------------------------------------------------------------------
(* What the reads return.                                                  *)

SlipsOf(r) == {s \in Payslips : s[1] = r /\ slip[s].there}
OnRun(r) == {e \in Employees : slip[<<r, e>>].there}
RepaidOf(a) == FoldFunction(+, 0, repaid[a])
BookedOn(s) == MapThenSumSet(LAMBDA a : repaid[a][s], Advances)
Balance(a) == advance[a].amount - RepaidOf(a)
OpenOf(e) == {a \in Advances : AdvanceOf[a] = e /\ advance[a].status = "open"}
Pending(e) == {x \in Assets : AssetOf[x] = e /\ charged[x] = NoOne}

\* suggestedAdvanceDeduction
Suggested(e) ==
  MapThenSumSet(LAMBDA a : Min({advance[a].monthly, Max({0, Balance(a)})}), OpenOf(e))

\* computePayslip: assets come before advances, each capped by what is left.
Deducted(e, assets, wanted, paid) ==
  LET taken == Min({assets, Gross[e]})
  IN [asset |-> taken, advance |-> Min({wanted, Gross[e] - taken}), paid |-> paid,
      there |-> TRUE]
PendingCharge(e) == MapThenSumSet(LAMBDA x : Charge[x], Pending(e))

\* Mutant of TakenFor: the payslips of drafts do not count.
TakenForLocked(r) ==
  {e \in Employees : \E q \in Runs \ {r} :
     Period[q] = Period[r] /\ run[q] # "draft" /\ slip[<<q, e>>].there}

\* Employees with a payslip in another run of the same period.
TakenFor(r) ==
  {e \in Employees : \E q \in Runs \ {r} : Period[q] = Period[r] /\ slip[<<q, e>>].there}

-----------------------------------------------------------------------------
(* Requests in general.                                                    *)

Ask(c, locals) ==
  /\ clerk[c] = AtRest /\ asked.requests < MaxRequests
  /\ asked.requests <= MaxOverlaps \/ \A d \in Clerks : clerk[d] = AtRest
  /\ asked' = [asked EXCEPT !.requests = @ + 1]
  /\ clerk' = [clerk EXCEPT ![c] = locals]
  /\ mishaps' = IF \E d \in Clerks : clerk[d] # AtRest THEN mishaps \union {"overlap"}
                                                      ELSE mishaps
  /\ UNCHANGED <<run, slip, advance, repaid, charged>>

Now(c, locals) ==
  /\ clerk' = [clerk EXCEPT ![c] = locals]
  /\ UNCHANGED <<asked, mishaps>>
At(c, pc) == clerk[c].pc = pc
To(c, pc) == Now(c, [clerk[c] EXCEPT !.pc = pc])
Reply(c) == Now(c, AtRest)

\* A query throws, or the process dies.
Stop(c) ==
  /\ clerk[c] # AtRest /\ asked.stops < MaxStops
  /\ clerk' = [clerk EXCEPT ![c] = AtRest]
  /\ asked' = [asked EXCEPT !.stops = @ + 1]
  /\ mishaps' = mishaps \union {"stop"}
  /\ UNCHANGED <<run, slip, advance, repaid, charged>>

\* What another request has done in the meantime makes the next save throw: its
\* foreign key names a row that is gone, or its key is taken.
Orphan(c) ==
  \/ clerk[c].pc \in {"refresh", "add", "edit", "pay"} /\ run[clerk[c].run] = "none"
  \/ At(c, "add") /\ \E e \in clerk[c].todo : slip[<<clerk[c].run, e>>].there
  \/ At(c, "create") /\ run[clerk[c].run] # "none"
  \/ At(c, "cash") /\ advance[clerk[c].advance] = NoAdvance
  \/ /\ At(c, "repay") /\ clerk[c].left > 0 /\ DOMAIN clerk[c].open # {}
     /\ \/ advance[Min(DOMAIN clerk[c].open)] = NoAdvance
        \/ ~slip[clerk[c].slip].there

Unbooked(slips) ==
  [a \in Advances |-> [k \in DOMAIN repaid[a] |-> IF k \in slips THEN 0 ELSE repaid[a][k]]]

\* Deleting payslips takes their repayments along, and leaves the assets' column.
DropSlips(gone) ==
  /\ slip' = [s \in Payslips |-> IF s \in gone THEN NoSlip ELSE slip[s]]
  /\ repaid' = Unbooked(gone)
  /\ charged' = [x \in Assets |-> IF charged[x] \in gone THEN Gone ELSE charged[x]]

-----------------------------------------------------------------------------
(* Drafts: createRun, regenerate, updatePayslip, removePayslip, deleteRun. *)

CreateRun(c, r) ==
  /\ run[r] = "none"
  /\ Ask(c, [pc |-> "create", run |-> r])

InsertRun(c) ==
  /\ At(c, "create") /\ ~Orphan(c)
  /\ run' = [run EXCEPT ![clerk[c].run] = "draft"]
  /\ To(c, "fill")
  /\ UNCHANGED <<slip, advance, repaid, charged>>

Regenerate(c, r) ==
  /\ run[r] = "draft"
  /\ Ask(c, [pc |-> "refresh", run |-> r, todo |-> {<<s, slip[s]>> : s \in SlipsOf(r)}])

\* The owner's amounts stay, the assets are looked up again.
RefreshSlip(c) ==
  \E read \in clerk[c].todo :
    LET s == read[1]
    IN /\ ~Orphan(c)
       /\ slip' = [slip EXCEPT ![s] = Deducted(s[2], PendingCharge(s[2]), read[2].advance,
                                               read[2].paid)]
       /\ Now(c, [clerk[c] EXCEPT !.todo = @ \ {read}])
       /\ UNCHANGED <<run, advance, repaid, charged>>

Refreshed(c) ==
  /\ clerk[c].todo = {} /\ Now(c, [pc |-> "fill", run |-> clerk[c].run])
  /\ UNCHANGED <<run, slip, advance, repaid, charged>>

\* fillRun looks up who is to get a payslip, and then adds one after the other.
ListMissing(c) ==
  LET r == clerk[c].run
  IN /\ At(c, "fill")
     /\ Now(c, [pc |-> "add", run |-> r, todo |-> (Covers[r] \ TakenFor(r)) \ OnRun(r)])
     /\ UNCHANGED <<run, slip, advance, repaid, charged>>

AddSlip(c) ==
  \E e \in clerk[c].todo :
    LET s == <<clerk[c].run, e>>
    IN /\ At(c, "add") /\ ~Orphan(c)
       /\ slip' = [slip EXCEPT ![s] = Deducted(e, PendingCharge(e), Suggested(e), FALSE)]
       /\ Now(c, [clerk[c] EXCEPT !.todo = @ \ {e}])
       /\ UNCHANGED <<run, advance, repaid, charged>>

Filled(c) ==
  /\ At(c, "add") /\ clerk[c].todo = {} /\ To(c, "totals")
  /\ UNCHANGED <<run, slip, advance, repaid, charged>>

\* refreshTotals saves the run as it was read: a draft.
SaveTotals(c) ==
  /\ At(c, "totals") /\ Reply(c)
  /\ run' = [run EXCEPT ![clerk[c].run] = "draft"]
  /\ UNCHANGED <<slip, advance, repaid, charged>>

UpdatePayslip(c, s, wanted) ==
  /\ slip[s].there /\ run[s[1]] = "draft"
  /\ Ask(c, [pc |-> "edit", run |-> s[1], slip |-> s,
             to |-> Deducted(s[2], slip[s].asset, wanted, slip[s].paid)])

SavePayslip(c) ==
  /\ At(c, "edit") /\ ~Orphan(c) /\ To(c, "totals")
  /\ slip' = [slip EXCEPT ![clerk[c].slip] = clerk[c].to]
  /\ UNCHANGED <<run, advance, repaid, charged>>

RemovePayslip(c, s) ==
  /\ slip[s].there /\ run[s[1]] = "draft"
  /\ Ask(c, [pc |-> "remove", run |-> s[1], slip |-> s])

DeletePayslip(c) ==
  /\ At(c, "remove") /\ To(c, "totals")
  /\ DropSlips({clerk[c].slip})
  /\ UNCHANGED <<run, advance>>

DeleteRun(c, r) ==
  /\ run[r] = "draft"
  /\ Ask(c, [pc |-> "delete", run |-> r])

DropRun(c) ==
  /\ At(c, "delete") /\ Reply(c)
  /\ run' = [run EXCEPT ![clerk[c].run] = "none"]
  /\ DropSlips(SlipsOf(clerk[c].run))
  /\ UNCHANGED <<advance>>

-----------------------------------------------------------------------------
(* finalize.                                                               *)

Finalize(c, r) ==
  /\ run[r] = "draft" /\ SlipsOf(r) # {}
  /\ Ask(c, [pc |-> "book", run |-> r, todo |-> {<<s, slip[s]>> : s \in SlipsOf(r)}])

\* The next payslip, and the open advances of its employee with what was read of them.
ReadOpen(c) ==
  \E read \in clerk[c].todo :
    LET e == read[1][2]
    IN /\ At(c, "book")
       /\ Now(c, [pc |-> "repay", run |-> clerk[c].run, todo |-> clerk[c].todo \ {read},
                  slip |-> read[1], asset |-> read[2].asset, left |-> read[2].advance,
                  open |-> [a \in OpenOf(e) |-> [row |-> advance[a], balance |-> Balance(a)]]])
       /\ UNCHANGED <<run, slip, advance, repaid, charged>>

\* Mutant of Affordable: the balance is not looked at.
AffordableAll(c) == clerk[c].left

\* What of the payslip's deduction goes to the oldest open advance: up to its balance.
Affordable(c) == Max({0, Min({clerk[c].open[Min(DOMAIN clerk[c].open)].balance, clerk[c].left})})

\* The oldest advance first, each as far as its balance goes.
BookRepayment(c) ==
  LET me == clerk[c]
      next == Min(DOMAIN me.open)
      amount == Affordable(c)
  IN /\ At(c, "repay") /\ me.left > 0 /\ DOMAIN me.open # {} /\ ~Orphan(c)
     /\ repaid' = [repaid EXCEPT ![next][me.slip] = @ + amount]
     /\ Now(c, [me EXCEPT !.left = @ - amount,
                          !.pc = IF amount > 0 /\ amount >= me.open[next].balance
                                 THEN "close" ELSE "repay",
                          !.open = IF amount > 0 /\ amount >= me.open[next].balance
                                   THEN @ ELSE Restrict(@, DOMAIN @ \ {next})])
     /\ UNCHANGED <<run, slip, advance, charged>>

CloseAdvance(c) ==
  LET me == clerk[c]
      next == Min(DOMAIN me.open)
  IN /\ At(c, "close")
     /\ advance' = [advance EXCEPT ![next] = [me.open[next].row EXCEPT !.status = "closed"]]
     /\ Now(c, [me EXCEPT !.pc = "repay", !.open = Restrict(@, DOMAIN @ \ {next})])
     /\ UNCHANGED <<run, slip, repaid, charged>>

\* A payslip that charges anything charges all that is pending then.
Booked(c) ==
  LET me == clerk[c]
  IN /\ At(c, "repay") /\ (me.left = 0 \/ DOMAIN me.open = {})
     /\ Now(c, [pc |-> "assets", run |-> me.run, todo |-> me.todo, slip |-> me.slip,
                charges |-> IF me.asset > 0 THEN Pending(me.slip[2]) ELSE {}])
     /\ UNCHANGED <<run, slip, advance, repaid, charged>>

ChargedTo(c) == clerk[c].slip

ChargeAsset(c) ==
  \E x \in clerk[c].charges :
    /\ charged' = [charged EXCEPT ![x] = ChargedTo(c)]
    /\ Now(c, [clerk[c] EXCEPT !.charges = @ \ {x}])
    /\ UNCHANGED <<run, slip, advance, repaid>>

Charged(c) ==
  /\ clerk[c].charges = {}
  /\ Now(c, [pc |-> "book", run |-> clerk[c].run, todo |-> clerk[c].todo])
  /\ UNCHANGED <<run, slip, advance, repaid, charged>>

MarkFinalized(c) ==
  /\ At(c, "book") /\ clerk[c].todo = {} /\ Reply(c)
  /\ run' = [run EXCEPT ![clerk[c].run] = "finalized"]
  /\ UNCHANGED <<slip, advance, repaid, charged>>

-----------------------------------------------------------------------------
(* reopen and pay.                                                         *)

\* Mutant of Reopenable: paid payslips do not matter.
ReopenableAlways(r) == run[r] \in {"finalized", "paid"}

Reopenable(r) == run[r] = "finalized" /\ ~\E s \in SlipsOf(r) : slip[s].paid

Reopen(c, r) ==
  /\ Reopenable(r)
  /\ Ask(c, [pc |-> IF SlipsOf(r) = {} THEN "draft" ELSE "unbook", run |-> r,
             slips |-> SlipsOf(r)])

Unbook(c) ==
  LET slips == clerk[c].slips
  IN /\ At(c, "unbook")
     /\ repaid' = Unbooked(slips)
     /\ Now(c, [pc |-> "unclose", run |-> clerk[c].run, slips |-> slips,
                advances |-> {a \in Advances : \E s \in slips : repaid[a][s] > 0}])
     /\ UNCHANGED <<run, slip, advance, charged>>

Reopened(advances) ==
  [a \in Advances |-> IF a \in advances /\ advance[a] # NoAdvance
                      THEN [advance[a] EXCEPT !.status = "open"] ELSE advance[a]]

ReopenAdvances(c) ==
  /\ At(c, "unclose")
  /\ advance' = Reopened(clerk[c].advances)
  /\ To(c, "uncharge")
  /\ UNCHANGED <<run, slip, repaid, charged>>

Uncharge(c) ==
  /\ At(c, "uncharge") /\ To(c, "draft")
  /\ charged' = [x \in Assets |-> IF charged[x] \in clerk[c].slips THEN NoOne ELSE charged[x]]
  /\ UNCHANGED <<run, slip, advance, repaid>>

MarkDraft(c) ==
  /\ At(c, "draft") /\ Reply(c)
  /\ run' = [run EXCEPT ![clerk[c].run] = "draft"]
  /\ UNCHANGED <<slip, advance, repaid, charged>>

\* All payslips, or some of them.
Pay(c, r, which) ==
  LET unpaid == {s \in SlipsOf(r) : ~slip[s].paid}
  IN /\ run[r] \in {"finalized", "paid"}
     /\ Ask(c, [pc |-> "pay", run |-> r, todo |-> {<<s, slip[s]>> : s \in unpaid \cap which},
                all |-> unpaid \subseteq which])

PaySlip(c) ==
  \E read \in clerk[c].todo :
    /\ At(c, "pay") /\ ~Orphan(c)
    /\ slip' = [slip EXCEPT ![read[1]] = [read[2] EXCEPT !.paid = TRUE]]
    /\ Now(c, [clerk[c] EXCEPT !.todo = @ \ {read}])
    /\ UNCHANGED <<run, advance, repaid, charged>>

MarkPaid(c) ==
  /\ At(c, "pay") /\ clerk[c].todo = {} /\ Reply(c)
  /\ run' = IF clerk[c].all THEN [run EXCEPT ![clerk[c].run] = "paid"] ELSE run
  /\ UNCHANGED <<slip, advance, repaid, charged>>

-----------------------------------------------------------------------------
(* Advances.                                                               *)

Opened(amount, monthly, status) ==
  [amount |-> amount, monthly |-> Min({monthly, amount}), status |-> status]

CreateAdvance(a, amount, monthly) ==
  /\ advance[a] = NoAdvance
  /\ advance' = [advance EXCEPT ![a] = Opened(amount, monthly, "open")]
  /\ UNCHANGED <<run, slip, repaid, charged, clerk, asked, mishaps>>

UpdateAdvance(c, a, amount, monthly) ==
  /\ advance[a] # NoAdvance /\ amount >= RepaidOf(a)
  /\ Ask(c, [pc |-> "advance", advance |-> a,
             to |-> Opened(amount, monthly, IF RepaidOf(a) >= amount THEN "closed" ELSE "open")])

SaveAdvance(c) ==
  /\ At(c, "advance") /\ Reply(c)
  /\ advance' = [advance EXCEPT ![clerk[c].advance] = clerk[c].to]
  /\ UNCHANGED <<run, slip, repaid, charged>>

RepayAdvance(c, a, amount) ==
  /\ advance[a] # NoAdvance /\ amount <= Balance(a)
  /\ Ask(c, [pc |-> "cash", advance |-> a, amount |-> amount,
             to |-> IF amount < Balance(a) THEN advance[a]
                    ELSE [advance[a] EXCEPT !.status = "closed"]])

\* The repayment; the advance is saved after it when nothing is left of it.
BookCash(c) ==
  LET me == clerk[c]
  IN /\ At(c, "cash") /\ ~Orphan(c)
     /\ repaid' = [repaid EXCEPT ![me.advance][Cash] = @ + me.amount]
     /\ IF me.to.status = "closed"
        THEN Now(c, [pc |-> "advance", advance |-> me.advance, to |-> me.to])
        ELSE Reply(c)
     /\ UNCHANGED <<run, slip, advance, charged>>

DeleteAdvance(c, a) ==
  /\ advance[a] # NoAdvance /\ RepaidOf(a) = 0
  /\ Ask(c, [pc |-> "forget", advance |-> a])

DropAdvance(c) ==
  /\ At(c, "forget") /\ Reply(c)
  /\ advance' = [advance EXCEPT ![clerk[c].advance] = NoAdvance]
  /\ repaid' = [repaid EXCEPT ![clerk[c].advance] = [k \in DOMAIN @ |-> 0]]
  /\ UNCHANGED <<run, slip, charged>>

-----------------------------------------------------------------------------
Refused(c) ==
  /\ Orphan(c) /\ Reply(c)
  /\ UNCHANGED <<run, slip, advance, repaid, charged>>

-----------------------------------------------------------------------------
Amounts == 1..MaxAmount

PayNext ==
  \E c \in Clerks :
    \/ \E r \in Runs :
         \/ CreateRun(c, r) \/ Regenerate(c, r) \/ DeleteRun(c, r)
         \/ Finalize(c, r) \/ Reopen(c, r)
         \/ \E which \in SUBSET SlipsOf(r) : Pay(c, r, which)
    \/ \E s \in Payslips :
         RemovePayslip(c, s) \/ \E wanted \in 0..MaxAmount : UpdatePayslip(c, s, wanted)
    \/ InsertRun(c) \/ ListMissing(c) \/ SaveTotals(c) \/ SavePayslip(c) \/ DeletePayslip(c)
    \/ DropRun(c)
    \/ At(c, "refresh") /\ (RefreshSlip(c) \/ Refreshed(c))
    \/ At(c, "add") /\ (AddSlip(c) \/ Filled(c))
    \/ At(c, "book") /\ (ReadOpen(c) \/ MarkFinalized(c))
    \/ BookRepayment(c) \/ CloseAdvance(c) \/ Booked(c)
    \/ At(c, "assets") /\ (ChargeAsset(c) \/ Charged(c))
    \/ Unbook(c) \/ ReopenAdvances(c) \/ Uncharge(c) \/ MarkDraft(c)
    \/ At(c, "pay") /\ (PaySlip(c) \/ MarkPaid(c))
    \/ \E a \in Advances :
         \/ \E amount, monthly \in Amounts :
              CreateAdvance(a, amount, monthly) \/ UpdateAdvance(c, a, amount, monthly)
         \/ \E amount \in Amounts : RepayAdvance(c, a, amount)
         \/ DeleteAdvance(c, a)
    \/ SaveAdvance(c) \/ BookCash(c) \/ DropAdvance(c)
    \/ Refused(c) \/ Stop(c)

PaySpec == PayInit /\ [][PayNext]_payVars

-----------------------------------------------------------------------------
(* Properties.  Two requests of the same owner at a time can break each of *)
(* them (a double click on finalize books twice): they are stated for      *)
(* requests that come one after the other, as far as they went.            *)

Alone == "overlap" \notin mishaps
Unstopped == mishaps = {}

\* The rows, and what keeps a balance a number of its own.
PayTypeOK ==
  /\ run \in [Runs -> {"none", "draft", "finalized", "paid"}]
  /\ slip \in [Payslips -> [asset: Nat, advance: Nat, paid: BOOLEAN, there: BOOLEAN]]
  /\ advance \in [Advances -> [amount: Nat, monthly: Nat, status: {"none", "open", "closed"}]]
  /\ repaid \in [Advances -> [Payslips \union {Cash} -> Nat]]
  /\ charged \in [Assets -> Payslips \union {NoOne, Gone}]
  /\ mishaps \subseteq {"overlap", "stop"}

\* No more is taken back of an advance than was given, through payslips and cash
\* together, also when a finalize stopped half way and is run again. Between
\* requests an advance is closed only when all of it was paid back, whatever was
\* reopened, edited or deleted; and what a payslip takes back was deducted on it,
\* a draft nothing.
AdvancesAddUp ==
  /\ Alone => \A a \in Advances : RepaidOf(a) <= advance[a].amount
  /\ (Unstopped /\ \A c \in Clerks : clerk[c] = AtRest) =>
       /\ \A a \in Advances : advance[a].status = "closed" => RepaidOf(a) >= advance[a].amount
       /\ \A s \in Payslips : BookedOn(s) <= IF run[s[1]] = "draft" THEN 0 ELSE slip[s].advance

\* Nobody is on two payslips of a period, in runs of one branch and of all.
OncePerPeriod ==
  Alone => \A s, t \in {u \in Payslips : slip[u].there} :
             (Period[s[1]] = Period[t[1]] /\ s[2] = t[2]) => s = t

\* A payslip that was paid stays as it is, and its run is never a draft again.
PaidStands ==
  Alone' => \A s \in Payslips : slip[s].paid => slip'[s] = slip[s] /\ run'[s[1]] # "draft"
PaidIsFinal == [][PaidStands]_payVars

\* PLATFORM.md says that unreturned assets are charged once: what the locked
\* payslips of an employee charge is no more than his assets cost.
AssetChargedOnce ==
  Unstopped =>
    \A e \in Employees :
      MapThenSumSet(LAMBDA s : slip[s].asset,
                    {s \in Payslips : s[2] = e /\ run[s[1]] \in {"finalized", "paid"}})
        <= MapThenSumSet(LAMBDA x : Charge[x], {x \in Assets : AssetOf[x] = e})
=============================================================================

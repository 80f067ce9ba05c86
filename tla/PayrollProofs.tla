----------------------------- MODULE PayrollProofs -----------------------------
(***************************************************************************)
(* Payslips of a payroll, for any staff, runs and requests that may stop   *)
(* between any two saves: nobody is paid twice for a period, what was paid *)
(* stands, and no more is taken back of an advance than was given.         *)
(*                                                                         *)
(* While no two requests overlap (Alone) what a request read is still so   *)
(* when it saves; Knows says, for each place it can be at, what that is. A *)
(* request that stopped leaves the rows it wrote, so the rest of the       *)
(* invariant speaks of the rows alone, and holds between any two saves.    *)
(* Repayments are a table of advances by payslips (and cash), with a sum   *)
(* for each advance and one for each payslip; KnowsBalance and KnowsBooked *)
(* say what a request under way knows of the two, and that is enough to    *)
(* keep one below what was given, and the other below what the payslip     *)
(* deducts.                                                                *)
(***************************************************************************)
EXTENDS Payroll, SumProofs

\* What a request read of a payslip of run r that is there and not paid.
Reads(read, r) ==
  /\ read = <<read[1], slip[read[1]]>>
  /\ read[1] \in Payslips /\ read[1][1] = r
  /\ slip[read[1]].there /\ ~slip[read[1]].paid

\* A request that changes the payslips of a run, or makes it a draft, knows that
\* none of them was paid; one that adds payslips knows who has none.
Knows(me) ==
  /\ "pc" \in DOMAIN me
  /\ me.pc \in {"create", "refresh", "fill", "add", "totals", "edit", "remove", "delete",
                "unbook", "unclose", "uncharge", "draft", "pay"} =>
       "run" \in DOMAIN me /\ me.run \in Runs
  /\ me.pc \in {"refresh", "add", "pay"} => "todo" \in DOMAIN me
  /\ me.pc \in {"refresh", "fill", "add", "totals", "edit", "remove", "delete"} =>
       run[me.run] = "draft"
  /\ me.pc \in {"refresh", "pay"} => \A read \in me.todo : Reads(read, me.run)
  /\ me.pc = "add" =>
       /\ me.todo \subseteq Employees
       /\ \A e \in me.todo, q \in Runs : Period[q] = Period[me.run] => ~slip[<<q, e>>].there
  /\ me.pc = "edit" =>
       /\ slip[me.slip].there /\ me.to.there /\ ~me.to.paid
       /\ DOMAIN me.to = DOMAIN NoSlip
  /\ me.pc \in {"edit", "remove"} => me.slip \in Payslips /\ me.slip[1] = me.run
  /\ me.pc \in {"unbook", "unclose", "uncharge", "draft"} =>
       \A s \in Payslips : s[1] = me.run => ~slip[s].paid
  /\ me.pc = "pay" => run[me.run] \in {"finalized", "paid"}

OneBusy == \A c, d \in Clerks : clerk[c] # AtRest /\ clerk[d] # AtRest => c = d

\* A payslip that is paid is there, in a run that is not a draft.
PaidLocked ==
  \A s \in Payslips :
    /\ DOMAIN slip[s] = DOMAIN NoSlip
    /\ slip[s].paid => slip[s].there /\ run[s[1]] \in {"finalized", "paid"}

OnePerPeriod ==
  \A s, t \in Payslips :
    slip[s].there /\ slip[t].there /\ Period[s[1]] = Period[t[1]] /\ s[2] = t[2] => s = t

Rows ==
  DOMAIN run = Runs /\ DOMAIN slip = Payslips /\ DOMAIN clerk = Clerks

Consistent ==
  OneBusy /\ PaidLocked /\ OnePerPeriod /\ \A c \in Clerks : Knows(clerk[c])

PeriodInv == Rows /\ (Alone => Consistent)

LEMMA RestKnows == Knows(AtRest)
  BY DEF Knows, AtRest

LEMMA PeriodInit == PayInit => PeriodInv
<1> SUFFICES ASSUME PayInit PROVE PeriodInv
  OBVIOUS
<1>1. Rows
  BY DEF PayInit, Rows
<1>2. OneBusy /\ PaidLocked /\ OnePerPeriod
  BY DEF PayInit, OneBusy, PaidLocked, OnePerPeriod, NoSlip
<1>3. \A c \in Clerks : Knows(clerk[c])
  BY RestKnows DEF PayInit
<1> QED
  BY <1>1, <1>2, <1>3 DEF PeriodInv, Consistent

\* What holds after a step of clerk c, when no requests overlap.
Steps(c) ==
  /\ PaidLocked /\ PaidLocked' /\ OnePerPeriod'
  /\ Knows(clerk[c])'
  /\ \A s \in Payslips : slip[s].paid => slip'[s] = slip[s] /\ run'[s[1]] # "draft"

Leads == PeriodInv' /\ PaidStands

LEMMA AskFrame ==
  ASSUME PeriodInv, Alone', NEW c \in Clerks, NEW v, Ask(c, v)
  PROVE  /\ Consistent /\ UNCHANGED <<run, slip>> /\ clerk' = [clerk EXCEPT ![c] = v]
         /\ clerk'[c] = v /\ \A d \in Clerks \ {c} : clerk[d] = AtRest
  BY DEF PeriodInv, Alone, Ask, Rows

LEMMA NowFrame ==
  ASSUME PeriodInv, Alone', NEW c \in Clerks, NEW v, Now(c, v), clerk[c] # AtRest
  PROVE  /\ Consistent /\ clerk' = [clerk EXCEPT ![c] = v]
         /\ clerk'[c] = v /\ \A d \in Clerks \ {c} : clerk[d] = AtRest
  BY DEF PeriodInv, Alone, Now, Rows, Consistent, OneBusy

LEMMA OneStep ==
  ASSUME PeriodInv, Rows', Alone' => Consistent, NEW c \in Clerks, NEW v,
         clerk' = [clerk EXCEPT ![c] = v],
         Alone' => (\A d \in Clerks \ {c} : clerk[d] = AtRest) /\ Steps(c)
  PROVE  Leads
<1>1. ASSUME Alone' PROVE Consistent' /\ PaidStands
  <2>1. \A d \in Clerks \ {c} : clerk'[d] = AtRest
    BY <1>1 DEF PeriodInv, Rows
  <2>2. OneBusy'
    BY <2>1 DEF OneBusy
  <2>3. \A d \in Clerks : Knows(clerk[d])'
    BY <1>1, <2>1 DEF Steps, Knows, AtRest
  <2> QED
    BY <1>1, <2>2, <2>3 DEF Steps, Consistent, PaidStands
<1> QED
  BY <1>1 DEF Leads, PeriodInv, PaidStands

LEMMA RowsAsk ==
  ASSUME PeriodInv, NEW c \in Clerks, NEW v, Ask(c, v)
  PROVE  Rows' /\ clerk' = [clerk EXCEPT ![c] = v]
  BY DEF PeriodInv, Rows, Ask

LEMMA AskLeads ==
  ASSUME PeriodInv, NEW c \in Clerks, NEW v, Ask(c, v), Consistent => Knows(v)
  PROVE  Leads
<1>1. ASSUME Alone' PROVE Consistent /\ Steps(c) /\ \A d \in Clerks \ {c} : clerk[d] = AtRest
  <2>1. /\ Consistent /\ UNCHANGED <<run, slip>> /\ clerk'[c] = v
        /\ \A d \in Clerks \ {c} : clerk[d] = AtRest
    BY <1>1, AskFrame
  <2>2. Knows(clerk[c])'
    BY <2>1 DEF Knows, Reads
  <2> QED
    BY <2>1, <2>2 DEF Steps, Consistent, PaidLocked, OnePerPeriod
<1> QED
  BY <1>1, RowsAsk, OneStep

LEMMA NowLeads ==
  ASSUME PeriodInv, NEW c \in Clerks, NEW v, Now(c, v), clerk[c] # AtRest,
         UNCHANGED <<run, slip>>, Consistent => Knows(v)
  PROVE  Leads
<1>1. ASSUME Alone' PROVE Consistent /\ Steps(c) /\ \A d \in Clerks \ {c} : clerk[d] = AtRest
  <2>1. Consistent /\ clerk'[c] = v /\ \A d \in Clerks \ {c} : clerk[d] = AtRest
    BY <1>1, NowFrame
  <2>2. Knows(clerk[c])'
    BY <2>1 DEF Knows, Reads
  <2> QED
    BY <2>1, <2>2 DEF Steps, Consistent, PaidLocked, OnePerPeriod
<1>2. Rows' /\ clerk' = [clerk EXCEPT ![c] = v]
  BY DEF PeriodInv, Rows, Now
<1> QED
  BY <1>1, <1>2, OneStep

\* The payslips a request lists of a run that is a draft.
LEMMA ListReads ==
  ASSUME Consistent, NEW r \in Runs, NEW S, S \subseteq SlipsOf(r),
         \A s \in S : ~slip[s].paid
  PROVE  \A read \in {<<s, slip[s]>> : s \in S} : Reads(read, r)
  BY DEF SlipsOf, Reads

LEMMA DraftUnpaid ==
  ASSUME Consistent, NEW s \in Payslips, run[s[1]] \in {"none", "draft"}
  PROVE  ~slip[s].paid
  BY DEF Consistent, PaidLocked

\* Requests are made: what they read is so.
LEMMA AskSteps ==
  ASSUME PeriodInv, NEW c \in Clerks
  PROVE  /\ \A r \in Runs :
              \/ CreateRun(c, r) \/ Regenerate(c, r) \/ DeleteRun(c, r)
              \/ Finalize(c, r) \/ Reopen(c, r)
              \/ \E which \in SUBSET SlipsOf(r) : Pay(c, r, which)
              => Leads
         /\ \A s \in Payslips :
              \/ RemovePayslip(c, s)
              \/ \E wanted \in 0..MaxAmount : UpdatePayslip(c, s, wanted)
              => Leads
         /\ \A a \in Advances :
              \/ \E amount, monthly \in Amounts : UpdateAdvance(c, a, amount, monthly)
              \/ \E amount \in Amounts : RepayAdvance(c, a, amount)
              \/ DeleteAdvance(c, a)
              => Leads
<1>1. ASSUME NEW r \in Runs, CreateRun(c, r) PROVE Leads
  <2>1. Knows([pc |-> "create", run |-> r])
    BY DEF Knows
  <2> QED
    BY <1>1, <2>1, AskLeads DEF CreateRun
<1>2. ASSUME NEW r \in Runs, Regenerate(c, r) PROVE Leads
  <2> DEFINE v == [pc |-> "refresh", run |-> r, todo |-> {<<s, slip[s]>> : s \in SlipsOf(r)}]
  <2>1. ASSUME Consistent PROVE Knows(v)
    <3>1. \A s \in SlipsOf(r) : ~slip[s].paid
      BY <1>2, <2>1, DraftUnpaid DEF Regenerate, SlipsOf
    <3>2. \A read \in v.todo : Reads(read, r)
      BY <2>1, <3>1, ListReads
    <3> QED
      BY <1>2, <3>2 DEF Knows, Regenerate
  <2>2. Ask(c, v)
    BY <1>2 DEF Regenerate
  <2> HIDE DEF v
  <2> QED
    BY <2>1, <2>2, AskLeads
<1>3. ASSUME NEW r \in Runs, DeleteRun(c, r) PROVE Leads
  <2>1. Knows([pc |-> "delete", run |-> r])
    BY <1>3 DEF Knows, DeleteRun
  <2> QED
    BY <1>3, <2>1, AskLeads DEF DeleteRun
<1>4. ASSUME NEW r \in Runs, Finalize(c, r) PROVE Leads
  <2> DEFINE v == [pc |-> "book", run |-> r, todo |-> {<<s, slip[s]>> : s \in SlipsOf(r)}]
  <2>1. Knows(v) /\ Ask(c, v)
    BY <1>4 DEF Knows, Finalize
  <2> HIDE DEF v
  <2> QED
    BY <2>1, AskLeads
<1>5. ASSUME NEW r \in Runs, Reopen(c, r) PROVE Leads
  <2> DEFINE v == [pc |-> IF SlipsOf(r) = {} THEN "draft" ELSE "unbook", run |-> r,
                   slips |-> SlipsOf(r)]
  <2>1. ASSUME Consistent PROVE Knows(v)
    <3>1. \A s \in Payslips : s[1] = r => ~slip[s].paid
      BY <1>5, <2>1 DEF Reopen, Reopenable, SlipsOf, Consistent, PaidLocked
    <3> QED
      BY <3>1 DEF Knows
  <2>2. Ask(c, v)
    BY <1>5 DEF Reopen
  <2> HIDE DEF v
  <2> QED
    BY <2>1, <2>2, AskLeads
<1>6. ASSUME NEW r \in Runs, NEW which \in SUBSET SlipsOf(r), Pay(c, r, which) PROVE Leads
  <2> DEFINE unpaid == {s \in SlipsOf(r) : ~slip[s].paid}
             v == [pc |-> "pay", run |-> r, todo |-> {<<s, slip[s]>> : s \in unpaid \cap which},
                   all |-> unpaid \subseteq which]
  <2>1. ASSUME Consistent PROVE Knows(v)
    <3>1. \A read \in v.todo : Reads(read, r)
      BY <2>1, ListReads
    <3> QED
      BY <1>6, <3>1 DEF Knows, Pay
  <2>2. Ask(c, v)
    BY <1>6 DEF Pay
  <2> HIDE DEF v
  <2> QED
    BY <2>1, <2>2, AskLeads
<1>7. ASSUME NEW s \in Payslips, RemovePayslip(c, s) PROVE Leads
  <2>1. Knows([pc |-> "remove", run |-> s[1], slip |-> s])
    BY <1>7 DEF Knows, RemovePayslip, Payslips
  <2> QED
    BY <1>7, <2>1, AskLeads DEF RemovePayslip
<1>8. ASSUME NEW s \in Payslips, NEW wanted, UpdatePayslip(c, s, wanted) PROVE Leads
  <2> DEFINE to == Deducted(s[2], slip[s].asset, wanted, slip[s].paid)
             v == [pc |-> "edit", run |-> s[1], slip |-> s, to |-> to]
  <2>1. ASSUME Consistent PROVE Knows(v)
    <3>1. ~slip[s].paid
      BY <1>8, <2>1, DraftUnpaid DEF UpdatePayslip
    <3>2. to.there /\ to.paid = slip[s].paid /\ DOMAIN to = DOMAIN NoSlip
      BY DEF Deducted, NoSlip
    <3> HIDE DEF to
    <3> QED
      BY <1>8, <3>1, <3>2 DEF Knows, UpdatePayslip, Payslips
  <2>2. Ask(c, v)
    BY <1>8 DEF UpdatePayslip
  <2> HIDE DEF v
  <2> QED
    BY <2>1, <2>2, AskLeads
<1>9. ASSUME NEW pc \in {"advance", "cash", "forget"}, NEW v, v.pc = pc,
             "pc" \in DOMAIN v, Ask(c, v)
      PROVE  Leads
  <2>1. Knows(v)
    BY <1>9 DEF Knows
  <2> QED
    BY <1>9, <2>1, AskLeads
<1>10. ASSUME NEW a \in Advances, NEW amount, NEW monthly, UpdateAdvance(c, a, amount, monthly)
       PROVE  Leads
  <2>1. PICK to : Ask(c, [pc |-> "advance", advance |-> a, to |-> to])
    BY <1>10 DEF UpdateAdvance
  <2>2. [pc |-> "advance", advance |-> a, to |-> to].pc = "advance"
        /\ "pc" \in DOMAIN [pc |-> "advance", advance |-> a, to |-> to]
    OBVIOUS
  <2> QED
    BY <1>9, <2>1, <2>2
<1>11. ASSUME NEW a \in Advances, NEW amount, RepayAdvance(c, a, amount) PROVE Leads
  <2>1. PICK to : Ask(c, [pc |-> "cash", advance |-> a, amount |-> amount, to |-> to])
    BY <1>11 DEF RepayAdvance
  <2>2. [pc |-> "cash", advance |-> a, amount |-> amount, to |-> to].pc = "cash"
        /\ "pc" \in DOMAIN [pc |-> "cash", advance |-> a, amount |-> amount, to |-> to]
    OBVIOUS
  <2> QED
    BY <1>9, <2>1, <2>2
<1>12. ASSUME NEW a \in Advances, DeleteAdvance(c, a) PROVE Leads
  <2>1. Ask(c, [pc |-> "forget", advance |-> a])
    BY <1>12 DEF DeleteAdvance
  <2> QED
    BY <1>9, <2>1
<1> QED
  BY <1>1, <1>2, <1>3, <1>4, <1>5, <1>6, <1>7, <1>8, <1>10, <1>11, <1>12

\* A request goes on to pc with its locals.
LEMMA GoesOn ==
  ASSUME NEW me, Knows(me), NEW pc
  PROVE  /\ [me EXCEPT !.pc = pc].pc = pc /\ "pc" \in DOMAIN [me EXCEPT !.pc = pc]
         /\ "run" \in DOMAIN me
              => [me EXCEPT !.pc = pc].run = me.run /\ "run" \in DOMAIN [me EXCEPT !.pc = pc]
  BY DEF Knows

LEMMA BusyKnows ==
  ASSUME NEW c \in Clerks, clerk[c].pc # "idle"
  PROVE  clerk[c] # AtRest /\ (Consistent => Knows(clerk[c]))
  BY DEF AtRest, Consistent

\* A step into the locals of pcs that claim nothing.
LEMMA FreeKnows ==
  ASSUME NEW v, "pc" \in DOMAIN v,
         v.pc \in {"book", "repay", "close", "assets", "advance", "cash", "forget"}
  PROVE  Knows(v)
  BY DEF Knows

\* Steps that change no run and no payslip.
LEMMA ReadSteps ==
  ASSUME PeriodInv, NEW c \in Clerks,
         \/ At(c, "refresh") /\ Refreshed(c)
         \/ ListMissing(c)
         \/ At(c, "add") /\ Filled(c)
         \/ ReadOpen(c) \/ BookRepayment(c) \/ CloseAdvance(c) \/ Booked(c)
         \/ At(c, "assets") /\ (ChargeAsset(c) \/ Charged(c))
         \/ Unbook(c) \/ ReopenAdvances(c) \/ Uncharge(c)
         \/ SaveAdvance(c) \/ BookCash(c) \/ DropAdvance(c) \/ Refused(c)
  PROVE  Leads
<1> DEFINE me == clerk[c]
<1>0. me.pc # "idle" => clerk[c] # AtRest /\ (Consistent => Knows(me))
  BY BusyKnows
<1> USE DEF At
<1>1. CASE me.pc = "refresh" /\ Refreshed(c)
  <2>1. Consistent => Knows([pc |-> "fill", run |-> me.run])
    BY <1>0, <1>1 DEF Knows
  <2> QED
    BY <1>0, <1>1, <2>1, NowLeads DEF Refreshed
<1>2. CASE ListMissing(c)
  <2> DEFINE r == me.run
             v == [pc |-> "add", run |-> r, todo |-> (Covers[r] \ TakenFor(r)) \ OnRun(r)]
  <2>1. ASSUME Consistent PROVE Knows(v)
    <3>1. r \in Runs /\ run[r] = "draft"
      BY <1>0, <1>2, <2>1 DEF ListMissing, Knows
    <3>2. v.todo \subseteq Employees
      BY <3>1, PayrollAssumption
    <3>3. \A e \in v.todo, q \in Runs : Period[q] = Period[r] => ~slip[<<q, e>>].there
      BY <3>2 DEF TakenFor, OnRun
    <3> HIDE DEF r
    <3> QED
      BY <3>1, <3>2, <3>3 DEF Knows
  <2>2. Now(c, v) /\ UNCHANGED <<run, slip>>
    BY <1>2 DEF ListMissing
  <2> HIDE DEF v
  <2> QED
    BY <1>0, <1>2, <2>1, <2>2, NowLeads DEF ListMissing
<1>3. ASSUME NEW pc, To(c, pc), UNCHANGED <<run, slip>>,
             \/ me.pc = "add" /\ pc = "totals"
             \/ me.pc = "unclose" /\ pc = "uncharge"
             \/ me.pc = "uncharge" /\ pc = "draft"
      PROVE  Leads
  <2> DEFINE v == [me EXCEPT !.pc = pc]
  <2>1. ASSUME Consistent PROVE Knows(v)
    <3>1. Knows(me) /\ me.run \in Runs /\ "run" \in DOMAIN me
      BY <1>0, <1>3, <2>1 DEF Knows
    <3>2. v.pc = pc /\ v.run = me.run /\ {"pc", "run"} \subseteq DOMAIN v
      BY <1>3, <3>1, GoesOn
    <3> HIDE DEF v
    <3> QED
      BY <1>3, <3>1, <3>2 DEF Knows
  <2>2. Now(c, v)
    BY <1>3 DEF To
  <2> HIDE DEF v
  <2> QED
    BY <1>0, <1>3, <2>1, <2>2, NowLeads
<1>4. CASE me.pc = "add" /\ Filled(c)
  BY <1>3, <1>4 DEF Filled
<1>5. CASE ReopenAdvances(c) \/ Uncharge(c)
  BY <1>3, <1>5 DEF ReopenAdvances, Uncharge
<1>6. ASSUME NEW v, Now(c, v), UNCHANGED <<run, slip>>, me.pc # "idle",
             Consistent => "pc" \in DOMAIN v /\
               v.pc \in {"book", "repay", "close", "assets", "advance", "cash", "forget"}
      PROVE  Leads
  BY <1>0, <1>6, FreeKnows, NowLeads
<1>7. CASE ReadOpen(c)
  <2>1. PICK read : Now(c, [pc |-> "repay", run |-> me.run, todo |-> me.todo \ {read},
          slip |-> read[1], asset |-> read[2].asset, left |-> read[2].advance,
          open |-> [a \in OpenOf(read[1][2]) |-> [row |-> advance[a], balance |-> Balance(a)]]])
    BY <1>7 DEF ReadOpen
  <2> DEFINE v == [pc |-> "repay", run |-> me.run, todo |-> me.todo \ {read},
          slip |-> read[1], asset |-> read[2].asset, left |-> read[2].advance,
          open |-> [a \in OpenOf(read[1][2]) |-> [row |-> advance[a], balance |-> Balance(a)]]]
  <2>2. v.pc = "repay" /\ "pc" \in DOMAIN v
    OBVIOUS
  <2>3. Now(c, v)
    BY <2>1
  <2> HIDE DEF v
  <2> QED
    BY <1>6, <1>7, <2>2, <2>3 DEF ReadOpen
<1>8. CASE BookRepayment(c)
  <2>1. PICK amount, closes, open :
          Now(c, [me EXCEPT !.left = amount, !.pc = IF closes THEN "close" ELSE "repay",
                            !.open = open])
    BY <1>8 DEF BookRepayment
  <2> DEFINE v == [me EXCEPT !.left = amount, !.pc = IF closes THEN "close" ELSE "repay",
                             !.open = open]
  <2>2. Consistent => v.pc \in {"close", "repay"} /\ "pc" \in DOMAIN v
    <3>1. "pc" \in DOMAIN me => v.pc \in {"close", "repay"} /\ "pc" \in DOMAIN v
      OBVIOUS
    <3> QED
      BY <1>0, <1>8, <3>1 DEF Knows, BookRepayment
  <2>3. Now(c, v)
    BY <2>1
  <2> HIDE DEF v
  <2> QED
    BY <1>6, <1>8, <2>2, <2>3 DEF BookRepayment
<1>9. CASE CloseAdvance(c)
  <2>1. PICK open : Now(c, [me EXCEPT !.pc = "repay", !.open = open])
    BY <1>9 DEF CloseAdvance
  <2> DEFINE v == [me EXCEPT !.pc = "repay", !.open = open]
  <2>2. Consistent => v.pc = "repay" /\ "pc" \in DOMAIN v
    <3>1. "pc" \in DOMAIN me => v.pc = "repay" /\ "pc" \in DOMAIN v
      OBVIOUS
    <3> QED
      BY <1>0, <1>9, <3>1 DEF Knows, CloseAdvance
  <2>3. Now(c, v)
    BY <2>1
  <2> HIDE DEF v
  <2> QED
    BY <1>6, <1>9, <2>2, <2>3 DEF CloseAdvance
<1>10. CASE Booked(c)
  <2>1. PICK charges : Now(c, [pc |-> "assets", run |-> me.run, todo |-> me.todo, slip |-> me.slip,
                               charges |-> charges])
    BY <1>10 DEF Booked
  <2> DEFINE v == [pc |-> "assets", run |-> me.run, todo |-> me.todo, slip |-> me.slip,
                   charges |-> charges]
  <2>2. v.pc = "assets" /\ "pc" \in DOMAIN v
    OBVIOUS
  <2>3. Now(c, v)
    BY <2>1
  <2> HIDE DEF v
  <2> QED
    BY <1>6, <1>10, <2>2, <2>3 DEF Booked
<1>11. CASE me.pc = "assets" /\ ChargeAsset(c)
  <2>1. PICK charges : Now(c, [me EXCEPT !.charges = charges])
    BY <1>11 DEF ChargeAsset
  <2> DEFINE v == [me EXCEPT !.charges = charges]
  <2>2. Consistent => v.pc = "assets" /\ "pc" \in DOMAIN v
    <3>1. "pc" \in DOMAIN me => v.pc = me.pc /\ "pc" \in DOMAIN v
      OBVIOUS
    <3> QED
      BY <1>0, <1>11, <3>1 DEF Knows
  <2>3. Now(c, v)
    BY <2>1
  <2> HIDE DEF v
  <2> QED
    BY <1>6, <1>11, <2>2, <2>3 DEF ChargeAsset
<1>12. CASE me.pc = "assets" /\ Charged(c)
  <2>1. Now(c, [pc |-> "book", run |-> me.run, todo |-> me.todo])
    BY <1>12 DEF Charged
  <2>2. /\ [pc |-> "book", run |-> me.run, todo |-> me.todo].pc = "book"
        /\ "pc" \in DOMAIN [pc |-> "book", run |-> me.run, todo |-> me.todo]
    OBVIOUS
  <2> QED
    BY <1>6, <1>12, <2>1, <2>2 DEF Charged
<1>13. CASE Unbook(c)
  <2>1. PICK advances : Now(c, [pc |-> "unclose", run |-> me.run, slips |-> me.slips,
                                advances |-> advances])
    BY <1>13 DEF Unbook
  <2>2. Consistent => Knows([pc |-> "unclose", run |-> me.run, slips |-> me.slips,
                             advances |-> advances])
    BY <1>0, <1>13 DEF Unbook, Knows
  <2> QED
    BY <1>0, <1>13, <2>1, <2>2, NowLeads DEF Unbook
<1>14. ASSUME Reply(c), UNCHANGED <<run, slip>>, me.pc # "idle" PROVE Leads
  BY <1>0, <1>14, RestKnows, NowLeads DEF Reply
<1>15. CASE SaveAdvance(c) \/ DropAdvance(c)
  BY <1>14, <1>15 DEF SaveAdvance, DropAdvance
<1>16. CASE BookCash(c)
  <2>1. CASE Reply(c)
    BY <1>14, <1>16, <2>1 DEF BookCash
  <2>2. CASE Now(c, [pc |-> "advance", advance |-> me.advance, to |-> me.to])
    <3>1. /\ [pc |-> "advance", advance |-> me.advance, to |-> me.to].pc = "advance"
          /\ "pc" \in DOMAIN [pc |-> "advance", advance |-> me.advance, to |-> me.to]
      OBVIOUS
    <3> QED
      BY <1>6, <1>16, <2>2, <3>1 DEF BookCash
  <2> QED
    BY <1>16, <2>1, <2>2 DEF BookCash
<1>17. CASE Refused(c)
  BY <1>14, <1>17 DEF Refused, Orphan
<1> QED
  BY <1>1, <1>2, <1>4, <1>5, <1>7, <1>8, <1>9, <1>10, <1>11, <1>12, <1>13, <1>15, <1>16, <1>17

\* A step that writes rows: what is left to show when no requests overlap.
LEMMA WriteLeads ==
  ASSUME PeriodInv, NEW c \in Clerks, NEW v, Now(c, v), clerk[c] # AtRest, Rows',
         Consistent /\ clerk'[c] = v => Steps(c)
  PROVE  Leads
<1>1. ASSUME Alone'
      PROVE  Consistent /\ clerk'[c] = v /\ \A d \in Clerks \ {c} : clerk[d] = AtRest
  BY <1>1, NowFrame
<1>2. ASSUME Alone' PROVE Steps(c)
  BY <1>1, <1>2
<1>3. clerk' = [clerk EXCEPT ![c] = v]
  BY DEF Now
<1> QED
  BY <1>1, <1>2, <1>3, OneStep

\* The run's status is saved: as a draft only when nothing of it was paid.
LEMMA RunSaved ==
  ASSUME PeriodInv, NEW c \in Clerks, NEW v, Now(c, v), clerk[c] # AtRest, UNCHANGED slip,
         NEW st \in {"draft", "finalized", "paid"}, NEW r,
         run' = [run EXCEPT ![r] = st] \/ run' = run,
         Consistent /\ st = "draft" => \A s \in Payslips : s[1] = r => ~slip[s].paid,
         Consistent /\ clerk'[c] = v => Knows(clerk[c])'
  PROVE  Leads
<1>1. Rows'
  BY DEF PeriodInv, Rows, Now
<1>2. ASSUME Consistent, clerk'[c] = v PROVE Steps(c)
  <2>1. PaidLocked /\ OnePerPeriod
    BY <1>2 DEF Consistent
  <2>2. \A s \in Payslips : slip[s].paid => run'[s[1]] \in {"finalized", "paid"}
    BY <1>2, <2>1 DEF PaidLocked, PeriodInv, Rows, Payslips
  <2>3. PaidLocked' /\ OnePerPeriod'
    BY <2>1, <2>2 DEF PaidLocked, OnePerPeriod
  <2> QED
    BY <1>2, <2>1, <2>2, <2>3 DEF Steps
<1> QED
  BY <1>1, <1>2, WriteLeads

LEMMA RunSteps ==
  ASSUME PeriodInv, NEW c \in Clerks,
         \/ InsertRun(c) \/ SaveTotals(c) \/ MarkDraft(c)
         \/ At(c, "book") /\ MarkFinalized(c)
         \/ At(c, "pay") /\ MarkPaid(c)
  PROVE  Leads
<1> DEFINE me == clerk[c]
<1>0. me.pc # "idle" => clerk[c] # AtRest /\ (Consistent => Knows(me))
  BY BusyKnows
<1>1. ASSUME clerk'[c] = AtRest PROVE Knows(clerk[c])'
  BY <1>1 DEF Knows, AtRest
<1>2. CASE MarkFinalized(c) \/ MarkPaid(c)
  <2>1. Now(c, AtRest) /\ me.pc # "idle" /\ UNCHANGED slip
    BY <1>2 DEF MarkFinalized, MarkPaid, Reply, At
  <2>2. PICK st \in {"finalized", "paid"} : run' = [run EXCEPT ![me.run] = st] \/ run' = run
    BY <1>2 DEF MarkFinalized, MarkPaid
  <2>3. ASSUME Consistent, clerk'[c] = AtRest PROVE Knows(clerk[c])'
    BY <1>1, <2>3
  <2>4. clerk[c] # AtRest /\ st # "draft" /\ st \in {"draft", "finalized", "paid"}
    BY <1>0, <2>1, <2>2
  <2> HIDE DEF me
  <2> QED
    BY <2>1, <2>2, <2>3, <2>4, RunSaved
<1>3. CASE SaveTotals(c) \/ MarkDraft(c)
  <2>1. Now(c, AtRest) /\ me.pc \in {"totals", "draft"} /\ UNCHANGED slip
        /\ run' = [run EXCEPT ![me.run] = "draft"]
    BY <1>3 DEF SaveTotals, MarkDraft, Reply, At
  <2>2. ASSUME Consistent PROVE \A s \in Payslips : s[1] = me.run => ~slip[s].paid
    BY <1>0, <2>1, <2>2, DraftUnpaid DEF Knows
  <2>3. ASSUME Consistent, clerk'[c] = AtRest PROVE Knows(clerk[c])'
    BY <1>1, <2>3
  <2>4. clerk[c] # AtRest
    BY <1>0, <2>1
  <2> HIDE DEF me
  <2> QED
    BY <2>1, <2>2, <2>3, <2>4, RunSaved
<1>4. CASE InsertRun(c)
  <2> DEFINE v == [me EXCEPT !.pc = "fill"]
  <2>1. Now(c, v) /\ me.pc = "create" /\ run[me.run] = "none" /\ UNCHANGED slip
        /\ run' = [run EXCEPT ![me.run] = "draft"]
    BY <1>4 DEF InsertRun, To, At, Orphan
  <2>2. ASSUME Consistent PROVE \A s \in Payslips : s[1] = me.run => ~slip[s].paid
    BY <2>1, <2>2, DraftUnpaid
  <2>3. ASSUME Consistent, clerk'[c] = v PROVE Knows(clerk[c])'
    <3>1. Knows(me) /\ me.run \in Runs /\ "run" \in DOMAIN me
      BY <1>0, <2>1, <2>3 DEF Knows
    <3>2. v.pc = "fill" /\ v.run = me.run /\ {"pc", "run"} \subseteq DOMAIN v
      BY <3>1, GoesOn
    <3>3. run'[me.run] = "draft"
      BY <2>1, <3>1 DEF PeriodInv, Rows
    <3> HIDE DEF v
    <3> QED
      BY <2>3, <3>1, <3>2, <3>3 DEF Knows
  <2> HIDE DEF v
  <2> QED
    BY <1>0, <2>1, <2>2, <2>3, RunSaved
<1> QED
  BY <1>2, <1>3, <1>4

\* Payslips are written or dropped in a run that is not locked.
LEMMA SlipsSaved ==
  ASSUME PeriodInv, NEW c \in Clerks, NEW v, Now(c, v), clerk[c] # AtRest, NEW r,
         DOMAIN slip' = Payslips, DOMAIN run' = Runs,
         \A q \in Runs \ {r} : run'[q] = run[q],
         Consistent /\ clerk'[c] = v =>
           /\ \A s \in Payslips : slip[s].paid => s[1] # r
           /\ \A s \in Payslips :
                \/ slip'[s] = slip[s]
                \/ s[1] = r /\ ~slip'[s].paid /\ DOMAIN slip'[s] = DOMAIN NoSlip
           /\ OnePerPeriod'
           /\ Knows(clerk[c])'
  PROVE  Leads
<1>1. Rows'
  BY DEF PeriodInv, Rows, Now
<1>2. ASSUME Consistent, clerk'[c] = v PROVE Steps(c)
  <2>1. PaidLocked
    BY <1>2 DEF Consistent
  <2>2. \A s \in Payslips : slip[s].paid => slip'[s] = slip[s] /\ run'[s[1]] = run[s[1]]
    <3>1. ASSUME NEW s \in Payslips, slip[s].paid
          PROVE  slip'[s] = slip[s] /\ run'[s[1]] = run[s[1]]
      <4>1. s[1] # r /\ s[1] \in Runs
        BY <1>2, <3>1 DEF Payslips
      <4> QED
        BY <1>2, <4>1
    <3> QED
      BY <3>1
  <2>3. \A s \in Payslips : slip'[s].paid => slip[s].paid
    BY <1>2
  <2>4. PaidLocked'
    <3>1. \A s \in Payslips : DOMAIN slip'[s] = DOMAIN NoSlip
      BY <1>2, <2>1 DEF PaidLocked
    <3> QED
      BY <2>1, <2>2, <2>3, <3>1 DEF PaidLocked
  <2>5. \A s \in Payslips : slip[s].paid => slip'[s] = slip[s] /\ run'[s[1]] # "draft"
    BY <2>1, <2>2 DEF PaidLocked
  <2> QED
    BY <1>2, <2>1, <2>4, <2>5 DEF Steps
<1> QED
  BY <1>1, <1>2, WriteLeads

\* What is read stays read when another payslip is saved.
LEMMA ReadsStay ==
  ASSUME NEW r, NEW reads, NEW read \in reads, \A x \in reads : Reads(x, r),
         \A s \in Payslips : s # read[1] => slip'[s] = slip[s],
         NEW x \in reads \ {read}
  PROVE  Reads(x, r)'
<1>1. x[1] # read[1]
  BY DEF Reads
<1> QED
  BY <1>1 DEF Reads

LEMMA RefreshLeads ==
  ASSUME PeriodInv, NEW c \in Clerks, At(c, "refresh"), RefreshSlip(c)
  PROVE  Leads
<1> DEFINE me == clerk[c]
<1>1. PICK read \in me.todo :
        /\ slip' = [slip EXCEPT ![read[1]] =
             Deducted(read[1][2], PendingCharge(read[1][2]), read[2].advance, read[2].paid)]
        /\ Now(c, [me EXCEPT !.todo = @ \ {read}])
        /\ UNCHANGED run
  BY DEF RefreshSlip
<1> DEFINE v == [me EXCEPT !.todo = @ \ {read}]
           row == Deducted(read[1][2], PendingCharge(read[1][2]), read[2].advance, read[2].paid)
<1>2. row.there /\ row.paid = read[2].paid /\ DOMAIN row = DOMAIN NoSlip
  BY DEF Deducted, NoSlip
<1>3. me.pc = "refresh" /\ me # AtRest
  BY DEF At, AtRest
<1> HIDE DEF row
<1>4. ASSUME Consistent, clerk'[c] = v
      PROVE  /\ \A s \in Payslips : slip[s].paid => s[1] # me.run
             /\ \A s \in Payslips :
                  \/ slip'[s] = slip[s]
                  \/ s[1] = me.run /\ ~slip'[s].paid /\ DOMAIN slip'[s] = DOMAIN NoSlip
             /\ OnePerPeriod'
             /\ Knows(clerk[c])'
  <2>1. /\ Knows(me) /\ me.run \in Runs /\ run[me.run] = "draft"
        /\ {"pc", "run", "todo"} \subseteq DOMAIN me
        /\ \A x \in me.todo : Reads(x, me.run)
    BY <1>3, <1>4 DEF Consistent, Knows
  <2>2. Reads(read, me.run)
    BY <2>1
  <2>3. /\ slip'[read[1]] = row
        /\ \A s \in Payslips : s # read[1] => slip'[s] = slip[s]
    BY <1>1, <2>2 DEF PeriodInv, Rows, Reads, row
  <2>4. ~row.paid
    BY <1>2, <2>2 DEF Reads
  <2>5. \A s \in Payslips : slip[s].paid => s[1] # me.run
    BY <1>4, <2>1, DraftUnpaid
  <2>6. OnePerPeriod'
    BY <1>4, <2>2, <2>3 DEF Consistent, OnePerPeriod, Reads
  <2>7. /\ v.pc = "refresh" /\ v.run = me.run /\ v.todo = me.todo \ {read}
        /\ {"pc", "run", "todo"} \subseteq DOMAIN v
    BY <1>3, <2>1
  <2> HIDE DEF v
  <2>8. PICK r, reads : r = me.run /\ reads = me.todo
    OBVIOUS
  <2>9. \A x \in v.todo : Reads(x, r)'
    BY <2>1, <2>3, <2>7, <2>8, ReadsStay
  <2>10. Knows(clerk[c])'
    BY <1>1, <1>4, <2>1, <2>7, <2>8, <2>9 DEF Knows
  <2> QED
    BY <1>2, <2>2, <2>3, <2>4, <2>5, <2>6, <2>10 DEF Reads
<1>5. DOMAIN slip' = Payslips /\ DOMAIN run' = Runs
  BY <1>1 DEF PeriodInv, Rows
<1>6. Now(c, v) /\ \A q \in Runs \ {me.run} : run'[q] = run[q]
  BY <1>1
<1> HIDE DEF v
<1> QED
  BY <1>3, <1>4, <1>5, <1>6, SlipsSaved

LEMMA AddLeads ==
  ASSUME PeriodInv, NEW c \in Clerks, AddSlip(c)
  PROVE  Leads
<1> DEFINE me == clerk[c]
<1>1. PICK e \in me.todo :
        /\ slip' = [slip EXCEPT ![<<me.run, e>>] =
             Deducted(e, PendingCharge(e), Suggested(e), FALSE)]
        /\ Now(c, [me EXCEPT !.todo = @ \ {e}])
        /\ UNCHANGED run
  BY DEF AddSlip
<1> DEFINE v == [me EXCEPT !.todo = @ \ {e}]
           row == Deducted(e, PendingCharge(e), Suggested(e), FALSE)
<1>2. row.there /\ ~row.paid /\ DOMAIN row = DOMAIN NoSlip
  BY DEF Deducted, NoSlip
<1>3. me.pc = "add" /\ me # AtRest
  BY DEF At, AtRest, AddSlip
<1> HIDE DEF row
<1>4. ASSUME Consistent, clerk'[c] = v
      PROVE  /\ \A s \in Payslips : slip[s].paid => s[1] # me.run
             /\ \A s \in Payslips :
                  \/ slip'[s] = slip[s]
                  \/ s[1] = me.run /\ ~slip'[s].paid /\ DOMAIN slip'[s] = DOMAIN NoSlip
             /\ OnePerPeriod'
             /\ Knows(clerk[c])'
  <2>1. /\ Knows(me) /\ me.run \in Runs /\ run[me.run] = "draft"
        /\ {"pc", "run", "todo"} \subseteq DOMAIN me
        /\ me.todo \subseteq Employees
        /\ \A d \in me.todo, q \in Runs : Period[q] = Period[me.run] => ~slip[<<q, d>>].there
    BY <1>3, <1>4 DEF Consistent, Knows
  <2>2. <<me.run, e>> \in Payslips
    BY <2>1 DEF Payslips
  <2>3. /\ slip'[<<me.run, e>>] = row
        /\ \A s \in Payslips : s # <<me.run, e>> => slip'[s] = slip[s]
    BY <1>1, <2>2 DEF PeriodInv, Rows, row
  <2>4. \A s \in Payslips : slip[s].paid => s[1] # me.run
    BY <1>4, <2>1, DraftUnpaid
  <2>5. \A s \in Payslips : Period[s[1]] = Period[me.run] /\ s[2] = e => ~slip[s].there
    <3>1. ASSUME NEW s \in Payslips, Period[s[1]] = Period[me.run], s[2] = e
          PROVE  ~slip[s].there
      <4>1. s[1] \in Runs /\ s = <<s[1], e>>
        BY <3>1 DEF Payslips
      <4> QED
        BY <1>1, <2>1, <3>1, <4>1
    <3> QED
      BY <3>1
  <2> HIDE DEF me
  <2>6. OnePerPeriod'
    BY <1>4, <2>2, <2>3, <2>5 DEF Consistent, OnePerPeriod
  <2>7. /\ v.pc = "add" /\ v.run = me.run /\ v.todo = me.todo \ {e}
        /\ {"pc", "run", "todo"} \subseteq DOMAIN v
    BY <1>3, <2>1
  <2> HIDE DEF v
  <2>8. \A d \in v.todo, q \in Runs : Period[q] = Period[v.run] => ~slip'[<<q, d>>].there
    <3>1. ASSUME NEW d \in v.todo, NEW q \in Runs, Period[q] = Period[v.run]
          PROVE  ~slip'[<<q, d>>].there
      <4>1. d \in me.todo /\ d # e /\ <<q, d>> \in Payslips /\ <<q, d>> # <<me.run, e>>
        BY <2>1, <2>7, <3>1 DEF Payslips
      <4> QED
        BY <2>1, <2>3, <2>7, <3>1, <4>1
    <3> QED
      BY <3>1
  <2>9. Knows(clerk[c])'
    BY <1>1, <1>4, <2>1, <2>7, <2>8 DEF Knows
  <2> QED
    BY <1>2, <2>2, <2>3, <2>4, <2>6, <2>9
<1>5. DOMAIN slip' = Payslips /\ DOMAIN run' = Runs
  BY <1>1 DEF PeriodInv, Rows
<1>6. Now(c, v) /\ \A q \in Runs \ {me.run} : run'[q] = run[q]
  BY <1>1
<1> HIDE DEF v
<1> QED
  BY <1>3, <1>4, <1>5, <1>6, SlipsSaved

\* A payslip is saved as the owner edited it.
LEMMA EditLeads ==
  ASSUME PeriodInv, NEW c \in Clerks, SavePayslip(c)
  PROVE  Leads
<1> DEFINE me == clerk[c]
           v == [me EXCEPT !.pc = "totals"]
<1>1. /\ me.pc = "edit" /\ me # AtRest
      /\ slip' = [slip EXCEPT ![me.slip] = me.to] /\ Now(c, v) /\ UNCHANGED run
  BY DEF SavePayslip, At, AtRest, To
<1>2. ASSUME Consistent
      PROVE  /\ Knows(me) /\ me.run \in Runs /\ run[me.run] = "draft" /\ "run" \in DOMAIN me
             /\ me.slip \in Payslips /\ me.slip[1] = me.run /\ slip[me.slip].there
             /\ me.to.there /\ ~me.to.paid /\ DOMAIN me.to = DOMAIN NoSlip
  BY <1>1, <1>2 DEF Consistent, Knows
<1>3. ASSUME Consistent, clerk'[c] = v PROVE Knows(clerk[c])'
  <2>1. v.pc = "totals" /\ v.run = me.run /\ {"pc", "run"} \subseteq DOMAIN v
    BY <1>2, <1>3, GoesOn
  <2> HIDE DEF v
  <2> QED
    BY <1>1, <1>2, <1>3, <2>1 DEF Knows
<1>4. ASSUME Consistent, clerk'[c] = v
      PROVE  /\ \A s \in Payslips : slip[s].paid => s[1] # me.run
             /\ \A s \in Payslips :
                  \/ slip'[s] = slip[s]
                  \/ s[1] = me.run /\ ~slip'[s].paid /\ DOMAIN slip'[s] = DOMAIN NoSlip
             /\ OnePerPeriod'
             /\ Knows(clerk[c])'
  <2>1. /\ slip'[me.slip] = me.to
        /\ \A s \in Payslips : s # me.slip => slip'[s] = slip[s]
    BY <1>1, <1>2, <1>4 DEF PeriodInv, Rows
  <2>2. \A s \in Payslips : slip[s].paid => s[1] # me.run
    BY <1>2, <1>4, DraftUnpaid
  <2>3. OnePerPeriod'
    BY <1>2, <1>4, <2>1 DEF Consistent, OnePerPeriod
  <2> QED
    BY <1>2, <1>3, <1>4, <2>1, <2>2, <2>3
<1>5. /\ DOMAIN slip' = Payslips /\ DOMAIN run' = Runs
      /\ \A q \in Runs \ {me.run} : run'[q] = run[q]
  BY <1>1 DEF PeriodInv, Rows
<1>6. Now(c, v) /\ clerk[c] # AtRest
  BY <1>1
<1> HIDE DEF v
<1> QED
  BY <1>4, <1>5, <1>6, SlipsSaved

\* Deleted payslips of a draft are there no more.
LEMMA DropsLeads ==
  ASSUME PeriodInv, NEW c \in Clerks, NEW v, Now(c, v), clerk[c] # AtRest, NEW gone, NEW r,
         DropSlips(gone), DOMAIN run' = Runs, \A q \in Runs \ {r} : run'[q] = run[q],
         Consistent => r \in Runs /\ run[r] = "draft" /\ \A s \in gone : s[1] = r,
         Consistent /\ clerk'[c] = v => Knows(clerk[c])'
  PROVE  Leads
<1>1. DOMAIN slip' = Payslips
  BY DEF DropSlips
<1>2. ASSUME Consistent, clerk'[c] = v
      PROVE  /\ \A s \in Payslips : slip[s].paid => s[1] # r
             /\ \A s \in Payslips :
                  \/ slip'[s] = slip[s]
                  \/ s[1] = r /\ ~slip'[s].paid /\ DOMAIN slip'[s] = DOMAIN NoSlip
             /\ OnePerPeriod'
             /\ Knows(clerk[c])'
  <2>1. \A s \in Payslips : slip'[s] = IF s \in gone THEN NoSlip ELSE slip[s]
    BY DEF DropSlips
  <2>2. \A s \in Payslips : slip[s].paid => s[1] # r
    BY <1>2, DraftUnpaid
  <2>3. ~NoSlip.paid /\ ~NoSlip.there
    BY DEF NoSlip
  <2>4. OnePerPeriod'
    BY <1>2, <2>1, <2>3 DEF Consistent, OnePerPeriod
  <2> QED
    BY <1>2, <2>1, <2>2, <2>3, <2>4
<1> QED
  BY <1>1, <1>2, SlipsSaved

LEMMA DropSteps ==
  ASSUME PeriodInv, NEW c \in Clerks, DeletePayslip(c) \/ DropRun(c)
  PROVE  Leads
<1> DEFINE me == clerk[c]
<1>1. CASE DeletePayslip(c)
  <2> DEFINE v == [me EXCEPT !.pc = "totals"]
  <2>1. /\ me.pc = "remove" /\ me # AtRest
        /\ DropSlips({me.slip}) /\ Now(c, v) /\ UNCHANGED run
    BY <1>1 DEF DeletePayslip, At, AtRest, To
  <2>2. ASSUME Consistent
        PROVE  /\ Knows(me) /\ me.run \in Runs /\ run[me.run] = "draft" /\ "run" \in DOMAIN me
               /\ me.slip[1] = me.run
    BY <2>1, <2>2 DEF Consistent, Knows
  <2>3. ASSUME Consistent, clerk'[c] = v PROVE Knows(clerk[c])'
    <3>1. v.pc = "totals" /\ v.run = me.run /\ {"pc", "run"} \subseteq DOMAIN v
      BY <2>2, <2>3, GoesOn
    <3> HIDE DEF v
    <3> QED
      BY <2>1, <2>2, <2>3, <3>1 DEF Knows
  <2>4. DOMAIN run' = Runs /\ \A q \in Runs \ {me.run} : run'[q] = run[q]
    BY <2>1 DEF PeriodInv, Rows
  <2>5. ASSUME Consistent PROVE me.run \in Runs /\ run[me.run] = "draft"
                                /\ \A s \in {me.slip} : s[1] = me.run
    BY <2>2, <2>5
  <2> HIDE DEF v
  <2> QED
    BY <2>1, <2>3, <2>4, <2>5, DropsLeads
<1>2. CASE DropRun(c)
  <2>1. /\ me.pc = "delete" /\ me # AtRest /\ run' = [run EXCEPT ![me.run] = "none"]
        /\ DropSlips(SlipsOf(me.run)) /\ Now(c, AtRest)
    BY <1>2 DEF DropRun, At, AtRest, Reply
  <2>2. ASSUME Consistent PROVE me.run \in Runs /\ run[me.run] = "draft"
                                /\ \A s \in SlipsOf(me.run) : s[1] = me.run
    BY <2>1, <2>2 DEF Consistent, Knows, SlipsOf
  <2>3. ASSUME Consistent, clerk'[c] = AtRest PROVE Knows(clerk[c])'
    BY <2>3 DEF Knows, AtRest
  <2>4. DOMAIN run' = Runs /\ \A q \in Runs \ {me.run} : run'[q] = run[q]
    BY <2>1 DEF PeriodInv, Rows
  <2> QED
    BY <2>1, <2>2, <2>3, <2>4, DropsLeads
<1> QED
  BY <1>1, <1>2

\* A payslip of a locked run is marked as paid, as it was read.
LEMMA PayLeads ==
  ASSUME PeriodInv, NEW c \in Clerks, PaySlip(c)
  PROVE  Leads
<1> DEFINE me == clerk[c]
<1>1. PICK read \in me.todo :
        /\ slip' = [slip EXCEPT ![read[1]] = [read[2] EXCEPT !.paid = TRUE]]
        /\ Now(c, [me EXCEPT !.todo = @ \ {read}])
        /\ UNCHANGED run
  BY DEF PaySlip
<1> DEFINE v == [me EXCEPT !.todo = @ \ {read}]
           row == [read[2] EXCEPT !.paid = TRUE]
<1>2. me.pc = "pay" /\ me # AtRest
  BY DEF At, AtRest, PaySlip
<1>3. ASSUME Consistent, clerk'[c] = v PROVE Steps(c)
  <2>1. /\ Knows(me) /\ me.run \in Runs /\ run[me.run] \in {"finalized", "paid"}
        /\ {"pc", "run", "todo"} \subseteq DOMAIN me
        /\ \A x \in me.todo : Reads(x, me.run)
        /\ PaidLocked /\ OnePerPeriod
    BY <1>2, <1>3 DEF Consistent, Knows
  <2>2. Reads(read, me.run)
    BY <2>1
  <2>3. read[2] = slip[read[1]]
    BY <2>2 DEF Reads
  <2>4. row.there = slip[read[1]].there /\ DOMAIN row = DOMAIN NoSlip
    <3>1. DOMAIN read[2] = DOMAIN NoSlip
      BY <2>1, <2>2, <2>3 DEF PaidLocked, Reads
    <3>2. "there" \in DOMAIN NoSlip
      BY DEF NoSlip
    <3> QED
      BY <2>3, <3>1, <3>2
  <2> HIDE DEF row
  <2>5. /\ slip'[read[1]] = row
        /\ \A s \in Payslips : s # read[1] => slip'[s] = slip[s]
    BY <1>1, <2>2 DEF PeriodInv, Rows, Reads, row
  <2>6. PaidLocked'
    BY <1>1, <2>1, <2>2, <2>4, <2>5 DEF PaidLocked, Reads
  <2>7. OnePerPeriod'
    BY <2>1, <2>2, <2>4, <2>5 DEF OnePerPeriod, Reads
  <2>8. /\ v.pc = "pay" /\ v.run = me.run /\ v.todo = me.todo \ {read}
        /\ {"pc", "run", "todo"} \subseteq DOMAIN v
    BY <1>2, <2>1
  <2> HIDE DEF v
  <2>9. PICK r, reads : r = me.run /\ reads = me.todo
    OBVIOUS
  <2>10. \A x \in v.todo : Reads(x, r)'
    BY <2>1, <2>5, <2>8, <2>9, ReadsStay
  <2>11. Knows(clerk[c])'
    BY <1>1, <1>3, <2>1, <2>8, <2>9, <2>10 DEF Knows
  <2>12. \A s \in Payslips : slip[s].paid => slip'[s] = slip[s] /\ run'[s[1]] # "draft"
    BY <1>1, <2>1, <2>2, <2>5 DEF PaidLocked, Reads
  <2> QED
    BY <2>1, <2>6, <2>7, <2>11, <2>12 DEF Steps
<1>4. Rows'
  BY <1>1 DEF PeriodInv, Rows, Now
<1> HIDE DEF v
<1>5. Now(c, v)
  BY <1>1 DEF v
<1> QED
  BY <1>2, <1>3, <1>4, <1>5, WriteLeads

\* A request that stops, whichever step it was at, leaves rows that fit.
LEMMA StopLeads ==
  ASSUME PeriodInv, NEW c \in Clerks, Stop(c)
  PROVE  Leads
<1>1. ASSUME Alone' PROVE Consistent /\ Steps(c) /\ \A d \in Clerks \ {c} : clerk[d] = AtRest
  <2>1. Consistent
    BY <1>1 DEF PeriodInv, Alone, Stop
  <2>2. clerk'[c] = AtRest /\ UNCHANGED <<run, slip>>
    BY DEF PeriodInv, Rows, Stop
  <2>3. Knows(clerk[c])'
    BY <2>2 DEF Knows, AtRest
  <2>4. \A d \in Clerks \ {c} : clerk[d] = AtRest
    BY <2>1 DEF Consistent, OneBusy, Stop
  <2> QED
    BY <2>1, <2>2, <2>3, <2>4 DEF Steps, Consistent, PaidLocked, OnePerPeriod
<1>2. Rows' /\ clerk' = [clerk EXCEPT ![c] = AtRest]
  BY DEF PeriodInv, Rows, Stop
<1> QED
  BY <1>1, <1>2, OneStep

\* Steps that leave runs, payslips and requests as they are.
LEMMA QuietLeads ==
  ASSUME PeriodInv, UNCHANGED <<run, slip, clerk, mishaps>>
  PROVE  Leads
<1>1. Rows' /\ (Alone' => Alone)
  BY DEF PeriodInv, Rows, Alone
<1>2. ASSUME Consistent PROVE Consistent' /\ PaidStands
  <2>1. OneBusy' /\ PaidLocked' /\ OnePerPeriod' /\ PaidStands
    BY <1>2 DEF Consistent, OneBusy, PaidLocked, OnePerPeriod, PaidStands
  <2>2. \A c \in Clerks : Knows(clerk[c])'
    BY <1>2 DEF Consistent, Knows, Reads
  <2> QED
    BY <2>1, <2>2 DEF Consistent
<1> QED
  BY <1>1, <1>2 DEF PeriodInv, Leads, PaidStands

LEMMA PeriodStep == PeriodInv /\ [PayNext]_payVars => Leads
<1> SUFFICES ASSUME PeriodInv, [PayNext]_payVars PROVE Leads
  OBVIOUS
<1>1. CASE UNCHANGED payVars
  BY <1>1, QuietLeads DEF payVars
<1>2. CASE PayNext
  <2>1. PICK c \in Clerks : PayNext!(c)
    BY <1>2 DEF PayNext
  <2>2. ASSUME NEW a \in Advances, NEW amount \in Amounts, NEW monthly \in Amounts,
               CreateAdvance(a, amount, monthly)
        PROVE  Leads
    BY <2>2, QuietLeads DEF CreateAdvance
  <2> QED
    BY <2>1, <2>2, AskSteps, ReadSteps, RunSteps, RefreshLeads, AddLeads, EditLeads, DropSteps,
       PayLeads, StopLeads
<1> QED
  BY <1>1, <1>2

\* Nobody is on two payslips of a period, in runs of one branch and of all,
\* for every staff, every set of runs and any number of requests that stop,
\* as long as no two of them overlap: fillRun and regenerate look first, then
\* save one payslip after another.
THEOREM OneSlipPerPeriod == PaySpec => []OncePerPeriod
<1>1. PeriodInv /\ [PayNext]_payVars => PeriodInv'
  BY PeriodStep DEF Leads
<1>2. PeriodInv => OncePerPeriod
  BY DEF PeriodInv, Consistent, OnePerPeriod, OncePerPeriod
<1> QED
  BY PeriodInit, <1>1, <1>2, PTL DEF PaySpec

\* A payslip that was paid stays as it is, and its run is never a draft again,
\* whatever else is asked for after it, under the same condition.
THEOREM PaidSlipsStand == PaySpec => PaidIsFinal
<1>1. PeriodInv /\ [PayNext]_payVars => PeriodInv'
  BY PeriodStep DEF Leads
<1>2. PeriodInv /\ [PayNext]_payVars => [PaidStands]_payVars
  BY PeriodStep DEF Leads
<1> QED
  BY PeriodInit, <1>1, <1>2, PTL DEF PaySpec, PaidIsFinal

-----------------------------------------------------------------------------
(* What is taken back of advances: a table of repayments and its two sums. *)

\* What is taken back by a payslip, of each advance.
Back(table, s) == [a \in Advances |-> table[a][s]]

LEMMA FoldIsSum == \A f : FoldFunction(+, 0, f) = SumOf(f, DOMAIN f)
BY DEF FoldFunction, FoldFunctionOnSet, SumOf, MapThenSumSet

LEMMA BackIsSum ==
  \A table, s : MapThenSumSet(LAMBDA a : table[a][s], Advances) = SumOf(Back(table, s), Advances)
<1> TAKE table, s
<1> DEFINE adds(h) == h = [u \in SUBSET Advances |->
             IF u = {} THEN 0 ELSE table[SumFirst(u)][s] + h[u \ {SumFirst(u)}]]
<1>1. MapThenSumSet(LAMBDA a : table[a][s], Advances) = (CHOOSE h : adds(h))[Advances]
  BY DEF MapThenSumSet, MapThenFoldSet, SumFirst
<1>2. ASSUME NEW h PROVE adds(h) <=> SumTable(Back(table, s), h, Advances)
  <2>1. ASSUME NEW u \in SUBSET Advances
        PROVE  SumAdds(Back(table, s), h, u) =
                 IF u = {} THEN 0 ELSE table[SumFirst(u)][s] + h[u \ {SumFirst(u)}]
    <3>1. u # {} => SumFirst(u) \in Advances
      BY SumFirstOf
    <3> QED
      BY <3>1 DEF SumAdds, Back
  <2> QED
    BY <2>1 DEF SumTable
<1>3. (CHOOSE h : adds(h)) = (CHOOSE h : SumTable(Back(table, s), h, Advances))
  BY <1>2
<1> QED
  BY <1>1, <1>3, SumUnfolds

\* What a repayment is booked on.
Ways == Payslips \union {Cash}
Table == [Advances -> [Ways -> Nat]]

LEMMA WaysFinite == IsFiniteSet(Ways) /\ Cash \notin Payslips
<1>1. IsFiniteSet(Payslips)
  BY PayrollAssumption, FS_Product DEF Payslips
<1>2. IsFiniteSet({Cash})
  BY FS_Singleton
<1>3. Cash \notin Payslips
  BY DEF Cash, Payslips
<1> QED
  BY <1>1, <1>2, <1>3, FS_Union DEF Ways

\* The two sums of a table of repayments.
LEMMA TableSums ==
  ASSUME NEW t \in Table
  PROVE  /\ \A a \in Advances : SumOf(t[a], Ways) \in Nat
         /\ \A s \in Ways : SumOf(Back(t, s), Advances) \in Nat
         /\ \A s \in Ways, a \in Advances : t[a][s] <= SumOf(Back(t, s), Advances)
<1>1. \A a \in Advances : SumOf(t[a], Ways) \in Nat
  BY WaysFinite, SumNat DEF Table
<1>2. ASSUME NEW s \in Ways
      PROVE  /\ SumOf(Back(t, s), Advances) \in Nat
             /\ \A a \in Advances : t[a][s] <= SumOf(Back(t, s), Advances)
  <2>1. \A a \in Advances : Back(t, s)[a] = t[a][s] /\ Back(t, s)[a] \in Nat
    BY DEF Back, Table
  <2>2. IsFiniteSet(Advances)
    BY PayrollAssumption
  <2>3. SumOf(Back(t, s), Advances) \in Nat
    BY <2>1, <2>2, SumNat
  <2>4. \A a \in Advances : Back(t, s)[a] <= SumOf(Back(t, s), Advances)
    BY <2>1, <2>2, SumEntry
  <2> QED
    BY <2>1, <2>3, <2>4
<1> QED
  BY <1>1, <1>2

\* One entry grows; what some payslips took back is dropped.
Grows(t, u, b, k, n) == u = [t EXCEPT ![b][k] = @ + n]
Drops(t, u, gone) ==
  u = [a \in Advances |-> [k \in DOMAIN t[a] |-> IF k \in gone THEN 0 ELSE t[a][k]]]

LEMMA TableGrows ==
  ASSUME NEW t \in Table, NEW u \in Table, NEW b \in Advances, NEW k \in Ways, NEW n \in Int,
         Grows(t, u, b, k, n)
  PROVE  /\ SumOf(u[b], Ways) = SumOf(t[b], Ways) + n
         /\ \A a \in Advances \ {b} : u[a] = t[a]
         /\ SumOf(Back(u, k), Advances) = SumOf(Back(t, k), Advances) + n
         /\ \A s \in Ways \ {k} : SumOf(Back(u, s), Advances) = SumOf(Back(t, s), Advances)
<1>1. u[b] = [t[b] EXCEPT ![k] = @ + n] /\ \A a \in Advances \ {b} : u[a] = t[a]
  BY DEF Table, Grows
<1>2. u[b][k] = t[b][k] + n /\ \A s \in Ways \ {k} : u[b][s] = t[b][s]
  BY <1>1 DEF Table
<1>3. SumOf(u[b], Ways) = SumOf(t[b], Ways) + n
  <2>1. \A x \in Ways : t[b][x] \in Int /\ u[b][x] \in Int
    BY DEF Table
  <2>2. OneMoves(t[b], u[b], Ways, n)
    BY <1>2 DEF OneMoves
  <2> QED
    BY <2>1, <2>2, WaysFinite, SumMoves
<1>4. IsFiniteSet(Advances)
  BY PayrollAssumption
<1>5. \A s \in Ways : \A x \in Advances :
        Back(t, s)[x] = t[x][s] /\ Back(u, s)[x] = u[x][s] /\ t[x][s] \in Int /\ u[x][s] \in Int
  BY DEF Back, Table
<1>6. SumOf(Back(u, k), Advances) = SumOf(Back(t, k), Advances) + n
  <2>0. /\ \A x \in Advances \ {b} : Back(u, k)[x] = Back(t, k)[x]
        /\ Back(u, k)[b] = Back(t, k)[b] + n
    BY <1>1, <1>2 DEF Back
  <2>1. OneMoves(Back(t, k), Back(u, k), Advances, n)
    BY <2>0 DEF OneMoves
  <2>2. \A x \in Advances : Back(t, k)[x] \in Int /\ Back(u, k)[x] \in Int
    BY <1>5
  <2> QED
    BY <1>4, <2>1, <2>2, SumMoves
<1>7. ASSUME NEW s \in Ways \ {k} PROVE SumOf(Back(u, s), Advances) = SumOf(Back(t, s), Advances)
  <2>1. \A x \in Advances : u[x][s] = t[x][s]
    BY <1>1, <1>2
  <2>2. \A x \in Advances : Back(u, s)[x] = Back(t, s)[x]
    BY <2>1 DEF Back
  <2> QED
    BY <1>4, <2>2, SumSame
<1> QED
  BY <1>1, <1>3, <1>6, <1>7

LEMMA TableDrops ==
  ASSUME NEW t \in Table, NEW gone, NEW u, Drops(t, u, gone)
  PROVE  /\ u \in Table
         /\ \A a \in Advances : SumOf(u[a], Ways) <= SumOf(t[a], Ways)
         /\ \A a \in Advances :
              (\A k \in gone \cap Ways : t[a][k] = 0) => SumOf(u[a], Ways) = SumOf(t[a], Ways)
         /\ \A s \in Ways \ gone : SumOf(Back(u, s), Advances) = SumOf(Back(t, s), Advances)
         /\ \A s \in Ways \cap gone : SumOf(Back(u, s), Advances) = 0
<1>1. \A a \in Advances : DOMAIN t[a] = Ways /\ \A k \in Ways : t[a][k] \in Nat
  BY DEF Table
<1>2. \A a \in Advances, k \in Ways : u[a][k] = IF k \in gone THEN 0 ELSE t[a][k]
  BY <1>1 DEF Drops
<1>3. u \in Table
  BY <1>1 DEF Table, Drops
<1>4. ASSUME NEW a \in Advances
      PROVE  /\ SumOf(u[a], Ways) <= SumOf(t[a], Ways)
             /\ (\A k \in gone \cap Ways : t[a][k] = 0) => SumOf(u[a], Ways) = SumOf(t[a], Ways)
  <2>1. \A k \in Ways : u[a][k] \in Int /\ t[a][k] \in Int /\ u[a][k] <= t[a][k]
    BY <1>1, <1>2
  <2>2. SumOf(u[a], Ways) <= SumOf(t[a], Ways)
    BY <2>1, WaysFinite, SumLe
  <2>3. ASSUME \A k \in gone \cap Ways : t[a][k] = 0
        PROVE  SumOf(u[a], Ways) = SumOf(t[a], Ways)
    <3>1. \A k \in Ways : u[a][k] = t[a][k]
      BY <1>2, <2>3
    <3> QED
      BY <3>1, WaysFinite, SumSame
  <2> QED
    BY <2>2, <2>3
<1>5. ASSUME NEW s \in Ways
      PROVE  /\ s \notin gone => SumOf(Back(u, s), Advances) = SumOf(Back(t, s), Advances)
             /\ s \in gone => SumOf(Back(u, s), Advances) = 0
  <2>1. \A a \in Advances : Back(u, s)[a] = IF s \in gone THEN 0 ELSE Back(t, s)[a]
    BY <1>2 DEF Back
  <2>2. IsFiniteSet(Advances)
    BY PayrollAssumption
  <2>3. s \in gone => SumOf(Back(u, s), Advances) = 0
    BY <2>1, <2>2, SumZero
  <2>4. s \notin gone => SumOf(Back(u, s), Advances) = SumOf(Back(t, s), Advances)
    BY <2>1, <2>2, SumSame
  <2> QED
    BY <2>3, <2>4
<1> QED
  BY <1>3, <1>4, <1>5

\* The charges pending, and what is proposed to be deducted, are numbers.
LEMMA PendingNat == ASSUME NEW e PROVE PendingCharge(e) \in Nat
<1> DEFINE S == Pending(e)
           table(h) == h = [u \in SUBSET S |->
             IF u = {} THEN 0 ELSE Charge[SumFirst(u)] + h[u \ {SumFirst(u)}]]
<1>1. PendingCharge(e) = (CHOOSE h : table(h))[S]
  BY DEF PendingCharge, MapThenSumSet, MapThenFoldSet, SumFirst
<1>2. \A h : table(h) <=> SumTable(Charge, h, S)
  BY DEF SumTable, SumAdds
<1>3. (CHOOSE h : table(h)) = (CHOOSE h : SumTable(Charge, h, S))
  BY <1>2
<1>4. IsFiniteSet(S) /\ \A x \in S : Charge[x] \in Nat
  <2>1. S \subseteq Assets
    BY DEF Pending
  <2> QED
    BY <2>1, PayrollAssumption, FS_Subset
<1>5. PendingCharge(e) = SumOf(Charge, S)
  BY <1>1, <1>3, SumUnfolds
<1> HIDE DEF S
<1> QED
  BY <1>4, <1>5, SumNat

LEMMA MinOfTwo == \A x, y \in Int : Min({x, y}) \in {x, y} /\ Min({x, y}) <= x /\ Min({x, y}) <= y
<1> TAKE x, y \in Int
<1>1. \E z \in {x, y} : \A t \in {x, y} : z =< t
  OBVIOUS
<1> QED
  BY <1>1 DEF Min

LEMMA MaxOfTwo == \A x, y \in Int : Max({x, y}) \in {x, y} /\ Max({x, y}) >= x /\ Max({x, y}) >= y
<1> TAKE x, y \in Int
<1>1. \E z \in {x, y} : \A t \in {x, y} : z >= t
  OBVIOUS
<1> QED
  BY <1>1 DEF Max

\* Of some advances one is the oldest.
LEMMA OldestThere == \A S \in SUBSET Advances : S # {} => Min(S) \in S
<1> TAKE S \in SUBSET Advances
<1> SUFFICES ASSUME S # {} PROVE Min(S) \in S
  OBVIOUS
<1>1. S \subseteq Nat
  BY PayrollAssumption
<1> DEFINE below == {ss \in Nat \X Nat : ss[1] < ss[2]}
<1>2. IsWellFoundedOn(below, Nat)
  BY NatLessThanWellFounded DEF OpToRel
<1>3. PICK z \in S : \A t \in S : ~ (<<t, z>> \in below)
  BY <1>1, <1>2, WFMin
<1>4. \A t \in S : ~ (t < z)
  BY <1>1, <1>3
<1>5. \A t \in S : z <= t
  BY <1>1, <1>4
<1> QED
  BY <1>5 DEF Min

\* The sums of what is in the rows.
LEMMA BookNat ==
  ASSUME repaid \in Table
  PROVE  /\ \A a \in Advances : RepaidOf(a) = SumOf(repaid[a], Ways) /\ RepaidOf(a) \in Nat
         /\ \A s : BookedOn(s) = SumOf(Back(repaid, s), Advances)
         /\ \A s \in Payslips : BookedOn(s) \in Nat
         /\ \A s \in Payslips, a \in Advances : repaid[a][s] \in Nat /\ repaid[a][s] <= BookedOn(s)
<1>1. \A a \in Advances : RepaidOf(a) = SumOf(repaid[a], Ways)
  BY FoldIsSum DEF RepaidOf, Table
<1>2. \A s : BookedOn(s) = SumOf(Back(repaid, s), Advances)
  BY BackIsSum DEF BookedOn
<1>3. \A s \in Payslips : s \in Ways
  BY DEF Ways
<1>4. \A s \in Ways, a \in Advances : repaid[a][s] \in Nat
  BY DEF Table
<1> QED
  BY <1>1, <1>2, <1>3, <1>4, TableSums

LEMMA BookNatNext ==
  ASSUME repaid' \in Table
  PROVE  /\ \A a \in Advances : RepaidOf(a)' = SumOf(repaid'[a], Ways) /\ RepaidOf(a)' \in Nat
         /\ \A s : BookedOn(s)' = SumOf(Back(repaid', s), Advances)
<1>1. \A a \in Advances : RepaidOf(a)' = SumOf(repaid'[a], Ways)
  <2>1. \A a \in Advances : RepaidOf(a)' = SumOf(repaid'[a], DOMAIN repaid'[a])
    BY DEF RepaidOf, FoldFunction, FoldFunctionOnSet, SumOf, MapThenSumSet, MapThenFoldSet
  <2> QED
    BY <2>1 DEF Table
<1>2. \A s : BookedOn(s)' = SumOf(Back(repaid', s), Advances)
  <2>1. \A s : BookedOn(s)' = MapThenSumSet(LAMBDA a : repaid'[a][s], Advances)
    BY DEF BookedOn, MapThenSumSet, MapThenFoldSet
  <2> QED
    BY <2>1, BackIsSum
<1> QED
  BY <1>1, <1>2, TableSums

LEMMA BooksSame ==
  ASSUME repaid' = repaid
  PROVE  (\A a : RepaidOf(a)' = RepaidOf(a)) /\ (\A s : BookedOn(s)' = BookedOn(s))
BY DEF RepaidOf, FoldFunction, FoldFunctionOnSet, BookedOn, MapThenSumSet, MapThenFoldSet

LEMMA BooksGrow ==
  ASSUME repaid \in Table, repaid' \in Table, NEW b \in Advances, NEW k \in Ways, NEW n \in Int,
         repaid' = [repaid EXCEPT ![b][k] = @ + n]
  PROVE  /\ RepaidOf(b)' = RepaidOf(b) + n
         /\ \A a \in Advances \ {b} : RepaidOf(a)' = RepaidOf(a)
         /\ \A s \in Payslips \ {k} : BookedOn(s)' = BookedOn(s)
         /\ k \in Payslips => BookedOn(k)' = BookedOn(k) + n
<1>1. /\ SumOf(repaid'[b], Ways) = SumOf(repaid[b], Ways) + n
      /\ \A a \in Advances \ {b} : repaid'[a] = repaid[a]
      /\ SumOf(Back(repaid', k), Advances) = SumOf(Back(repaid, k), Advances) + n
      /\ \A s \in Ways \ {k} : SumOf(Back(repaid', s), Advances) = SumOf(Back(repaid, s), Advances)
  <2>1. PICK t, u : t = repaid /\ u = repaid'
    OBVIOUS
  <2>2. t \in Table /\ u \in Table /\ Grows(t, u, b, k, n)
    BY <2>1 DEF Grows
  <2>3. /\ SumOf(u[b], Ways) = SumOf(t[b], Ways) + n
        /\ \A a \in Advances \ {b} : u[a] = t[a]
        /\ SumOf(Back(u, k), Advances) = SumOf(Back(t, k), Advances) + n
        /\ \A s \in Ways \ {k} : SumOf(Back(u, s), Advances) = SumOf(Back(t, s), Advances)
    BY <2>2, TableGrows
  <2> QED
    BY <2>1, <2>3
<1>2. \A s \in Payslips \ {k} : s \in Ways \ {k}
  BY DEF Ways
<1> QED
  BY <1>1, <1>2, BookNat, BookNatNext

LEMMA BooksDrop ==
  ASSUME repaid \in Table, NEW gone, repaid' = Unbooked(gone)
  PROVE  /\ repaid' \in Table
         /\ \A a \in Advances : RepaidOf(a)' <= RepaidOf(a)
         /\ \A a \in Advances :
              (\A s \in gone \cap Payslips : repaid[a][s] = 0) /\ Cash \notin gone
                => RepaidOf(a)' = RepaidOf(a)
         /\ \A s \in Payslips \ gone : BookedOn(s)' = BookedOn(s)
         /\ \A s \in Payslips \cap gone : BookedOn(s)' = 0
<1>1. repaid' = [a \in Advances |-> [k \in DOMAIN repaid[a] |-> IF k \in gone THEN 0 ELSE repaid[a][k]]]
  BY DEF Unbooked
<1>2. /\ repaid' \in Table
      /\ \A a \in Advances : SumOf(repaid'[a], Ways) <= SumOf(repaid[a], Ways)
      /\ \A a \in Advances :
           (\A k \in gone \cap Ways : repaid[a][k] = 0) => SumOf(repaid'[a], Ways) = SumOf(repaid[a], Ways)
      /\ \A s \in Ways \ gone : SumOf(Back(repaid', s), Advances) = SumOf(Back(repaid, s), Advances)
      /\ \A s \in Ways \cap gone : SumOf(Back(repaid', s), Advances) = 0
  <2>1. PICK t, u : t = repaid /\ u = repaid'
    OBVIOUS
  <2>2. t \in Table /\ Drops(t, u, gone)
    BY <1>1, <2>1 DEF Drops
  <2>3. /\ u \in Table
        /\ \A a \in Advances : SumOf(u[a], Ways) <= SumOf(t[a], Ways)
        /\ \A a \in Advances :
             (\A k \in gone \cap Ways : t[a][k] = 0) => SumOf(u[a], Ways) = SumOf(t[a], Ways)
        /\ \A s \in Ways \ gone : SumOf(Back(u, s), Advances) = SumOf(Back(t, s), Advances)
        /\ \A s \in Ways \cap gone : SumOf(Back(u, s), Advances) = 0
    BY <2>2, TableDrops
  <2> QED
    BY <2>1, <2>3
<1>3. \A a \in Advances :
        (\A s \in gone \cap Payslips : repaid[a][s] = 0) /\ Cash \notin gone
          => \A k \in gone \cap Ways : repaid[a][k] = 0
  BY DEF Ways
<1>4. \A s \in Payslips : s \in Ways
  BY DEF Ways
<1> QED
  BY <1>2, <1>3, <1>4, BookNat, BookNatNext

LEMMA BooksForget ==
  ASSUME repaid \in Table, NEW b \in Advances,
         repaid' = [repaid EXCEPT ![b] = [k \in DOMAIN @ |-> 0]]
  PROVE  /\ repaid' \in Table
         /\ RepaidOf(b)' = 0
         /\ \A a \in Advances \ {b} : RepaidOf(a)' = RepaidOf(a)
         /\ \A s \in Payslips : BookedOn(s)' <= BookedOn(s)
<1>1. /\ repaid' \in Table
      /\ \A a \in Advances \ {b} : repaid'[a] = repaid[a]
      /\ \A k \in Ways : repaid'[b][k] = 0
  BY DEF Table
<1>2. SumOf(repaid'[b], Ways) = 0
  BY <1>1, WaysFinite, SumZero
<1>3. ASSUME NEW s \in Payslips
      PROVE  SumOf(Back(repaid', s), Advances) <= SumOf(Back(repaid, s), Advances)
  <2>1. s \in Ways
    BY DEF Ways
  <2>2. \A a \in Advances : repaid[a][s] \in Nat /\ repaid'[a][s] \in Nat
    BY <1>1, <2>1 DEF Table
  <2>3. \A a \in Advances : repaid'[a][s] <= repaid[a][s]
    BY <1>1, <2>1, <2>2
  <2>4. \A a \in Advances : /\ Back(repaid', s)[a] \in Int /\ Back(repaid, s)[a] \in Int
                            /\ Back(repaid', s)[a] <= Back(repaid, s)[a]
    BY <2>2, <2>3 DEF Back
  <2> QED
    BY <2>4, PayrollAssumption, SumLe
<1> QED
  BY <1>1, <1>2, <1>3, BookNat, BookNatNext

-----------------------------------------------------------------------------
(* Every request holds what its place asks for, whatever the others do.    *)

SlipRow == [asset: Nat, advance: Nat, paid: BOOLEAN, there: BOOLEAN]
AdvanceRow == [amount: Nat, monthly: Nat, status: {"none", "open", "closed"}]

\* What a request holds at each place, whatever the others do.
PayKinds(me) ==
  /\ "pc" \in DOMAIN me
  /\ me.pc \in {"idle", "create", "refresh", "fill", "add", "totals", "edit", "remove", "delete",
                "book", "repay", "close", "assets", "unbook", "unclose", "uncharge", "draft",
                "pay", "advance", "cash", "forget"}
  /\ me.pc \notin {"idle", "advance", "cash", "forget"} => "run" \in DOMAIN me /\ me.run \in Runs
  /\ me.pc \in {"refresh", "pay", "book", "repay", "close", "assets"} =>
       "todo" \in DOMAIN me /\ me.todo \subseteq Payslips \X SlipRow
  /\ me.pc = "add" => "todo" \in DOMAIN me /\ me.todo \subseteq Employees
  /\ me.pc \in {"edit", "remove", "repay", "close", "assets"} =>
       "slip" \in DOMAIN me /\ me.slip \in Payslips
  /\ me.pc = "edit" => me.to \in SlipRow
  /\ me.pc \in {"repay", "close"} =>
       /\ {"asset", "left", "open"} \subseteq DOMAIN me /\ me.asset \in Nat /\ me.left \in Nat
       /\ DOMAIN me.open \subseteq Advances
       /\ \A a \in DOMAIN me.open : me.open[a].row \in AdvanceRow /\ me.open[a].balance \in Int
  /\ me.pc = "close" => DOMAIN me.open # {}
  /\ me.pc = "assets" => "charges" \in DOMAIN me /\ me.charges \subseteq Assets
  /\ me.pc \in {"unbook", "unclose", "uncharge", "draft"} =>
       "slips" \in DOMAIN me /\ me.slips \subseteq Payslips
  /\ me.pc = "unclose" => "advances" \in DOMAIN me /\ me.advances \subseteq Advances
  /\ me.pc \in {"advance", "cash", "forget"} => "advance" \in DOMAIN me /\ me.advance \in Advances
  /\ me.pc \in {"advance", "cash"} => "to" \in DOMAIN me /\ me.to \in AdvanceRow
  /\ me.pc = "cash" => "amount" \in DOMAIN me /\ me.amount \in Nat

PayTypes == PayTypeOK /\ DOMAIN clerk = Clerks /\ \A c \in Clerks : PayKinds(clerk[c])

RunTable == [Runs -> {"none", "draft", "finalized", "paid"}]
SlipTable == [Payslips -> SlipRow]
AdvanceTable == [Advances -> AdvanceRow]
ChargeTable == [Assets -> Payslips \union {NoOne, Gone}]

LEMMA PayTables ==
  PayTypeOK <=> /\ run \in RunTable /\ slip \in SlipTable /\ advance \in AdvanceTable
                /\ repaid \in Table /\ charged \in ChargeTable /\ mishaps \subseteq {"overlap", "stop"}
BY DEF PayTypeOK, RunTable, SlipTable, SlipRow, AdvanceTable, AdvanceRow, Table, Ways, ChargeTable

\* Clerk c goes on as v; the rows that change are rows.
LEMMA MovesTypes ==
  ASSUME PayTypes, NEW c \in Clerks, NEW v, clerk' = [clerk EXCEPT ![c] = v], PayKinds(v),
         run' = run \/ run' \in RunTable, slip' = slip \/ slip' \in SlipTable,
         advance' = advance \/ advance' \in AdvanceTable, repaid' = repaid \/ repaid' \in Table,
         charged' = charged \/ charged' \in ChargeTable, mishaps' \subseteq {"overlap", "stop"}
  PROVE  PayTypes'
<1>1. PayTypeOK'
  <2>1. /\ run' \in RunTable /\ slip' \in SlipTable /\ advance' \in AdvanceTable
        /\ repaid' \in Table /\ charged' \in ChargeTable
    BY PayTables DEF PayTypes
  <2> QED
    BY <2>1 DEF PayTypeOK, RunTable, SlipTable, SlipRow, AdvanceTable, AdvanceRow, Table, Ways,
                ChargeTable
<1>2. DOMAIN clerk' = Clerks /\ clerk'[c] = v /\ \A d \in Clerks \ {c} : clerk'[d] = clerk[d]
  BY DEF PayTypes
<1>3. \A d \in Clerks : PayKinds(clerk[d])' <=> PayKinds(clerk'[d])
  BY DEF PayKinds
<1>4. \A d \in Clerks : PayKinds(clerk'[d])
  BY <1>2 DEF PayTypes
<1> QED
  BY <1>1, <1>2, <1>3, <1>4 DEF PayTypes

LEMMA AskTypes ==
  ASSUME PayTypes, NEW c \in Clerks, NEW v, Ask(c, v), PayKinds(v)
  PROVE  PayTypes'
<1>1. mishaps' \subseteq {"overlap", "stop"}
  BY PayTables DEF PayTypes, Ask
<1> QED
  BY <1>1, MovesTypes DEF Ask

LEMMA NowTypes ==
  ASSUME PayTypes, NEW c \in Clerks, NEW v, Now(c, v), PayKinds(v),
         run' = run \/ run' \in RunTable, slip' = slip \/ slip' \in SlipTable,
         advance' = advance \/ advance' \in AdvanceTable, repaid' = repaid \/ repaid' \in Table,
         charged' = charged \/ charged' \in ChargeTable
  PROVE  PayTypes'
<1>1. mishaps' \subseteq {"overlap", "stop"}
  BY PayTables DEF PayTypes, Now
<1> QED
  BY <1>1, MovesTypes DEF Now

LEMMA RestKind == PayKinds(AtRest)
BY DEF PayKinds, AtRest

LEMMA ReplyTypes ==
  ASSUME PayTypes, NEW c \in Clerks, Reply(c),
         run' = run \/ run' \in RunTable, slip' = slip \/ slip' \in SlipTable,
         advance' = advance \/ advance' \in AdvanceTable, repaid' = repaid \/ repaid' \in Table,
         charged' = charged \/ charged' \in ChargeTable
  PROVE  PayTypes'
BY RestKind, NowTypes DEF Reply

\* A payslip's deductions are numbers.
LEMMA DeductedRow ==
  ASSUME NEW e \in Employees, NEW assets \in Nat, NEW wanted \in Nat, NEW paid \in BOOLEAN
  PROVE  Deducted(e, assets, wanted, paid) \in SlipRow
<1> DEFINE taken == Min({assets, Gross[e]})
<1>1. Gross[e] \in Nat
  BY PayrollAssumption
<1>2. taken \in {assets, Gross[e]} /\ taken <= Gross[e]
  <2>1. assets \in Int /\ Gross[e] \in Int
    BY <1>1
  <2> QED
    BY ONLY <2>1, MinOfTwo DEF taken
<1>3. taken \in Nat /\ Gross[e] - taken \in Nat
  BY <1>1, <1>2
<1> HIDE DEF taken
<1>4. Min({wanted, Gross[e] - taken}) \in Nat
  <2>1. wanted \in Int /\ Gross[e] - taken \in Int
    BY <1>3
  <2>2. Min({wanted, Gross[e] - taken}) \in {wanted, Gross[e] - taken}
    BY ONLY <2>1, MinOfTwo
  <2> QED
    BY <1>3, <2>2
<1> QED
  BY <1>3, <1>4 DEF Deducted, SlipRow, taken

LEMMA SuggestedNat ==
  ASSUME PayTypes, NEW e PROVE Suggested(e) \in Nat
<1> DEFINE S == OpenOf(e)
           due(a) == Min({advance[a].monthly, Max({0, Balance(a)})})
           f == [a \in Advances |-> due(a)]
           table(h) == h = [u \in SUBSET S |->
             IF u = {} THEN 0 ELSE due(SumFirst(u)) + h[u \ {SumFirst(u)}]]
<1>0. S \in SUBSET Advances /\ IsFiniteSet(S)
  <2>1. S \in SUBSET Advances
    BY DEF OpenOf
  <2> QED
    BY <2>1, PayrollAssumption, FS_Subset
<1>1. Suggested(e) = (CHOOSE h : table(h))[S]
  BY DEF Suggested, MapThenSumSet, MapThenFoldSet, SumFirst
<1>2. ASSUME NEW a \in Advances PROVE due(a) \in Nat
  <2>1. Balance(a) \in Int /\ advance[a].monthly \in Nat
    BY BookNat, PayTables DEF PayTypes, AdvanceTable, AdvanceRow, Balance
  <2>2. Max({0, Balance(a)}) \in Nat
    BY <2>1, MaxOfTwo
  <2>3. due(a) \in {advance[a].monthly, Max({0, Balance(a)})}
    <3>1. advance[a].monthly \in Int /\ Max({0, Balance(a)}) \in Int
      BY <2>1, <2>2
    <3> QED
      BY ONLY <3>1, MinOfTwo DEF due
  <2> QED
    BY <2>1, <2>2, <2>3
<1> HIDE DEF S, due
<1>3. ASSUME NEW h PROVE table(h) <=> SumTable(f, h, S)
  <2>1. ASSUME NEW u \in SUBSET S
        PROVE  SumAdds(f, h, u) = IF u = {} THEN 0 ELSE due(SumFirst(u)) + h[u \ {SumFirst(u)}]
    <3>1. u # {} => SumFirst(u) \in Advances
      BY <1>0, SumFirstOf
    <3> QED
      BY <3>1 DEF SumAdds
  <2> QED
    BY <2>1 DEF SumTable
<1>4. (CHOOSE h : table(h)) = (CHOOSE h : SumTable(f, h, S))
  BY <1>3
<1>5. Suggested(e) = SumOf(f, S)
  BY <1>1, <1>4, SumUnfolds
<1>6. \A a \in S : f[a] \in Nat
  BY <1>0, <1>2
<1> HIDE DEF f, table
<1> QED
  BY <1>0, <1>5, <1>6, SumNat

\* What a request reads of the payslips of a run.
LEMMA ReadKinds ==
  ASSUME PayTypes, NEW r \in Runs
  PROVE  /\ SlipsOf(r) \subseteq Payslips
         /\ \A S \in SUBSET SlipsOf(r) : {<<s, slip[s]>> : s \in S} \subseteq Payslips \X SlipRow
<1>1. \A s \in Payslips : slip[s] \in SlipRow
  BY PayTables DEF PayTypes, SlipTable
<1> QED
  BY <1>1 DEF SlipsOf

LEMMA AskKinds ==
  ASSUME PayTypes, NEW c \in Clerks
  PROVE  /\ \A r \in Runs :
              \/ CreateRun(c, r) \/ Regenerate(c, r) \/ DeleteRun(c, r)
              \/ Finalize(c, r) \/ Reopen(c, r)
              \/ \E which \in SUBSET SlipsOf(r) : Pay(c, r, which)
              => PayTypes'
         /\ \A s \in Payslips :
              \/ RemovePayslip(c, s)
              \/ \E wanted \in 0..MaxAmount : UpdatePayslip(c, s, wanted)
              => PayTypes'
         /\ \A a \in Advances :
              \/ \E amount, monthly \in Amounts : UpdateAdvance(c, a, amount, monthly)
              \/ \E amount \in Amounts : RepayAdvance(c, a, amount)
              \/ DeleteAdvance(c, a)
              => PayTypes'
<1>1. ASSUME NEW r \in Runs, CreateRun(c, r) \/ DeleteRun(c, r) PROVE PayTypes'
  <2>1. PayKinds([pc |-> "create", run |-> r]) /\ PayKinds([pc |-> "delete", run |-> r])
    BY DEF PayKinds
  <2> QED
    BY <1>1, <2>1, AskTypes DEF CreateRun, DeleteRun
<1>2. ASSUME NEW r \in Runs, Regenerate(c, r) \/ Finalize(c, r) PROVE PayTypes'
  <2>1. PICK todo : todo = {<<s, slip[s]>> : s \in SlipsOf(r)}
    OBVIOUS
  <2>2. todo \subseteq Payslips \X SlipRow
    BY <2>1, ReadKinds
  <2>3. PayKinds([pc |-> "refresh", run |-> r, todo |-> todo])
        /\ PayKinds([pc |-> "book", run |-> r, todo |-> todo])
    BY <2>2 DEF PayKinds
  <2>4. Ask(c, [pc |-> "refresh", run |-> r, todo |-> todo])
        \/ Ask(c, [pc |-> "book", run |-> r, todo |-> todo])
    BY <1>2, <2>1 DEF Regenerate, Finalize
  <2> QED
    BY <2>3, <2>4, AskTypes
<1>3. ASSUME NEW r \in Runs, Reopen(c, r) PROVE PayTypes'
  <2>1. PICK pc \in {"draft", "unbook"} : Ask(c, [pc |-> pc, run |-> r, slips |-> SlipsOf(r)])
    BY <1>3 DEF Reopen
  <2>2. PayKinds([pc |-> pc, run |-> r, slips |-> SlipsOf(r)])
    BY ReadKinds DEF PayKinds
  <2> QED
    BY <2>1, <2>2, AskTypes
<1>4. ASSUME NEW r \in Runs, NEW which \in SUBSET SlipsOf(r), Pay(c, r, which) PROVE PayTypes'
  <2>1. PICK S, all : /\ S \in SUBSET SlipsOf(r)
                      /\ Ask(c, [pc |-> "pay", run |-> r, todo |-> {<<s, slip[s]>> : s \in S}, all |-> all])
    BY <1>4 DEF Pay
  <2>2. PICK todo : todo = {<<s, slip[s]>> : s \in S}
    OBVIOUS
  <2>3. todo \subseteq Payslips \X SlipRow
    BY <2>1, <2>2, ReadKinds
  <2>4. PayKinds([pc |-> "pay", run |-> r, todo |-> todo, all |-> all])
    BY <2>3 DEF PayKinds
  <2> QED
    BY <2>1, <2>2, <2>4, AskTypes
<1>5. ASSUME NEW s \in Payslips, RemovePayslip(c, s) PROVE PayTypes'
  <2>1. PayKinds([pc |-> "remove", run |-> s[1], slip |-> s])
    BY DEF PayKinds, Payslips
  <2> QED
    BY <1>5, <2>1, AskTypes DEF RemovePayslip
<1>6. ASSUME NEW s \in Payslips, NEW wanted \in 0..MaxAmount, UpdatePayslip(c, s, wanted) PROVE PayTypes'
  <2>1. PICK to : to = Deducted(s[2], slip[s].asset, wanted, slip[s].paid)
    OBVIOUS
  <2>2. to \in SlipRow
    <3>1. slip[s] \in SlipRow /\ s[2] \in Employees /\ wanted \in Nat
      BY PayTables, PayrollAssumption DEF PayTypes, SlipTable, Payslips
    <3>2. slip[s].asset \in Nat /\ slip[s].paid \in BOOLEAN
      BY <3>1 DEF SlipRow
    <3> QED
      BY <2>1, <3>1, <3>2, DeductedRow
  <2>3. PayKinds([pc |-> "edit", run |-> s[1], slip |-> s, to |-> to])
    BY <2>2 DEF PayKinds, Payslips
  <2> QED
    BY <1>6, <2>1, <2>3, AskTypes DEF UpdatePayslip
<1>7. ASSUME NEW amount \in Amounts, NEW monthly \in Amounts, NEW status \in {"open", "closed"}
      PROVE  Opened(amount, monthly, status) \in AdvanceRow
  <2>1. amount \in Int /\ monthly \in Int /\ amount \in Nat /\ monthly \in Nat
    BY PayrollAssumption DEF Amounts
  <2>2. Min({monthly, amount}) \in {monthly, amount}
    BY ONLY <2>1, MinOfTwo
  <2>3. Min({monthly, amount}) \in Nat
    BY <2>1, <2>2
  <2> QED
    BY <2>1, <2>3 DEF Opened, AdvanceRow
<1>8. ASSUME NEW a \in Advances, NEW amount \in Amounts, NEW monthly \in Amounts,
             UpdateAdvance(c, a, amount, monthly)
      PROVE  PayTypes'
  <2>1. PICK status \in {"open", "closed"} :
          Ask(c, [pc |-> "advance", advance |-> a, to |-> Opened(amount, monthly, status)])
    BY <1>8 DEF UpdateAdvance
  <2>2. PayKinds([pc |-> "advance", advance |-> a, to |-> Opened(amount, monthly, status)])
    BY <1>7 DEF PayKinds
  <2> QED
    BY <2>1, <2>2, AskTypes
<1>9. ASSUME NEW a \in Advances, NEW amount \in Amounts, RepayAdvance(c, a, amount) PROVE PayTypes'
  <2>1. PICK to \in {advance[a], [advance[a] EXCEPT !.status = "closed"]} :
          Ask(c, [pc |-> "cash", advance |-> a, amount |-> amount, to |-> to])
    BY <1>9 DEF RepayAdvance
  <2>2. to \in AdvanceRow /\ amount \in Nat
    BY PayTables, PayrollAssumption DEF PayTypes, AdvanceTable, AdvanceRow, Amounts
  <2>3. PayKinds([pc |-> "cash", advance |-> a, amount |-> amount, to |-> to])
    BY <2>2 DEF PayKinds
  <2> QED
    BY <2>1, <2>3, AskTypes
<1>10. ASSUME NEW a \in Advances, DeleteAdvance(c, a) PROVE PayTypes'
  <2>1. PayKinds([pc |-> "forget", advance |-> a])
    BY DEF PayKinds
  <2> QED
    BY <1>10, <2>1, AskTypes DEF DeleteAdvance
<1> QED
  BY <1>1, <1>2, <1>3, <1>4, <1>5, <1>6, <1>8, <1>9, <1>10

\* A request that goes on keeps its locals.
LEMMA GoesKind ==
  ASSUME NEW me, PayKinds(me),
         NEW pc \in {"fill", "totals", "uncharge", "draft"},
         me.pc \notin {"idle", "advance", "cash", "forget"},
         pc \in {"uncharge", "draft"} => me.pc \in {"unclose", "uncharge"}
  PROVE  PayKinds([me EXCEPT !.pc = pc])
<1> DEFINE v == [me EXCEPT !.pc = pc]
<1>1. "pc" \in DOMAIN me /\ "run" \in DOMAIN me /\ me.run \in Runs
  BY DEF PayKinds
<1>2. v.pc = pc /\ DOMAIN v = DOMAIN me /\ v.run = me.run /\ v.slips = me.slips
  BY <1>1
<1>3. pc \in {"uncharge", "draft"} => "slips" \in DOMAIN me /\ me.slips \subseteq Payslips
  BY DEF PayKinds
<1> HIDE DEF v
<1> QED
  BY <1>1, <1>2, <1>3 DEF PayKinds

\* One that has dealt with part of its list keeps the rest.
LEMMA TodoKind ==
  ASSUME NEW me, PayKinds(me), me.pc \in {"refresh", "add", "pay"}, NEW x
  PROVE  PayKinds([me EXCEPT !.todo = @ \ {x}])
<1> DEFINE v == [me EXCEPT !.todo = @ \ {x}]
<1>1. "pc" \in DOMAIN me /\ "run" \in DOMAIN me /\ me.run \in Runs /\ "todo" \in DOMAIN me
  BY DEF PayKinds
<1>2. v.pc = me.pc /\ DOMAIN v = DOMAIN me /\ v.run = me.run /\ v.todo = me.todo \ {x}
  BY <1>1
<1> HIDE DEF v
<1> QED
  BY <1>1, <1>2 DEF PayKinds

LEMMA DropsTypes ==
  ASSUME PayTypes, NEW gone, gone \subseteq Payslips, DropSlips(gone)
  PROVE  slip' \in SlipTable /\ repaid' \in Table /\ charged' \in ChargeTable
<1>1. slip \in SlipTable /\ repaid \in Table /\ charged \in ChargeTable
  BY PayTables DEF PayTypes
<1>2. NoSlip \in SlipRow
  BY DEF NoSlip, SlipRow
<1>3. slip' \in SlipTable /\ charged' \in ChargeTable
  BY <1>1, <1>2 DEF DropSlips, SlipTable, ChargeTable
<1>4. repaid' \in Table
  BY <1>1, BooksDrop DEF DropSlips
<1> QED
  BY <1>3, <1>4

LEMMA DraftKinds ==
  ASSUME PayTypes, NEW c \in Clerks,
         \/ InsertRun(c) \/ ListMissing(c) \/ SaveTotals(c) \/ SavePayslip(c) \/ DeletePayslip(c)
         \/ DropRun(c)
         \/ At(c, "refresh") /\ (RefreshSlip(c) \/ Refreshed(c))
         \/ At(c, "add") /\ (AddSlip(c) \/ Filled(c))
         \/ At(c, "pay") /\ (PaySlip(c) \/ MarkPaid(c))
  PROVE  PayTypes'
<1> DEFINE me == clerk[c]
<1>0. PayKinds(me) /\ run \in RunTable /\ slip \in SlipTable
  BY PayTables DEF PayTypes
<1>1. CASE InsertRun(c)
  <2>1. Now(c, [me EXCEPT !.pc = "fill"]) /\ me.pc = "create"
    BY <1>1 DEF InsertRun, To, At
  <2>2. run' \in RunTable /\ UNCHANGED <<slip, advance, repaid, charged>>
    BY <1>0, <1>1 DEF InsertRun, RunTable
  <2>3. PayKinds([me EXCEPT !.pc = "fill"])
    BY <1>0, <2>1, GoesKind
  <2> QED
    BY <2>1, <2>2, <2>3, NowTypes
<1>2. CASE ListMissing(c)
  <2>1. PICK todo : todo = (Covers[me.run] \ TakenFor(me.run)) \ OnRun(me.run)
    OBVIOUS
  <2>2. me.run \in Runs
    BY <1>0, <1>2 DEF ListMissing, At, PayKinds
  <2>3. todo \subseteq Employees
    BY <2>1, <2>2, PayrollAssumption
  <2>4. PayKinds([pc |-> "add", run |-> me.run, todo |-> todo])
    BY <2>2, <2>3 DEF PayKinds
  <2>5. Now(c, [pc |-> "add", run |-> me.run, todo |-> todo])
        /\ UNCHANGED <<run, slip, advance, repaid, charged>>
    BY <1>2, <2>1 DEF ListMissing
  <2> QED
    BY <2>4, <2>5, NowTypes
<1>3. CASE SaveTotals(c) \/ MarkPaid(c)
  <2>1. Reply(c) /\ UNCHANGED <<slip, advance, repaid, charged>>
    BY <1>3 DEF SaveTotals, MarkPaid
  <2>2. run' = run \/ run' \in RunTable
    BY <1>0, <1>3 DEF SaveTotals, MarkPaid, RunTable
  <2> QED
    BY <2>1, <2>2, ReplyTypes
<1>4. CASE SavePayslip(c)
  <2>1. /\ Now(c, [me EXCEPT !.pc = "totals"]) /\ me.pc = "edit"
        /\ UNCHANGED <<run, advance, repaid, charged>>
        /\ slip' = [slip EXCEPT ![me.slip] = me.to]
    BY <1>4 DEF SavePayslip, To, At
  <2>2. me.to \in SlipRow
    BY <1>0, <2>1 DEF PayKinds
  <2>3. slip' \in SlipTable
    BY <1>0, <2>1, <2>2 DEF SlipTable
  <2>4. PayKinds([me EXCEPT !.pc = "totals"])
    BY <1>0, <2>1, GoesKind
  <2> QED
    BY <2>1, <2>3, <2>4, NowTypes
<1>5. CASE DeletePayslip(c)
  <2>1. Now(c, [me EXCEPT !.pc = "totals"]) /\ me.pc = "remove"
    BY <1>5 DEF DeletePayslip, To, At
  <2>2. DropSlips({me.slip}) /\ UNCHANGED <<run, advance>> /\ {me.slip} \subseteq Payslips
    BY <1>0, <1>5, <2>1 DEF DeletePayslip, PayKinds
  <2>3. PayKinds([me EXCEPT !.pc = "totals"])
    BY <1>0, <2>1, GoesKind
  <2> QED
    BY <2>1, <2>2, <2>3, DropsTypes, NowTypes
<1>6. CASE DropRun(c)
  <2>1. Reply(c) /\ DropSlips(SlipsOf(me.run)) /\ UNCHANGED advance
        /\ SlipsOf(me.run) \subseteq Payslips
    BY <1>6 DEF DropRun, SlipsOf
  <2>2. run' \in RunTable
    BY <1>0, <1>6 DEF DropRun, RunTable
  <2> QED
    BY <2>1, <2>2, DropsTypes, ReplyTypes
<1>7. CASE At(c, "refresh") /\ RefreshSlip(c)
  <2>1. PICK read \in me.todo :
          /\ slip' = [slip EXCEPT ![read[1]] =
               Deducted(read[1][2], PendingCharge(read[1][2]), read[2].advance, read[2].paid)]
          /\ Now(c, [me EXCEPT !.todo = @ \ {read}])
          /\ UNCHANGED <<run, advance, repaid, charged>>
    BY <1>7 DEF RefreshSlip
  <2>2. me.pc = "refresh"
    BY <1>7 DEF At
  <2>3. read \in Payslips \X SlipRow
    BY <1>0, <2>1, <2>2 DEF PayKinds
  <2>4. read[1][2] \in Employees /\ read[2].advance \in Nat /\ read[2].paid \in BOOLEAN
    BY <2>3 DEF Payslips, SlipRow
  <2>5. slip' \in SlipTable
    <3>1. PICK row : row = Deducted(read[1][2], PendingCharge(read[1][2]), read[2].advance, read[2].paid)
      OBVIOUS
    <3>2. row \in SlipRow
      BY <2>4, <3>1, PendingNat, DeductedRow
    <3> QED
      BY <1>0, <2>1, <3>1, <3>2 DEF SlipTable
  <2>6. PayKinds([me EXCEPT !.todo = @ \ {read}])
    BY <1>0, <2>2, TodoKind
  <2> QED
    BY <2>1, <2>5, <2>6, NowTypes
<1>8. CASE At(c, "refresh") /\ Refreshed(c)
  <2>1. PayKinds([pc |-> "fill", run |-> me.run])
    BY <1>0, <1>8 DEF PayKinds, At
  <2> QED
    BY <1>8, <2>1, NowTypes DEF Refreshed
<1>9. CASE AddSlip(c)
  <2>1. PICK e \in me.todo :
          /\ slip' = [slip EXCEPT ![<<me.run, e>>] =
               Deducted(e, PendingCharge(e), Suggested(e), FALSE)]
          /\ Now(c, [me EXCEPT !.todo = @ \ {e}])
          /\ UNCHANGED <<run, advance, repaid, charged>>
    BY <1>9 DEF AddSlip
  <2>2. me.pc = "add"
    BY <1>9 DEF At, AddSlip
  <2>3. e \in Employees
    BY <1>0, <2>1, <2>2 DEF PayKinds
  <2>4. slip' \in SlipTable
    <3>1. PICK row : row = Deducted(e, PendingCharge(e), Suggested(e), FALSE)
      OBVIOUS
    <3>2. row \in SlipRow
      BY <2>3, <3>1, PendingNat, SuggestedNat, DeductedRow
    <3> QED
      BY <1>0, <2>1, <3>1, <3>2 DEF SlipTable
  <2>5. PayKinds([me EXCEPT !.todo = @ \ {e}])
    BY <1>0, <2>2, TodoKind
  <2> QED
    BY <2>1, <2>4, <2>5, NowTypes
<1>10. CASE Filled(c)
  <2>1. Now(c, [me EXCEPT !.pc = "totals"]) /\ me.pc = "add"
        /\ UNCHANGED <<run, slip, advance, repaid, charged>>
    BY <1>10 DEF Filled, To, At
  <2>2. PayKinds([me EXCEPT !.pc = "totals"])
    BY <1>0, <2>1, GoesKind
  <2> QED
    BY <2>1, <2>2, NowTypes
<1>11. CASE PaySlip(c)
  <2>1. PICK read \in me.todo :
          /\ slip' = [slip EXCEPT ![read[1]] = [read[2] EXCEPT !.paid = TRUE]]
          /\ Now(c, [me EXCEPT !.todo = @ \ {read}])
          /\ UNCHANGED <<run, advance, repaid, charged>>
    BY <1>11 DEF PaySlip
  <2>2. me.pc = "pay"
    BY <1>11 DEF PaySlip, At
  <2>3. read \in Payslips \X SlipRow
    BY <1>0, <2>1, <2>2 DEF PayKinds
  <2>4. [read[2] EXCEPT !.paid = TRUE] \in SlipRow
    BY <2>3 DEF SlipRow
  <2>5. slip' \in SlipTable
    BY <1>0, <2>1, <2>4 DEF SlipTable
  <2>6. PayKinds([me EXCEPT !.todo = @ \ {read}])
    BY <1>0, <2>2, TodoKind
  <2> QED
    BY <2>1, <2>5, <2>6, NowTypes
<1> QED
  BY <1>1, <1>2, <1>3, <1>4, <1>5, <1>6, <1>7, <1>8, <1>9, <1>10, <1>11

\* Of the oldest open advance, what is left of it is taken, or of the deduction.
LEMMA AffordableIs ==
  ASSUME PayTypes, NEW c \in Clerks, clerk[c].pc \in {"repay", "close"}, DOMAIN clerk[c].open # {}
  PROVE  /\ Min(DOMAIN clerk[c].open) \in DOMAIN clerk[c].open
         /\ Min(DOMAIN clerk[c].open) \in Advances /\ clerk[c].slip \in Payslips
         /\ clerk[c].left \in Nat /\ Affordable(c) \in Nat /\ Affordable(c) <= clerk[c].left
         /\ clerk[c].open[Min(DOMAIN clerk[c].open)].balance \in Int
         /\ LET balance == clerk[c].open[Min(DOMAIN clerk[c].open)].balance
            IN 0 <= balance => Affordable(c) <= balance
<1> DEFINE next == Min(DOMAIN clerk[c].open)
           balance == clerk[c].open[next].balance
           left == clerk[c].left
           least == Min({balance, left})
<1>1. /\ DOMAIN clerk[c].open \subseteq Advances /\ left \in Nat /\ clerk[c].slip \in Payslips
      /\ \A a \in DOMAIN clerk[c].open : clerk[c].open[a].balance \in Int
  BY DEF PayTypes, PayKinds
<1>2. next \in DOMAIN clerk[c].open
  BY <1>1, OldestThere
<1>3. balance \in Int /\ left \in Int
  BY <1>1, <1>2
<1> HIDE DEF next, balance, left
<1>4. least \in {balance, left} /\ least <= balance /\ least <= left
  BY ONLY <1>3, MinOfTwo DEF least
<1> HIDE DEF least
<1>5. least \in Int /\ 0 \in Int
  BY <1>3, <1>4
<1>6. Max({0, least}) \in {0, least} /\ Max({0, least}) >= 0
  BY ONLY <1>5, MaxOfTwo
<1>7. Affordable(c) = Max({0, least})
  BY DEF Affordable, least, balance, left, next
<1>8. left \in Nat
  BY <1>1 DEF left
<1>9. Affordable(c) \in Nat /\ Affordable(c) <= left /\ (0 <= balance => Affordable(c) <= balance)
  BY <1>3, <1>4, <1>5, <1>6, <1>7, <1>8
<1> QED
  BY <1>1, <1>2, <1>3, <1>9 DEF left, balance, next

\* Part of the open advances is left.
LEMMA FewerOpen ==
  ASSUME NEW open, NEW a
  PROVE  /\ DOMAIN Restrict(open, DOMAIN open \ {a}) = DOMAIN open \ {a}
         /\ \A b \in DOMAIN open \ {a} : Restrict(open, DOMAIN open \ {a})[b] = open[b]
BY DEF Restrict

LEMMA BookKind ==
  ASSUME NEW me, PayKinds(me), me.pc \in {"repay", "close"}, DOMAIN me.open # {},
         NEW left \in Nat, NEW a, NEW closes \in BOOLEAN
  PROVE  PayKinds([me EXCEPT !.left = left, !.pc = IF closes THEN "close" ELSE "repay",
                             !.open = IF closes THEN @ ELSE Restrict(@, DOMAIN @ \ {a})])
<1> DEFINE open == IF closes THEN me.open ELSE Restrict(me.open, DOMAIN me.open \ {a})
           v == [me EXCEPT !.left = left, !.pc = IF closes THEN "close" ELSE "repay", !.open = open]
<1>1. /\ {"pc", "run", "todo", "slip", "asset", "left", "open"} \subseteq DOMAIN me
      /\ me.run \in Runs /\ me.todo \subseteq Payslips \X SlipRow /\ me.slip \in Payslips
      /\ me.asset \in Nat /\ DOMAIN me.open \subseteq Advances
      /\ \A b \in DOMAIN me.open : me.open[b].row \in AdvanceRow /\ me.open[b].balance \in Int
  BY DEF PayKinds
<1>2. /\ DOMAIN v = DOMAIN me /\ v.run = me.run /\ v.todo = me.todo /\ v.slip = me.slip
      /\ v.asset = me.asset /\ v.left = left /\ v.open = open
      /\ v.pc = IF closes THEN "close" ELSE "repay"
  BY <1>1
<1>3. /\ DOMAIN open \subseteq DOMAIN me.open /\ \A b \in DOMAIN open : open[b] = me.open[b]
      /\ closes => DOMAIN open # {}
  BY FewerOpen
<1>4. v = [me EXCEPT !.left = left, !.pc = IF closes THEN "close" ELSE "repay",
                     !.open = IF closes THEN @ ELSE Restrict(@, DOMAIN @ \ {a})]
  OBVIOUS
<1> HIDE DEF v, open
<1>5. PayKinds(v)
  <2>1. /\ DOMAIN v.open \subseteq Advances
        /\ \A b \in DOMAIN v.open : v.open[b].row \in AdvanceRow /\ v.open[b].balance \in Int
        /\ v.pc = "close" => DOMAIN v.open # {}
    BY <1>1, <1>2, <1>3
  <2> QED
    BY <1>1, <1>2, <2>1 DEF PayKinds
<1> QED
  BY <1>4, <1>5

LEMMA BookKinds ==
  ASSUME PayTypes, NEW c \in Clerks,
         \/ At(c, "book") /\ (ReadOpen(c) \/ MarkFinalized(c))
         \/ BookRepayment(c) \/ CloseAdvance(c) \/ Booked(c)
         \/ At(c, "assets") /\ (ChargeAsset(c) \/ Charged(c))
  PROVE  PayTypes'
<1> DEFINE me == clerk[c]
<1>0. PayKinds(me) /\ run \in RunTable /\ advance \in AdvanceTable /\ repaid \in Table
      /\ charged \in ChargeTable
  BY PayTables DEF PayTypes
<1>1. CASE ReadOpen(c)
  <2>1. PICK read, todo, open :
          /\ read \in me.todo
          /\ Now(c, [pc |-> "repay", run |-> me.run, todo |-> todo,
               slip |-> read[1], asset |-> read[2].asset, left |-> read[2].advance, open |-> open])
          /\ todo = me.todo \ {read}
          /\ open = [a \in OpenOf(read[1][2]) |-> [row |-> advance[a], balance |-> Balance(a)]]
          /\ UNCHANGED <<run, slip, advance, repaid, charged>>
    BY <1>1 DEF ReadOpen
  <2>2. me.todo \subseteq Payslips \X SlipRow /\ me.run \in Runs
    BY <1>0, <1>1 DEF ReadOpen, At, PayKinds
  <2>3. /\ read[1] \in Payslips /\ read[2].asset \in Nat /\ read[2].advance \in Nat
        /\ todo \subseteq Payslips \X SlipRow
    BY <2>1, <2>2 DEF SlipRow
  <2>4. /\ DOMAIN open \subseteq Advances
        /\ \A a \in DOMAIN open : open[a].row \in AdvanceRow /\ open[a].balance \in Int
    <3>1. OpenOf(read[1][2]) \subseteq Advances
      BY DEF OpenOf
    <3>2. \A a \in Advances : advance[a] \in AdvanceRow /\ Balance(a) \in Int
      BY <1>0, BookNat DEF AdvanceTable, AdvanceRow, Balance
    <3> QED
      BY <2>1, <3>1, <3>2
  <2>5. PayKinds([pc |-> "repay", run |-> me.run, todo |-> todo,
               slip |-> read[1], asset |-> read[2].asset, left |-> read[2].advance, open |-> open])
    BY <2>2, <2>3, <2>4 DEF PayKinds
  <2> QED
    BY <2>1, <2>5, NowTypes
<1>2. CASE MarkFinalized(c)
  <2>1. Reply(c) /\ UNCHANGED <<slip, advance, repaid, charged>> /\ run' \in RunTable
    BY <1>0, <1>2 DEF MarkFinalized, RunTable
  <2> QED
    BY <2>1, ReplyTypes
<1>3. CASE BookRepayment(c)
  <2> DEFINE next == Min(DOMAIN me.open)
             closes == Affordable(c) > 0 /\ Affordable(c) >= me.open[next].balance
  <2>1. /\ me.pc = "repay" /\ DOMAIN me.open # {} /\ UNCHANGED <<run, slip, advance, charged>>
        /\ repaid' = [repaid EXCEPT ![next][me.slip] = @ + Affordable(c)]
        /\ Now(c, [me EXCEPT !.left = @ - Affordable(c), !.pc = IF closes THEN "close" ELSE "repay",
                             !.open = IF closes THEN @ ELSE Restrict(@, DOMAIN @ \ {next})])
    BY <1>3 DEF BookRepayment, At
  <2>2. /\ next \in Advances /\ me.slip \in Ways /\ Affordable(c) \in Nat
        /\ me.left - Affordable(c) \in Nat
    BY <2>1, AffordableIs DEF Ways
  <2> HIDE DEF next
  <2>3. repaid' \in Table
    BY <1>0, <2>1, <2>2 DEF Table
  <2>4. closes \in BOOLEAN
    OBVIOUS
  <2> HIDE DEF closes
  <2>5. PICK left \in Nat : left = me.left - Affordable(c)
    BY <2>2
  <2>6. PayKinds([me EXCEPT !.left = left, !.pc = IF closes THEN "close" ELSE "repay",
                            !.open = IF closes THEN @ ELSE Restrict(@, DOMAIN @ \ {next})])
    BY <1>0, <2>1, <2>4, BookKind
  <2>7. Now(c, [me EXCEPT !.left = left, !.pc = IF closes THEN "close" ELSE "repay",
                          !.open = IF closes THEN @ ELSE Restrict(@, DOMAIN @ \ {next})])
    BY <2>1, <2>5
  <2> QED
    BY <2>1, <2>3, <2>6, <2>7, NowTypes
<1>4. CASE CloseAdvance(c)
  <2> DEFINE next == Min(DOMAIN me.open)
  <2>1. /\ me.pc = "close" /\ UNCHANGED <<run, slip, repaid, charged>>
        /\ advance' = [advance EXCEPT ![next] = [me.open[next].row EXCEPT !.status = "closed"]]
        /\ Now(c, [me EXCEPT !.pc = "repay", !.open = Restrict(@, DOMAIN @ \ {next})])
    BY <1>4 DEF CloseAdvance, At
  <2>2. DOMAIN me.open # {}
    BY <1>0, <2>1 DEF PayKinds
  <2>3. next \in DOMAIN me.open /\ next \in Advances /\ me.left \in Nat
    BY <2>1, <2>2, AffordableIs
  <2>4. me.open[next].row \in AdvanceRow
    BY <1>0, <2>1, <2>3 DEF PayKinds
  <2> HIDE DEF next
  <2>5. advance' \in AdvanceTable
    <3>1. [me.open[next].row EXCEPT !.status = "closed"] \in AdvanceRow
      BY <2>4 DEF AdvanceRow
    <3> QED
      BY <1>0, <2>1, <2>3, <3>1 DEF AdvanceTable
  <2>6. PayKinds([me EXCEPT !.left = me.left, !.pc = IF FALSE THEN "close" ELSE "repay",
                            !.open = IF FALSE THEN @ ELSE Restrict(@, DOMAIN @ \ {next})])
    BY <1>0, <2>1, <2>2, <2>3, BookKind
  <2>7. {"left", "pc", "open"} \subseteq DOMAIN me
    BY <1>0, <2>1 DEF PayKinds
  <2>8. PICK open : open = Restrict(me.open, DOMAIN me.open \ {next})
    OBVIOUS
  <2>9. [me EXCEPT !.left = me.left, !.pc = "repay", !.open = open]
          = [me EXCEPT !.pc = "repay", !.open = open]
    BY <2>7
  <2>10. PayKinds([me EXCEPT !.pc = "repay", !.open = open])
    BY <2>6, <2>8, <2>9
  <2>11. Now(c, [me EXCEPT !.pc = "repay", !.open = open])
    BY <2>1, <2>8
  <2> QED
    BY <2>1, <2>5, <2>10, <2>11, NowTypes
<1>5. CASE Booked(c)
  <2>1. PICK charges \in {Pending(me.slip[2]), {}} :
          /\ Now(c, [pc |-> "assets", run |-> me.run, todo |-> me.todo, slip |-> me.slip,
                     charges |-> charges])
          /\ UNCHANGED <<run, slip, advance, repaid, charged>> /\ me.pc = "repay"
    BY <1>5 DEF Booked, At
  <2>2. charges \subseteq Assets
    BY DEF Pending
  <2>3. me.run \in Runs /\ me.todo \subseteq Payslips \X SlipRow /\ me.slip \in Payslips
    BY <1>0, <2>1 DEF PayKinds
  <2>4. PayKinds([pc |-> "assets", run |-> me.run, todo |-> me.todo, slip |-> me.slip,
                  charges |-> charges])
    BY <2>2, <2>3 DEF PayKinds
  <2> QED
    BY <2>1, <2>4, NowTypes
<1>6. CASE At(c, "assets") /\ ChargeAsset(c)
  <2>1. PICK x \in me.charges :
          /\ charged' = [charged EXCEPT ![x] = me.slip]
          /\ Now(c, [me EXCEPT !.charges = @ \ {x}])
          /\ UNCHANGED <<run, slip, advance, repaid>>
    BY <1>6 DEF ChargeAsset, ChargedTo
  <2>2. /\ me.pc = "assets" /\ {"pc", "run", "todo", "slip", "charges"} \subseteq DOMAIN me
        /\ me.run \in Runs /\ me.todo \subseteq Payslips \X SlipRow /\ me.slip \in Payslips
        /\ me.charges \subseteq Assets
    BY <1>0, <1>6 DEF At, PayKinds
  <2>3. charged' \in ChargeTable
    BY <1>0, <2>1, <2>2 DEF ChargeTable
  <2> DEFINE v == [me EXCEPT !.charges = @ \ {x}]
  <2>4. /\ DOMAIN v = DOMAIN me /\ v.pc = me.pc /\ v.run = me.run /\ v.todo = me.todo
        /\ v.slip = me.slip /\ v.charges = me.charges \ {x}
    BY <2>2
  <2> HIDE DEF v
  <2>5. PayKinds(v)
    BY <2>2, <2>4 DEF PayKinds
  <2>6. Now(c, v)
    BY <2>1 DEF v
  <2> QED
    BY <2>1, <2>3, <2>5, <2>6, NowTypes
<1>7. CASE At(c, "assets") /\ Charged(c)
  <2>1. PayKinds([pc |-> "book", run |-> me.run, todo |-> me.todo])
    BY <1>0, <1>7 DEF At, PayKinds
  <2> QED
    BY <1>7, <2>1, NowTypes DEF Charged
<1> QED
  BY <1>1, <1>2, <1>3, <1>4, <1>5, <1>6, <1>7

LEMMA TableStays ==
  ASSUME NEW t \in Table, NEW b \in Advances, NEW k \in Ways, NEW n \in Nat
  PROVE  [t EXCEPT ![b][k] = @ + n] \in Table
<1>1. [t[b] EXCEPT ![k] = @ + n] \in [Ways -> Nat]
  BY DEF Table
<1> QED
  BY <1>1 DEF Table

LEMMA ReopenKinds ==
  ASSUME PayTypes, NEW c \in Clerks,
         Unbook(c) \/ ReopenAdvances(c) \/ Uncharge(c) \/ MarkDraft(c)
  PROVE  PayTypes'
<1> DEFINE me == clerk[c]
<1>0. PayKinds(me) /\ run \in RunTable /\ advance \in AdvanceTable /\ repaid \in Table
      /\ charged \in ChargeTable
  BY PayTables DEF PayTypes
<1>1. CASE Unbook(c)
  <2>1. PICK advances :
          /\ advances = {a \in Advances : \E s \in me.slips : repaid[a][s] > 0}
          /\ Now(c, [pc |-> "unclose", run |-> me.run, slips |-> me.slips, advances |-> advances])
          /\ UNCHANGED <<run, slip, advance, charged>> /\ repaid' = Unbooked(me.slips)
          /\ me.pc = "unbook"
    BY <1>1 DEF Unbook, At
  <2>2. repaid' \in Table
    BY <1>0, <2>1, BooksDrop
  <2>3. me.run \in Runs /\ me.slips \subseteq Payslips /\ advances \subseteq Advances
    BY <1>0, <2>1 DEF PayKinds
  <2>4. PayKinds([pc |-> "unclose", run |-> me.run, slips |-> me.slips, advances |-> advances])
    BY <2>3 DEF PayKinds
  <2> QED
    BY <2>1, <2>2, <2>4, NowTypes
<1>2. CASE ReopenAdvances(c)
  <2>1. /\ Now(c, [me EXCEPT !.pc = "uncharge"]) /\ me.pc = "unclose"
        /\ UNCHANGED <<run, slip, repaid, charged>> /\ advance' = Reopened(me.advances)
    BY <1>2 DEF ReopenAdvances, To, At
  <2>2. advance' \in AdvanceTable
    BY <1>0, <2>1 DEF Reopened, AdvanceTable, AdvanceRow
  <2>3. PayKinds([me EXCEPT !.pc = "uncharge"])
    BY <1>0, <2>1, GoesKind
  <2> QED
    BY <2>1, <2>2, <2>3, NowTypes
<1>3. CASE Uncharge(c)
  <2>1. /\ Now(c, [me EXCEPT !.pc = "draft"]) /\ me.pc = "uncharge"
        /\ UNCHANGED <<run, slip, advance, repaid>>
    BY <1>3 DEF Uncharge, To, At
  <2>2. charged' \in ChargeTable
    BY <1>0, <1>3 DEF Uncharge, ChargeTable
  <2>3. PayKinds([me EXCEPT !.pc = "draft"])
    BY <1>0, <2>1, GoesKind
  <2> QED
    BY <2>1, <2>2, <2>3, NowTypes
<1>4. CASE MarkDraft(c)
  <2>1. Reply(c) /\ run' \in RunTable /\ UNCHANGED <<slip, advance, repaid, charged>>
    BY <1>0, <1>4 DEF MarkDraft, RunTable
  <2> QED
    BY <2>1, ReplyTypes
<1> QED
  BY <1>1, <1>2, <1>3, <1>4

LEMMA AdvanceKinds ==
  ASSUME PayTypes, NEW c \in Clerks,
         SaveAdvance(c) \/ BookCash(c) \/ DropAdvance(c) \/ Refused(c)
  PROVE  PayTypes'
<1> DEFINE me == clerk[c]
<1>0. PayKinds(me) /\ advance \in AdvanceTable /\ repaid \in Table
  BY PayTables DEF PayTypes
<1>1. CASE SaveAdvance(c)
  <2>1. me.to \in AdvanceRow
    BY <1>0, <1>1 DEF SaveAdvance, At, PayKinds
  <2>2. advance' \in AdvanceTable
    BY <1>0, <1>1, <2>1 DEF SaveAdvance, AdvanceTable
  <2> QED
    BY <1>1, <2>2, ReplyTypes DEF SaveAdvance
<1>2. CASE BookCash(c)
  <2>1. me.pc = "cash" /\ UNCHANGED <<run, slip, advance, charged>>
        /\ repaid' = [repaid EXCEPT ![me.advance][Cash] = @ + me.amount]
    BY <1>2 DEF BookCash, At
  <2>2. me.advance \in Advances /\ me.amount \in Nat /\ me.to \in AdvanceRow
    BY <1>0, <2>1 DEF PayKinds
  <2>3. repaid' \in Table
    <3>1. Cash \in Ways
      BY DEF Ways
    <3> QED
      BY <1>0, <2>1, <2>2, <3>1, TableStays
  <2>4. PayKinds([pc |-> "advance", advance |-> me.advance, to |-> me.to])
    BY <2>2 DEF PayKinds
  <2>5. Reply(c) \/ Now(c, [pc |-> "advance", advance |-> me.advance, to |-> me.to])
    BY <1>2 DEF BookCash
  <2> QED
    BY <2>1, <2>3, <2>4, <2>5, NowTypes, ReplyTypes
<1>3. CASE DropAdvance(c)
  <2>1. /\ Reply(c) /\ UNCHANGED <<run, slip, charged>> /\ me.pc = "forget"
        /\ advance' = [advance EXCEPT ![me.advance] = NoAdvance]
        /\ repaid' = [repaid EXCEPT ![me.advance] = [k \in DOMAIN @ |-> 0]]
    BY <1>3 DEF DropAdvance, At
  <2>2. me.advance \in Advances
    BY <1>0, <2>1 DEF PayKinds
  <2>3. NoAdvance \in AdvanceRow
    BY DEF NoAdvance, AdvanceRow
  <2>4. advance' \in AdvanceTable
    BY <1>0, <2>1, <2>3 DEF AdvanceTable
  <2>5. repaid' \in Table
    BY <1>0, <2>1, <2>2, BooksForget
  <2> QED
    BY <2>1, <2>4, <2>5, ReplyTypes
<1>4. CASE Refused(c)
  BY <1>4, ReplyTypes DEF Refused
<1> QED
  BY <1>1, <1>2, <1>3, <1>4

LEMMA CreateTypes ==
  ASSUME PayTypes, NEW a \in Advances, NEW amount \in Amounts, NEW monthly \in Amounts,
         CreateAdvance(a, amount, monthly)
  PROVE  PayTypes'
<1>1. amount \in Int /\ monthly \in Int /\ amount \in Nat /\ monthly \in Nat
  BY PayrollAssumption DEF Amounts
<1>2. Min({monthly, amount}) \in {monthly, amount}
  BY ONLY <1>1, MinOfTwo
<1>3. Min({monthly, amount}) \in Nat
  BY <1>1, <1>2
<1>4. Opened(amount, monthly, "open") \in AdvanceRow
  BY <1>1, <1>3 DEF Opened, AdvanceRow
<1>5. advance' \in AdvanceTable
  BY <1>4, PayTables DEF PayTypes, CreateAdvance, AdvanceTable
<1>6. PayTypeOK'
  BY <1>5 DEF PayTypes, PayTypeOK, CreateAdvance, AdvanceTable, AdvanceRow
<1>7. \A d \in Clerks : PayKinds(clerk[d])' <=> PayKinds(clerk[d])
  BY DEF PayKinds, CreateAdvance
<1> QED
  BY <1>6, <1>7 DEF PayTypes, CreateAdvance

LEMMA PayTypesStep == PayTypes /\ [PayNext]_payVars => PayTypes'
<1> SUFFICES ASSUME PayTypes, [PayNext]_payVars PROVE PayTypes'
  OBVIOUS
<1>1. CASE UNCHANGED payVars
  <2>1. PayTypeOK' /\ DOMAIN clerk' = Clerks
    BY <1>1 DEF payVars, PayTypes, PayTypeOK
  <2>2. \A d \in Clerks : PayKinds(clerk[d])' <=> PayKinds(clerk[d])
    BY <1>1 DEF payVars, PayKinds
  <2> QED
    BY <2>1, <2>2 DEF PayTypes
<1>2. CASE PayNext
  <2>1. PICK c \in Clerks : PayNext!(c)
    BY <1>2 DEF PayNext
  <2>2. CASE Stop(c)
    <3>1. mishaps' \subseteq {"overlap", "stop"}
      BY <2>2, PayTables DEF PayTypes, Stop
    <3> QED
      BY <2>2, <3>1, RestKind, MovesTypes DEF Stop
  <2> QED
    BY <2>1, <2>2, AskKinds, DraftKinds, BookKinds, ReopenKinds, AdvanceKinds, CreateTypes
<1> QED
  BY <1>1, <1>2

LEMMA PayTypesInit == PayInit => PayTypes
<1> SUFFICES ASSUME PayInit PROVE PayTypes
  OBVIOUS
<1>1. PayTypeOK
  BY DEF PayInit, PayTypeOK, NoSlip, NoAdvance
<1>2. \A c \in Clerks : PayKinds(clerk[c])
  BY RestKind DEF PayInit
<1> QED
  BY <1>1, <1>2 DEF PayTypes, PayInit

-----------------------------------------------------------------------------
(* What was taken back, one request at a time.                             *)

\* A request that takes something back of an advance knows what is left of it.
KnowsBalance(me) ==
  /\ me.pc \in {"repay", "close"} =>
       \A a \in DOMAIN me.open :
         /\ me.open[a].row = advance[a] /\ advance[a] # NoAdvance
         /\ me.pc = "repay" \/ a # Min(DOMAIN me.open) => me.open[a].balance = Balance(a)
  /\ me.pc = "advance" => advance[me.advance] # NoAdvance /\ RepaidOf(me.advance) <= me.to.amount
  /\ me.pc = "cash" => /\ advance[me.advance] # NoAdvance /\ me.amount <= Balance(me.advance)
                       /\ me.to.amount = advance[me.advance].amount

Covered ==
  /\ \A a \in Advances : RepaidOf(a) <= advance[a].amount
  /\ \A c \in Clerks : KnowsBalance(clerk[c])

Booking == {"book", "repay", "close", "assets"}

\* A request that books, or takes back what was booked, knows how far it is.
KnowsBooked(me) ==
  /\ me.pc \in Booking =>
       /\ run[me.run] = "draft"
       /\ \A read \in me.todo :
            /\ read = <<read[1], slip[read[1]]>> /\ read[1][1] = me.run /\ slip[read[1]].there
            /\ BookedOn(read[1]) = 0
            /\ me.pc \in {"repay", "close"} => read[1] # me.slip
  /\ me.pc \in {"repay", "close"} =>
       me.slip[1] = me.run /\ slip[me.slip].there /\ BookedOn(me.slip) + me.left <= slip[me.slip].advance
  /\ me.pc = "close" => LET next == Min(DOMAIN me.open) IN RepaidOf(next) >= advance[next].amount
  /\ me.pc = "unbook" => me.slips = SlipsOf(me.run)
  /\ me.pc \in {"unclose", "uncharge", "draft"} => \A s \in Payslips : s[1] = me.run => BookedOn(s) = 0
  /\ (me.pc = "advance" /\ me.to.status = "closed") => RepaidOf(me.advance) >= me.to.amount
  /\ (me.pc = "cash" /\ me.to.status = "closed") => RepaidOf(me.advance) + me.amount >= me.to.amount

BooksOn(r) == \E c \in Clerks : clerk[c].pc \in Booking /\ clerk[c].run = r
Uncloses(a) == \E c \in Clerks : clerk[c].pc = "unclose" /\ a \in clerk[c].advances

BooksKept ==
  /\ \A s \in Payslips : slip[s].there \/ slip[s] = NoSlip
  /\ \A s \in Payslips : BookedOn(s) <= slip[s].advance
  /\ \A s \in Payslips : run[s[1]] \in {"none", "draft"} /\ ~BooksOn(s[1]) => BookedOn(s) = 0
  /\ \A a \in Advances : advance[a].status = "closed" /\ ~Uncloses(a) => RepaidOf(a) >= advance[a].amount
  /\ \A c \in Clerks : KnowsBooked(clerk[c])

OthersRest(c) == \A d \in Clerks \ {c} : clerk[d] = AtRest

\* The rows, while me is the only request.
RowsKept(me) ==
  /\ \A s \in Payslips : slip[s].there \/ slip[s] = NoSlip
  /\ \A s \in Payslips : BookedOn(s) <= slip[s].advance
  /\ \A s \in Payslips :
       run[s[1]] \in {"none", "draft"} /\ ~(me.pc \in Booking /\ me.run = s[1]) => BookedOn(s) = 0
  /\ \A a \in Advances :
       advance[a].status = "closed" /\ ~(me.pc = "unclose" /\ a \in me.advances)
         => RepaidOf(a) >= advance[a].amount
  /\ KnowsBooked(me)

LEMMA RestBooked == KnowsBooked(AtRest) /\ KnowsBalance(AtRest)
BY DEF KnowsBooked, KnowsBalance, AtRest, Booking

LEMMA RowsAlone ==
  ASSUME NEW c \in Clerks, OthersRest(c) PROVE BooksKept <=> RowsKept(clerk[c])
<1>1. AtRest.pc = "idle"
  BY DEF AtRest
<1>2. \A s \in Payslips : BooksOn(s[1]) <=> clerk[c].pc \in Booking /\ clerk[c].run = s[1]
  BY <1>1 DEF BooksOn, OthersRest, Booking
<1>3. \A a \in Advances : Uncloses(a) <=> clerk[c].pc = "unclose" /\ a \in clerk[c].advances
  BY <1>1 DEF Uncloses, OthersRest
<1>4. (\A d \in Clerks : KnowsBooked(clerk[d])) <=> KnowsBooked(clerk[c])
  BY RestBooked DEF OthersRest
<1> HIDE DEF OthersRest
<1>5. BooksKept <=>
        /\ \A s \in Payslips : slip[s].there \/ slip[s] = NoSlip
        /\ \A s \in Payslips : BookedOn(s) <= slip[s].advance
        /\ \A s \in Payslips : run[s[1]] \in {"none", "draft"} /\ ~BooksOn(s[1]) => BookedOn(s) = 0
        /\ \A a \in Advances : advance[a].status = "closed" /\ ~Uncloses(a) => RepaidOf(a) >= advance[a].amount
        /\ \A d \in Clerks : KnowsBooked(clerk[d])
  BY DEF BooksKept
<1> QED
  BY <1>2, <1>3, <1>4, <1>5 DEF RowsKept

LEMMA RowsAloneNext ==
  ASSUME NEW c \in Clerks, OthersRest(c)' PROVE BooksKept' <=> RowsKept(clerk[c])'
<1>1. AtRest.pc = "idle"
  BY DEF AtRest
<1>2. \A s \in Payslips : BooksOn(s[1])' <=> clerk'[c].pc \in Booking /\ clerk'[c].run = s[1]
  BY <1>1 DEF BooksOn, OthersRest, Booking
<1>3. \A a \in Advances : Uncloses(a)' <=> clerk'[c].pc = "unclose" /\ a \in clerk'[c].advances
  BY <1>1 DEF Uncloses, OthersRest
<1>4. (\A d \in Clerks : KnowsBooked(clerk[d])') <=> KnowsBooked(clerk[c])'
  <2>1. ASSUME NEW d \in Clerks, d # c PROVE KnowsBooked(clerk[d])'
    BY <1>1, <2>1 DEF OthersRest, KnowsBooked, Booking
  <2> QED
    BY <2>1
<1>5. BooksKept' <=>
        /\ \A s \in Payslips : slip'[s].there \/ slip'[s] = NoSlip
        /\ \A s \in Payslips : BookedOn(s)' <= slip'[s].advance
        /\ \A s \in Payslips : run'[s[1]] \in {"none", "draft"} /\ ~BooksOn(s[1])' => BookedOn(s)' = 0
        /\ \A a \in Advances : advance'[a].status = "closed" /\ ~Uncloses(a)' => RepaidOf(a)' >= advance'[a].amount
        /\ \A d \in Clerks : KnowsBooked(clerk[d])'
  BY DEF BooksKept
<1>6. RowsKept(clerk[c])' <=>
        /\ \A s \in Payslips : slip'[s].there \/ slip'[s] = NoSlip
        /\ \A s \in Payslips : BookedOn(s)' <= slip'[s].advance
        /\ \A s \in Payslips :
             run'[s[1]] \in {"none", "draft"} /\ ~(clerk'[c].pc \in Booking /\ clerk'[c].run = s[1])
               => BookedOn(s)' = 0
        /\ \A a \in Advances :
             advance'[a].status = "closed" /\ ~(clerk'[c].pc = "unclose" /\ a \in clerk'[c].advances)
               => RepaidOf(a)' >= advance'[a].amount
        /\ KnowsBooked(clerk[c])'
  BY DEF RowsKept, Booking
<1> QED
  BY <1>2, <1>3, <1>4, <1>5, <1>6

\* The advances are covered whether or not requests stopped; that one is closed
\* only when it is paid back, and a payslip takes back no more than it says, is
\* kept while none did: a stop between two saves leaves a repayment booked on a
\* draft, or an advance open that is paid.
BooksInv ==
  PayTypes /\ PeriodInv /\ (Alone => Covered) /\ (Unstopped => BooksKept)

\* What is known before a step of c, when no requests overlap, and what is to be shown.
Before(c) ==
  /\ PayTypes /\ PayTypes' /\ Consistent /\ OthersRest(c)
  /\ (\A a \in Advances : RepaidOf(a) <= advance[a].amount) /\ KnowsBalance(clerk[c])
  /\ Unstopped => RowsKept(clerk[c])
After(c) ==
  /\ (\A a \in Advances : RepaidOf(a)' <= advance'[a].amount) /\ KnowsBalance(clerk[c])'
  /\ Unstopped => RowsKept(clerk[c])'

\* Clerk c goes on as v.
LEMMA BooksMove ==
  ASSUME BooksInv, PayTypes', PeriodInv', NEW c \in Clerks, NEW v,
         clerk' = [clerk EXCEPT ![c] = v],
         Unstopped' => Unstopped,
         Alone' => Alone /\ OthersRest(c),
         Before(c) /\ clerk'[c] = v => After(c)
  PROVE  BooksInv'
<1>1. ASSUME Alone' PROVE Covered' /\ (Unstopped' => BooksKept')
  <2>1. Consistent /\ Covered /\ OthersRest(c) /\ (Unstopped => RowsKept(clerk[c]))
    BY <1>1, RowsAlone DEF BooksInv, PeriodInv
  <2>2. Before(c)
    BY <2>1 DEF Before, BooksInv, Covered
  <2>3. clerk'[c] = v /\ \A d \in Clerks \ {c} : clerk'[d] = AtRest
    BY <2>1 DEF BooksInv, PayTypes, OthersRest
  <2>4. After(c) /\ OthersRest(c)'
    BY <2>2, <2>3 DEF OthersRest
  <2>5. \A d \in Clerks : KnowsBalance(clerk[d])'
    <3>1. ASSUME NEW d \in Clerks, d # c PROVE KnowsBalance(clerk[d])'
      BY <2>3, <3>1 DEF KnowsBalance, AtRest
    <3> QED
      BY <2>4, <3>1 DEF After
  <2>6. Covered'
    BY <2>4, <2>5 DEF After, Covered
  <2>7. Unstopped' => BooksKept'
    BY <2>4, RowsAloneNext DEF After
  <2> QED
    BY <2>6, <2>7
<1>2. Unstopped' => Alone'
  BY DEF Unstopped, Alone
<1> QED
  BY <1>1, <1>2 DEF BooksInv

Going(c) == BooksInv /\ PayTypes' /\ PeriodInv' /\ c \in Clerks

\* What a request knows stays so while the rows are left alone.
LEMMA KnowsStays ==
  ASSUME UNCHANGED <<run, slip, advance, repaid>>, NEW c, NEW v, clerk'[c] = v
  PROVE  /\ KnowsBalance(clerk[c])' <=> KnowsBalance(v)
         /\ KnowsBooked(clerk[c])' <=> KnowsBooked(v)
<1>1. (\A a : RepaidOf(a)' = RepaidOf(a)) /\ (\A s : BookedOn(s)' = BookedOn(s))
  BY BooksSame
<1>2. \A a : Balance(a)' = Balance(a)
  BY <1>1 DEF Balance
<1>3. \A r : SlipsOf(r)' = SlipsOf(r)
  BY DEF SlipsOf
<1>4. KnowsBalance(clerk[c])' <=> KnowsBalance(v)
  BY <1>1, <1>2 DEF KnowsBalance
<1>5. KnowsBooked(clerk[c])' <=> KnowsBooked(v)
  BY <1>1, <1>3 DEF KnowsBooked, Booking
<1> QED
  BY <1>4, <1>5

LEMMA RowsStay ==
  ASSUME UNCHANGED <<run, slip, advance, repaid>>, NEW c, NEW v, clerk'[c] = v, Before(c),
         KnowsBalance(v),
         Unstopped => /\ KnowsBooked(v) /\ clerk[c].pc # "unclose"
                      /\ clerk[c].pc \in Booking => v.pc \in Booking /\ v.run = clerk[c].run
  PROVE  After(c)
<1>1. (\A a : RepaidOf(a)' = RepaidOf(a)) /\ (\A s : BookedOn(s)' = BookedOn(s))
  BY BooksSame
<1>2. KnowsBalance(clerk[c])' /\ (Unstopped => KnowsBooked(clerk[c])')
  BY KnowsStays
<1>3. ASSUME Unstopped PROVE RowsKept(clerk[c])'
  <2>1. RowsKept(clerk[c])
    BY <1>3 DEF Before
  <2>2. /\ \A s \in Payslips : slip'[s].there \/ slip'[s] = NoSlip
        /\ \A s \in Payslips : BookedOn(s)' <= slip'[s].advance
    BY <1>1, <2>1 DEF RowsKept
  <2>3. \A s \in Payslips :
          run'[s[1]] \in {"none", "draft"} /\ ~(v.pc \in Booking /\ v.run = s[1]) => BookedOn(s)' = 0
    BY <1>1, <1>3, <2>1 DEF RowsKept
  <2>4. \A a \in Advances : advance'[a].status = "closed" => RepaidOf(a)' >= advance'[a].amount
    BY <1>1, <1>3, <2>1 DEF RowsKept
  <2> QED
    BY <1>2, <1>3, <2>2, <2>3, <2>4 DEF RowsKept, Booking
<1>4. \A a \in Advances : RepaidOf(a)' <= advance'[a].amount
  BY <1>1 DEF Before
<1> QED
  BY <1>2, <1>3, <1>4 DEF After

\* A request is made.
LEMMA AskBooks ==
  ASSUME NEW c, Going(c), NEW v, Ask(c, v),
         Before(c) => KnowsBalance(v) /\ (Unstopped => KnowsBooked(v))
  PROVE  BooksInv'
<1>1. c \in Clerks /\ BooksInv /\ PayTypes' /\ PeriodInv' /\ clerk' = [clerk EXCEPT ![c] = v]
  BY DEF Going, Ask
<1>2. Unstopped' => Unstopped
  BY DEF Unstopped, Ask
<1>3. Alone' => Alone /\ OthersRest(c)
  BY DEF Alone, Ask, OthersRest
<1>4. ASSUME Before(c), clerk'[c] = v PROVE After(c)
  <2>1. UNCHANGED <<run, slip, advance, repaid>> /\ clerk[c].pc = "idle"
    BY DEF Ask, AtRest
  <2>2. clerk[c].pc # "unclose" /\ clerk[c].pc \notin Booking
    BY <2>1 DEF Booking
  <2> QED
    BY <1>4, <2>1, <2>2, RowsStay
<1> QED
  BY <1>1, <1>2, <1>3, <1>4, BooksMove

\* A request goes on.
LEMMA NowBooks ==
  ASSUME NEW c, Going(c), NEW v, Now(c, v), clerk[c].pc # "idle",
         Before(c) /\ clerk'[c] = v => After(c)
  PROVE  BooksInv'
<1>1. c \in Clerks /\ BooksInv /\ PayTypes' /\ PeriodInv' /\ clerk' = [clerk EXCEPT ![c] = v]
  BY DEF Going, Now
<1>2. Unstopped' => Unstopped
  BY DEF Unstopped, Now
<1>3. Alone' => Alone /\ OthersRest(c)
  <2>1. Alone' => Alone /\ Consistent
    BY <1>1 DEF Alone, Now, BooksInv, PeriodInv
  <2>2. clerk[c] # AtRest
    BY DEF AtRest
  <2>3. Consistent => OthersRest(c)
    BY <1>1, <2>2 DEF Consistent, OneBusy, OthersRest
  <2> QED
    BY <2>1, <2>3
<1> QED
  BY <1>1, <1>2, <1>3, BooksMove

LEMMA QuietBooks ==
  ASSUME NEW c, Going(c), NEW v, Now(c, v), clerk[c].pc # "idle",
         UNCHANGED <<run, slip, advance, repaid>>,
         Before(c) =>
           /\ KnowsBalance(v)
           /\ Unstopped => /\ KnowsBooked(v) /\ clerk[c].pc # "unclose"
                           /\ clerk[c].pc \in Booking => v.pc \in Booking /\ v.run = clerk[c].run
  PROVE  BooksInv'
BY RowsStay, NowBooks

\* A place that knows nothing of what was taken back.
LEMMA FreeBooks ==
  ASSUME NEW v, v.pc \in {"idle", "create", "refresh", "fill", "add", "totals", "edit", "remove",
                          "delete", "pay", "forget"}
  PROVE  KnowsBalance(v) /\ KnowsBooked(v)
BY DEF KnowsBalance, KnowsBooked, Booking

\* Of a draft nothing was taken back, unless it is being booked.
LEMMA DraftsFree ==
  ASSUME NEW c, Before(c), Unstopped, clerk[c].pc \notin Booking
  PROVE  /\ \A s \in Payslips : run[s[1]] \in {"none", "draft"} => BookedOn(s) = 0
         /\ \A s \in Payslips : ~slip[s].there => BookedOn(s) = 0
<1>1. RowsKept(clerk[c])
  BY DEF Before
<1>2. \A s \in Payslips : BookedOn(s) \in Nat
  BY BookNat, PayTables DEF Before, PayTypes
<1> QED
  BY <1>1, <1>2 DEF RowsKept, NoSlip

LEMMA FinalizeBooks ==
  ASSUME NEW c, Going(c), NEW r \in Runs, Finalize(c, r) PROVE BooksInv'
<1>1. PICK todo : todo = {<<s, slip[s]>> : s \in SlipsOf(r)}
  OBVIOUS
<1> DEFINE v == [pc |-> "book", run |-> r, todo |-> todo]
<1>2. Ask(c, v) /\ run[r] = "draft"
  BY <1>1 DEF Finalize
<1>3. ASSUME Before(c), Unstopped PROVE KnowsBooked(v)
  <2>1. clerk[c].pc \notin Booking
    BY <1>2 DEF Ask, AtRest, Booking
  <2>2. \A s \in Payslips : s[1] = r => BookedOn(s) = 0
    BY <1>2, <1>3, <2>1, DraftsFree
  <2>3. ASSUME NEW read \in todo
        PROVE  /\ read = <<read[1], slip[read[1]]>> /\ read[1][1] = r /\ slip[read[1]].there
               /\ BookedOn(read[1]) = 0
    BY <1>1, <2>2 DEF SlipsOf
  <2> QED
    BY <1>2, <2>3 DEF KnowsBooked
<1>4. KnowsBalance(v)
  BY DEF KnowsBalance
<1> HIDE DEF v
<1> QED
  BY <1>2, <1>3, <1>4, AskBooks

LEMMA ReopenBooks ==
  ASSUME NEW c, Going(c), NEW r \in Runs, Reopen(c, r) PROVE BooksInv'
<1>1. PICK pc : pc = IF SlipsOf(r) = {} THEN "draft" ELSE "unbook"
  OBVIOUS
<1> DEFINE v == [pc |-> pc, run |-> r, slips |-> SlipsOf(r)]
<1>2. Ask(c, v)
  BY <1>1 DEF Reopen
<1>3. ASSUME Before(c), Unstopped PROVE KnowsBooked(v)
  <2>1. clerk[c].pc \notin Booking
    BY <1>2 DEF Ask, AtRest, Booking
  <2>2. SlipsOf(r) = {} => \A s \in Payslips : s[1] = r => BookedOn(s) = 0
    BY <1>3, <2>1, DraftsFree DEF SlipsOf
  <2> QED
    BY <1>1, <2>2 DEF KnowsBooked, Booking
<1>4. KnowsBalance(v)
  BY <1>1 DEF KnowsBalance
<1> HIDE DEF v
<1> QED
  BY <1>2, <1>3, <1>4, AskBooks

LEMMA UpdateBooks ==
  ASSUME NEW c, Going(c), NEW a \in Advances, NEW amount \in Amounts, NEW monthly \in Amounts,
         UpdateAdvance(c, a, amount, monthly)
  PROVE  BooksInv'
<1>1. PICK status : status = IF RepaidOf(a) >= amount THEN "closed" ELSE "open"
  OBVIOUS
<1> DEFINE to == Opened(amount, monthly, status)
           v == [pc |-> "advance", advance |-> a, to |-> to]
<1>2. Ask(c, v) /\ advance[a] # NoAdvance /\ RepaidOf(a) <= amount
  <2>1. RepaidOf(a) \in Nat /\ amount \in Int
    BY BookNat, PayTables, PayrollAssumption DEF Going, BooksInv, PayTypes, Amounts
  <2> QED
    BY <1>1, <2>1 DEF UpdateAdvance
<1>3. to.amount = amount /\ to.status = status
  BY DEF Opened
<1> HIDE DEF to
<1>4. KnowsBalance(v) /\ KnowsBooked(v)
  BY <1>1, <1>2, <1>3 DEF KnowsBalance, KnowsBooked, Booking
<1> HIDE DEF v
<1> QED
  BY <1>2, <1>4, AskBooks

LEMMA RepayBooks ==
  ASSUME NEW c, Going(c), NEW a \in Advances, NEW amount \in Amounts, RepayAdvance(c, a, amount)
  PROVE  BooksInv'
<1>1. PICK to : to = IF amount < Balance(a) THEN advance[a] ELSE [advance[a] EXCEPT !.status = "closed"]
  OBVIOUS
<1> DEFINE v == [pc |-> "cash", advance |-> a, amount |-> amount, to |-> to]
<1>2. Ask(c, v) /\ advance[a] # NoAdvance /\ amount <= Balance(a)
  BY <1>1 DEF RepayAdvance
<1>3. /\ RepaidOf(a) \in Nat /\ advance[a] \in AdvanceRow /\ advance[a].amount \in Nat /\ amount \in Nat
  BY BookNat, PayTables, PayrollAssumption DEF Going, BooksInv, PayTypes, Amounts, AdvanceTable, AdvanceRow
<1>4. /\ to.amount = advance[a].amount
      /\ amount < Balance(a) => to = advance[a]
  BY <1>1, <1>3 DEF AdvanceRow
<1>5. ASSUME Before(c), Unstopped, to.status = "closed"
      PROVE  RepaidOf(a) + amount >= to.amount
  <2>1. CASE amount < Balance(a)
    <3>1. advance[a].status = "closed" /\ clerk[c].pc = "idle" /\ RowsKept(clerk[c])
      BY <1>2, <1>4, <1>5, <2>1 DEF Before, Ask, AtRest
    <3>2. RepaidOf(a) >= advance[a].amount
      BY <3>1 DEF RowsKept
    <3> QED
      BY <1>3, <1>4, <3>2
  <2>2. CASE ~(amount < Balance(a))
    BY <1>3, <1>4, <2>2 DEF Balance
  <2> QED
    BY <2>1, <2>2
<1>6. KnowsBalance(v)
  BY <1>2, <1>4 DEF KnowsBalance
<1>7. Before(c) /\ Unstopped => KnowsBooked(v)
  BY <1>5 DEF KnowsBooked, Booking
<1> HIDE DEF v
<1> QED
  BY <1>2, <1>6, <1>7, AskBooks

LEMMA AskedBooks ==
  ASSUME NEW c, Going(c)
  PROVE  /\ \A r \in Runs :
              \/ CreateRun(c, r) \/ Regenerate(c, r) \/ DeleteRun(c, r)
              \/ Finalize(c, r) \/ Reopen(c, r)
              \/ \E which \in SUBSET SlipsOf(r) : Pay(c, r, which)
              => BooksInv'
         /\ \A s \in Payslips :
              \/ RemovePayslip(c, s)
              \/ \E wanted \in 0..MaxAmount : UpdatePayslip(c, s, wanted)
              => BooksInv'
         /\ \A a \in Advances :
              \/ \E amount, monthly \in Amounts : UpdateAdvance(c, a, amount, monthly)
              \/ \E amount \in Amounts : RepayAdvance(c, a, amount)
              \/ DeleteAdvance(c, a)
              => BooksInv'
<1> DEFINE Places == {"idle", "create", "refresh", "fill", "add", "totals", "edit", "remove",
                      "delete", "pay", "forget"}
<1>1. ASSUME NEW v, Ask(c, v), v.pc \in Places PROVE BooksInv'
  BY <1>1, FreeBooks, AskBooks
<1>2. ASSUME NEW r \in Runs, CreateRun(c, r) \/ Regenerate(c, r) \/ DeleteRun(c, r) PROVE BooksInv'
  <2>1. PICK v : Ask(c, v) /\ v.pc \in Places
    BY <1>2 DEF CreateRun, Regenerate, DeleteRun
  <2> QED
    BY <1>1, <2>1
<1>3. ASSUME NEW r \in Runs, NEW which \in SUBSET SlipsOf(r), Pay(c, r, which) PROVE BooksInv'
  <2>1. PICK v : Ask(c, v) /\ v.pc \in Places
    BY <1>3 DEF Pay
  <2> QED
    BY <1>1, <2>1
<1>4. ASSUME NEW s \in Payslips, NEW wanted, RemovePayslip(c, s) \/ UpdatePayslip(c, s, wanted)
      PROVE  BooksInv'
  <2>1. PICK v : Ask(c, v) /\ v.pc \in Places
    BY <1>4 DEF RemovePayslip, UpdatePayslip
  <2> QED
    BY <1>1, <2>1
<1>5. ASSUME NEW a \in Advances, DeleteAdvance(c, a) PROVE BooksInv'
  <2>1. PICK v : Ask(c, v) /\ v.pc \in Places
    BY <1>5 DEF DeleteAdvance
  <2> QED
    BY <1>1, <2>1
<1> QED
  BY <1>2, <1>3, <1>4, <1>5, FinalizeBooks, ReopenBooks, UpdateBooks, RepayBooks

LEMMA DraftQuiet ==
  ASSUME NEW c, Going(c),
         \/ ListMissing(c)
         \/ At(c, "refresh") /\ Refreshed(c)
         \/ At(c, "add") /\ Filled(c)
  PROVE  BooksInv'
<1>1. PICK v : /\ Now(c, v) /\ v.pc \in {"add", "fill", "totals"}
               /\ UNCHANGED <<run, slip, advance, repaid>>
  <2>1. "pc" \in DOMAIN clerk[c]
    BY DEF Going, BooksInv, PayTypes, PayKinds
  <2> QED
    BY <2>1 DEF ListMissing, Refreshed, Filled, To
<1>2. clerk[c].pc \in {"fill", "refresh", "add"}
  BY DEF ListMissing, At
<1>3. KnowsBalance(v) /\ KnowsBooked(v)
  BY <1>1, FreeBooks
<1>4. clerk[c].pc \notin Booking /\ clerk[c].pc \notin {"idle", "unclose"}
  BY <1>2 DEF Booking
<1> QED
  BY <1>1, <1>3, <1>4, QuietBooks

\* What a request that books has read is still there.
LEMMA NeverOrphan ==
  ASSUME NEW c \in Clerks, Before(c), Unstopped, Orphan(c)
  PROVE  clerk[c].pc \notin Booking
<1> DEFINE me == clerk[c]
           next == Min(DOMAIN me.open)
<1>1. SUFFICES ASSUME At(c, "repay") PROVE FALSE
  BY DEF Orphan, At, Booking
<1>2. /\ DOMAIN me.open # {}
      /\ advance[next] = NoAdvance \/ ~slip[me.slip].there
  BY <1>1 DEF Orphan, At
<1>3. KnowsBalance(me) /\ KnowsBooked(me) /\ PayTypes
  BY DEF Before, RowsKept
<1>4. next \in DOMAIN me.open
  BY <1>1, <1>2, <1>3, AffordableIs DEF At
<1> QED
  BY <1>1, <1>2, <1>3, <1>4 DEF KnowsBalance, KnowsBooked, At

LEMMA RefusedBooks ==
  ASSUME NEW c, Going(c), Refused(c) PROVE BooksInv'
<1>1. /\ Now(c, AtRest) /\ UNCHANGED <<run, slip, advance, repaid>>
      /\ clerk[c].pc \notin {"idle", "unclose"} /\ Orphan(c) /\ c \in Clerks
  BY DEF Going, Refused, Reply, Orphan, At
<1>2. Before(c) /\ Unstopped => clerk[c].pc \notin Booking
  BY <1>1, NeverOrphan
<1> QED
  BY <1>1, <1>2, RestBooked, QuietBooks

LEMMA ReadBooks ==
  ASSUME NEW c, Going(c), ReadOpen(c) PROVE BooksInv'
<1> DEFINE me == clerk[c]
<1>1. PICK read, todo, open :
        /\ read \in me.todo
        /\ Now(c, [pc |-> "repay", run |-> me.run, todo |-> todo,
             slip |-> read[1], asset |-> read[2].asset, left |-> read[2].advance, open |-> open])
        /\ todo = me.todo \ {read}
        /\ open = [a \in OpenOf(read[1][2]) |-> [row |-> advance[a], balance |-> Balance(a)]]
        /\ UNCHANGED <<run, slip, advance, repaid, charged>> /\ me.pc = "book"
  BY DEF ReadOpen, At
<1> DEFINE v == [pc |-> "repay", run |-> me.run, todo |-> todo,
             slip |-> read[1], asset |-> read[2].asset, left |-> read[2].advance, open |-> open]
<1>2. me.todo \subseteq Payslips \X SlipRow /\ me.run \in Runs
  BY <1>1 DEF Going, BooksInv, PayTypes, PayKinds
<1>3. KnowsBalance(v)
  <2>1. \A a \in DOMAIN open : /\ open[a].row = advance[a] /\ open[a].balance = Balance(a)
                               /\ advance[a] # NoAdvance
    BY <1>1 DEF OpenOf, NoAdvance
  <2> QED
    BY <2>1 DEF KnowsBalance
<1>4. ASSUME Before(c), Unstopped PROVE KnowsBooked(v)
  <2>1. /\ run[me.run] = "draft"
        /\ \A next \in me.todo :
             /\ next = <<next[1], slip[next[1]]>> /\ next[1][1] = me.run /\ slip[next[1]].there
             /\ BookedOn(next[1]) = 0
    BY <1>1, <1>4 DEF Before, RowsKept, KnowsBooked, Booking
  <2>2. \A next \in todo : next \in me.todo /\ next[1] # read[1]
    BY <1>1, <2>1
  <2>3. BookedOn(read[1]) + read[2].advance <= slip[read[1]].advance
    <3>1. read[2] = slip[read[1]] /\ read[2] \in SlipRow /\ BookedOn(read[1]) = 0
      BY <1>1, <1>2, <2>1
    <3>2. read[2].advance \in Nat
      BY <3>1 DEF SlipRow
    <3> QED
      BY <3>1, <3>2
  <2> QED
    BY <1>1, <2>1, <2>2, <2>3 DEF KnowsBooked, Booking
<1>5. me.pc \in Booking /\ v.pc \in Booking /\ v.run = me.run /\ me.pc \notin {"idle", "unclose"} /\ Now(c, v)
  BY <1>1 DEF Booking
<1> HIDE DEF v
<1> QED
  BY <1>1, <1>3, <1>4, <1>5, QuietBooks

LEMMA ChargeBooks ==
  ASSUME NEW c, Going(c),
         \/ Booked(c)
         \/ At(c, "assets") /\ (ChargeAsset(c) \/ Charged(c))
  PROVE  BooksInv'
<1> DEFINE me == clerk[c]
<1>0. PayKinds(me)
  BY DEF Going, BooksInv, PayTypes
<1>1. PICK v : /\ Now(c, v) /\ UNCHANGED <<run, slip, advance, repaid>>
               /\ v.pc \in {"assets", "book"} /\ v.run = me.run /\ v.todo = me.todo
               /\ me.pc \in {"repay", "assets"}
  <2>1. CASE Booked(c)
    BY <2>1 DEF Booked, At
  <2>2. CASE At(c, "assets") /\ Charged(c)
    BY <2>2 DEF Charged, At
  <2>3. CASE At(c, "assets") /\ ChargeAsset(c)
    <3>1. {"pc", "run", "todo", "charges"} \subseteq DOMAIN me
      BY <1>0, <2>3 DEF PayKinds, At
    <3> QED
      BY <2>3, <3>1 DEF ChargeAsset, At
  <2> QED
    BY <2>1, <2>2, <2>3
<1>2. KnowsBalance(v)
  BY <1>1 DEF KnowsBalance
<1>3. Before(c) /\ Unstopped => KnowsBooked(v)
  BY <1>1 DEF Before, RowsKept, KnowsBooked, Booking
<1>4. me.pc \in Booking /\ v.pc \in Booking /\ me.pc \notin {"idle", "unclose"}
  BY <1>1 DEF Booking
<1> QED
  BY <1>1, <1>2, <1>3, <1>4, QuietBooks

LEMMA UnchargeBooks ==
  ASSUME NEW c, Going(c), Uncharge(c) PROVE BooksInv'
<1> DEFINE me == clerk[c]
<1>1. PICK v : /\ Now(c, v) /\ UNCHANGED <<run, slip, advance, repaid>>
               /\ v.pc = "draft" /\ v.run = me.run /\ me.pc = "uncharge"
  <2>1. me.pc = "uncharge" /\ {"pc", "run"} \subseteq DOMAIN me
    BY DEF Uncharge, At, Going, BooksInv, PayTypes, PayKinds
  <2> QED
    BY <2>1 DEF Uncharge, To
<1>2. KnowsBalance(v)
  BY <1>1 DEF KnowsBalance
<1>3. Before(c) /\ Unstopped => KnowsBooked(v)
  BY <1>1 DEF Before, RowsKept, KnowsBooked, Booking
<1>4. me.pc \notin Booking /\ me.pc \notin {"idle", "unclose"}
  BY <1>1 DEF Booking
<1> QED
  BY <1>1, <1>2, <1>3, <1>4, QuietBooks

\* Places that know nothing of what was taken back.
FreePlaces == {"idle", "create", "refresh", "fill", "add", "totals", "edit", "remove", "delete", "pay",
         "forget"}

LEMMA FreeNext ==
  ASSUME NEW c, clerk'[c].pc \in FreePlaces
  PROVE  KnowsBalance(clerk[c])' /\ KnowsBooked(clerk[c])'
BY DEF KnowsBalance, KnowsBooked, Booking, FreePlaces

\* A payslip is saved.
LEMMA SlipBooks ==
  ASSUME NEW c, Going(c), NEW v, Now(c, v), clerk[c].pc \in FreePlaces, clerk[c].pc # "idle", v.pc \in FreePlaces,
         UNCHANGED <<run, advance, repaid>>, NEW s \in Payslips, NEW row,
         slip' = [slip EXCEPT ![s] = row],
         Before(c) => row.there,
         Before(c) /\ Unstopped => run[s[1]] = "draft" \/ row.advance = slip[s].advance
  PROVE  BooksInv'
<1>1. (\A a : RepaidOf(a)' = RepaidOf(a)) /\ (\A t : BookedOn(t)' = BookedOn(t))
  BY BooksSame
<1>2. clerk[c].pc \notin Booking /\ clerk[c].pc # "unclose" /\ v.pc \notin Booking
  BY DEF FreePlaces, Booking
<1>3. slip \in SlipTable /\ slip' \in SlipTable
  BY PayTables DEF Going, BooksInv, PayTypes, PayTypeOK, SlipTable, SlipRow
<1>4. slip'[s] = row /\ row \in SlipRow /\ \A t \in Payslips \ {s} : slip'[t] = slip[t]
  BY <1>3 DEF SlipTable
<1>5. ASSUME Before(c), clerk'[c] = v PROVE After(c)
  <2>1. KnowsBalance(clerk[c])' /\ KnowsBooked(clerk[c])'
    BY <1>5, FreeNext
  <2>2. ASSUME Unstopped PROVE RowsKept(clerk[c])'
    <3>1. RowsKept(clerk[c]) /\ row.there
      BY <1>5, <2>2 DEF Before
    <3>2. BookedOn(s) <= row.advance
      <4>1. CASE run[s[1]] = "draft"
        <5>1. BookedOn(s) = 0
          BY <1>2, <1>5, <2>2, <4>1, DraftsFree
        <5> QED
          BY <1>4, <5>1 DEF SlipRow
      <4>2. CASE row.advance = slip[s].advance
        BY <3>1, <4>2 DEF RowsKept
      <4> QED
        BY <1>5, <2>2, <4>1, <4>2
    <3>3. /\ \A t \in Payslips : slip'[t].there \/ slip'[t] = NoSlip
          /\ \A t \in Payslips : BookedOn(t)' <= slip'[t].advance
      BY <1>1, <1>4, <3>1, <3>2 DEF RowsKept
    <3>4. \A t \in Payslips : run'[t[1]] \in {"none", "draft"} => BookedOn(t)' = 0
      BY <1>1, <1>2, <3>1 DEF RowsKept
    <3>5. \A a \in Advances : advance'[a].status = "closed" => RepaidOf(a)' >= advance'[a].amount
      BY <1>1, <1>2, <3>1 DEF RowsKept
    <3> QED
      BY <2>1, <3>3, <3>4, <3>5 DEF RowsKept, Booking
  <2>3. \A a \in Advances : RepaidOf(a)' <= advance'[a].amount
    BY <1>1, <1>5 DEF Before
  <2> QED
    BY <2>1, <2>2, <2>3 DEF After
<1>6. clerk[c].pc # "idle"
  OBVIOUS
<1> QED
  BY <1>5, <1>6, NowBooks

\* A payslip is saved with its run a draft, or with the advances as they were.
LEMMA SlipsBooks ==
  ASSUME NEW c, Going(c),
         \/ SavePayslip(c)
         \/ At(c, "refresh") /\ RefreshSlip(c)
         \/ At(c, "add") /\ AddSlip(c)
         \/ At(c, "pay") /\ PaySlip(c)
  PROVE  BooksInv'
<1> DEFINE me == clerk[c]
<1>0. PayKinds(me) /\ c \in Clerks /\ (Before(c) => Knows(me))
  BY DEF Going, BooksInv, PayTypes, Before, Consistent
<1>1. CASE SavePayslip(c)
  <2>1. me.pc = "edit" /\ me.slip \in Payslips /\ "pc" \in DOMAIN me
    BY <1>0, <1>1 DEF SavePayslip, At, PayKinds
  <2>2. PICK v, row :
          /\ Now(c, v) /\ v.pc = "totals" /\ row = me.to
          /\ slip' = [slip EXCEPT ![me.slip] = row] /\ UNCHANGED <<run, advance, repaid>>
    BY <1>1, <2>1 DEF SavePayslip, To
  <2>3. Before(c) => row.there /\ run[me.slip[1]] = "draft"
    BY <1>0, <2>1, <2>2 DEF Knows
  <2>4. me.pc \in FreePlaces /\ me.pc # "idle" /\ v.pc \in FreePlaces
    BY <2>1, <2>2 DEF FreePlaces
  <2> QED
    BY <2>1, <2>2, <2>3, <2>4, SlipBooks
<1>2. CASE At(c, "refresh") /\ RefreshSlip(c)
  <2>1. me.pc = "refresh" /\ {"pc", "todo"} \subseteq DOMAIN me /\ me.todo \subseteq Payslips \X SlipRow
    BY <1>0, <1>2 DEF At, PayKinds
  <2>2. PICK read, v, row :
          /\ read \in me.todo /\ v = [me EXCEPT !.todo = @ \ {read}]
          /\ row = Deducted(read[1][2], PendingCharge(read[1][2]), read[2].advance, read[2].paid)
          /\ Now(c, v) /\ slip' = [slip EXCEPT ![read[1]] = row] /\ UNCHANGED <<run, advance, repaid>>
    BY <1>2 DEF RefreshSlip
  <2>3. row.there
    BY <2>2 DEF Deducted
  <2>4. Before(c) => run[read[1][1]] = "draft"
    BY <1>0, <2>1, <2>2 DEF Knows, Reads
  <2>5. me.pc \in FreePlaces /\ me.pc # "idle" /\ v.pc \in FreePlaces /\ read[1] \in Payslips
    BY <2>1, <2>2 DEF FreePlaces
  <2> QED
    BY <2>2, <2>3, <2>4, <2>5, SlipBooks
<1>3. CASE At(c, "add") /\ AddSlip(c)
  <2>1. /\ me.pc = "add" /\ {"pc", "run", "todo"} \subseteq DOMAIN me /\ me.todo \subseteq Employees
        /\ me.run \in Runs
    BY <1>0, <1>3 DEF At, PayKinds
  <2>2. PICK e, v, row :
          /\ e \in me.todo /\ v = [me EXCEPT !.todo = @ \ {e}]
          /\ row = Deducted(e, PendingCharge(e), Suggested(e), FALSE)
          /\ Now(c, v) /\ slip' = [slip EXCEPT ![<<me.run, e>>] = row]
          /\ UNCHANGED <<run, advance, repaid>>
    BY <1>3 DEF AddSlip
  <2>3. row.there
    BY <2>2 DEF Deducted
  <2>4. Before(c) => run[me.run] = "draft"
    BY <1>0, <2>1, <2>2 DEF Knows
  <2>5. PICK s : s = <<me.run, e>> /\ s \in Payslips /\ s[1] = me.run
    BY <2>1, <2>2 DEF Payslips
  <2>6. me.pc \in FreePlaces /\ me.pc # "idle" /\ v.pc \in FreePlaces
    BY <2>1, <2>2 DEF FreePlaces
  <2> QED
    BY <2>2, <2>3, <2>4, <2>5, <2>6, SlipBooks
<1>4. CASE At(c, "pay") /\ PaySlip(c)
  <2>1. me.pc = "pay" /\ {"pc", "todo"} \subseteq DOMAIN me /\ me.todo \subseteq Payslips \X SlipRow
    BY <1>0, <1>4 DEF At, PayKinds
  <2>2. PICK read, v, row :
          /\ read \in me.todo /\ v = [me EXCEPT !.todo = @ \ {read}]
          /\ row = [read[2] EXCEPT !.paid = TRUE]
          /\ Now(c, v) /\ slip' = [slip EXCEPT ![read[1]] = row] /\ UNCHANGED <<run, advance, repaid>>
    BY <1>4 DEF PaySlip
  <2>3. row.there = read[2].there /\ row.advance = read[2].advance
    BY <2>1, <2>2 DEF SlipRow
  <2>4. Before(c) => row.there /\ row.advance = slip[read[1]].advance
    BY <1>0, <2>1, <2>2, <2>3 DEF Knows, Reads
  <2>5. me.pc \in FreePlaces /\ me.pc # "idle" /\ v.pc \in FreePlaces /\ read[1] \in Payslips
    BY <2>1, <2>2 DEF FreePlaces
  <2> QED
    BY <2>2, <2>4, <2>5, SlipBooks
<1> QED
  BY <1>1, <1>2, <1>3, <1>4

\* A run is saved: nothing was taken back of what is a draft then.
LEMMA RunBooks ==
  ASSUME NEW c, Going(c), NEW v, Now(c, v), clerk[c].pc \notin {"idle", "unclose"}, v.pc \in FreePlaces,
         UNCHANGED <<slip, advance, repaid>>,
         Before(c) /\ Unstopped =>
           \A s \in Payslips : run'[s[1]] \in {"none", "draft"} => BookedOn(s) = 0
  PROVE  BooksInv'
<1>1. (\A a : RepaidOf(a)' = RepaidOf(a)) /\ (\A t : BookedOn(t)' = BookedOn(t))
  BY BooksSame
<1>2. ASSUME Before(c), clerk'[c] = v PROVE After(c)
  <2>1. KnowsBalance(clerk[c])' /\ KnowsBooked(clerk[c])'
    BY <1>2, FreeNext
  <2>2. ASSUME Unstopped PROVE RowsKept(clerk[c])'
    <3>1. RowsKept(clerk[c])
      BY <1>2, <2>2 DEF Before
    <3>2. /\ \A t \in Payslips : slip'[t].there \/ slip'[t] = NoSlip
          /\ \A t \in Payslips : BookedOn(t)' <= slip'[t].advance
          /\ \A a \in Advances : advance'[a].status = "closed" => RepaidOf(a)' >= advance'[a].amount
      BY <1>1, <3>1 DEF RowsKept
    <3>3. \A t \in Payslips : run'[t[1]] \in {"none", "draft"} => BookedOn(t)' = 0
      BY <1>1, <1>2, <2>2
    <3> QED
      BY <2>1, <3>2, <3>3 DEF RowsKept, Booking
  <2>3. \A a \in Advances : RepaidOf(a)' <= advance'[a].amount
    BY <1>1, <1>2 DEF Before
  <2> QED
    BY <2>1, <2>2, <2>3 DEF After
<1> QED
  BY <1>2, NowBooks

LEMMA RunsBooks ==
  ASSUME NEW c, Going(c),
         \/ InsertRun(c) \/ SaveTotals(c) \/ MarkDraft(c)
         \/ At(c, "pay") /\ MarkPaid(c)
         \/ At(c, "book") /\ MarkFinalized(c)
  PROVE  BooksInv'
<1> DEFINE me == clerk[c]
<1>0. /\ PayKinds(me) /\ c \in Clerks /\ (Before(c) => Knows(me)) /\ DOMAIN run = Runs
      /\ "pc" \in DOMAIN me /\ (me.pc # "idle" => me.run \in Runs \/ me.pc \in {"advance", "cash", "forget"})
  BY PayTables DEF Going, BooksInv, PayTypes, Before, Consistent, RunTable, PayKinds
<1>1. CASE InsertRun(c) \/ SaveTotals(c) \/ MarkDraft(c)
  <2>1. PICK v : /\ Now(c, v) /\ v.pc \in FreePlaces /\ UNCHANGED <<slip, advance, repaid>>
                 /\ run' = [run EXCEPT ![me.run] = "draft"]
                 /\ me.pc \in {"create", "totals", "draft"}
                 /\ me.pc = "create" => run[me.run] = "none"
    BY <1>0, <1>1 DEF InsertRun, SaveTotals, MarkDraft, To, Reply, At, AtRest, FreePlaces, Orphan
  <2>2. ASSUME Before(c), Unstopped
        PROVE  \A s \in Payslips : run'[s[1]] \in {"none", "draft"} => BookedOn(s) = 0
    <3>1. me.pc = "totals" => run[me.run] = "draft"
      BY <1>0, <2>2 DEF Knows
    <3>2. me.pc = "draft" => \A s \in Payslips : s[1] = me.run => BookedOn(s) = 0
      BY <2>2 DEF Before, RowsKept, KnowsBooked
    <3>3. me.pc \notin Booking
      BY <2>1 DEF Booking
    <3> QED
      BY <1>0, <2>1, <2>2, <3>1, <3>2, <3>3, DraftsFree DEF Payslips
  <2> QED
    BY <2>1, <2>2, RunBooks
<1>2. CASE At(c, "pay") /\ MarkPaid(c)
  <2>1. /\ Now(c, AtRest) /\ AtRest.pc \in FreePlaces /\ UNCHANGED <<slip, advance, repaid>>
        /\ run' = run \/ run' = [run EXCEPT ![me.run] = "paid"]
        /\ me.pc = "pay"
    BY <1>2 DEF MarkPaid, Reply, At, AtRest, FreePlaces
  <2>2. ASSUME Before(c), Unstopped
        PROVE  \A s \in Payslips : run'[s[1]] \in {"none", "draft"} => BookedOn(s) = 0
    <3>1. me.pc \notin Booking
      BY <2>1 DEF Booking
    <3> QED
      BY <1>0, <2>1, <2>2, <3>1, DraftsFree DEF Payslips
  <2> QED
    BY <2>1, <2>2, RunBooks
<1>3. CASE At(c, "book") /\ MarkFinalized(c)
  <2>1. /\ Now(c, AtRest) /\ AtRest.pc \in FreePlaces /\ UNCHANGED <<slip, advance, repaid>>
        /\ run' = [run EXCEPT ![me.run] = "finalized"]
        /\ me.pc = "book"
    BY <1>3 DEF MarkFinalized, Reply, At, AtRest, FreePlaces
  <2>2. ASSUME Before(c), Unstopped
        PROVE  \A s \in Payslips : run'[s[1]] \in {"none", "draft"} => BookedOn(s) = 0
    <3>1. \A s \in Payslips : run[s[1]] \in {"none", "draft"} /\ me.run # s[1] => BookedOn(s) = 0
      BY <2>2 DEF Before, RowsKept
    <3> QED
      BY <1>0, <2>1, <3>1 DEF Payslips
  <2> QED
    BY <2>1, <2>2, RunBooks
<1> QED
  BY <1>1, <1>2, <1>3

\* Payslips of a draft are deleted, and with them nothing that was taken back.
LEMMA DropsBooks ==
  ASSUME NEW c, Going(c), DeletePayslip(c) \/ DropRun(c) PROVE BooksInv'
<1> DEFINE me == clerk[c]
<1>0. /\ PayKinds(me) /\ c \in Clerks /\ (Before(c) => Knows(me)) /\ DOMAIN run = Runs
      /\ repaid \in Table /\ slip \in SlipTable /\ "pc" \in DOMAIN me
  BY PayTables DEF Going, BooksInv, PayTypes, Before, Consistent, RunTable, PayKinds
<1>1. PICK v, gone :
        /\ Now(c, v) /\ v.pc \in FreePlaces /\ UNCHANGED advance /\ DropSlips(gone)
        /\ me.pc \in {"remove", "delete"} /\ gone \subseteq Payslips /\ me.run \in Runs
        /\ run' = run \/ run' = [run EXCEPT ![me.run] = "none"]
        /\ \A s \in gone : s[1] = me.run \/ ~Before(c)
  <2>1. CASE DeletePayslip(c)
    <3>1. /\ Now(c, [me EXCEPT !.pc = "totals"]) /\ me.pc = "remove" /\ UNCHANGED <<run, advance>>
          /\ DropSlips({me.slip})
      BY <2>1 DEF DeletePayslip, To, At
    <3>2. me.slip \in Payslips /\ me.run \in Runs /\ (Before(c) => me.slip[1] = me.run)
      BY <1>0, <3>1 DEF PayKinds, Knows
    <3>3. PICK v, gone : v = [me EXCEPT !.pc = "totals"] /\ gone = {me.slip}
      OBVIOUS
    <3>4. v.pc = "totals" /\ v.pc \in FreePlaces
      BY <1>0, <3>3 DEF FreePlaces
    <3>5. gone \subseteq Payslips /\ \A s \in gone : s[1] = me.run \/ ~Before(c)
      BY <3>2, <3>3
    <3>6. Now(c, v) /\ DropSlips(gone)
      BY <3>1, <3>3
    <3> QED
      BY <3>1, <3>2, <3>4, <3>5, <3>6
  <2>2. CASE DropRun(c)
    <3>1. /\ Now(c, AtRest) /\ me.pc = "delete" /\ UNCHANGED advance /\ DropSlips(SlipsOf(me.run))
          /\ run' = [run EXCEPT ![me.run] = "none"]
      BY <2>2 DEF DropRun, Reply, At
    <3>2. me.run \in Runs
      BY <1>0, <3>1 DEF PayKinds
    <3>3. SlipsOf(me.run) \subseteq Payslips /\ \A s \in SlipsOf(me.run) : s[1] = me.run
      BY DEF SlipsOf
    <3>4. AtRest.pc \in FreePlaces
      BY DEF AtRest, FreePlaces
    <3> QED
      BY <3>1, <3>2, <3>3, <3>4
  <2> QED
    BY <2>1, <2>2
<1>2. /\ \A a \in Advances : RepaidOf(a)' <= RepaidOf(a)
      /\ \A a \in Advances :
           (\A s \in gone \cap Payslips : repaid[a][s] = 0) /\ Cash \notin gone
             => RepaidOf(a)' = RepaidOf(a)
      /\ \A s \in Payslips \ gone : BookedOn(s)' = BookedOn(s)
      /\ \A s \in Payslips \cap gone : BookedOn(s)' = 0
      /\ repaid' \in Table
  <2>1. repaid' = Unbooked(gone)
    BY <1>1 DEF DropSlips
  <2> QED
    BY <1>0, <2>1, BooksDrop
<1>3. ASSUME Before(c), clerk'[c] = v PROVE After(c)
  <2>1. KnowsBalance(clerk[c])' /\ KnowsBooked(clerk[c])'
    BY <1>1, <1>3, FreeNext
  <2>2. \A a \in Advances : RepaidOf(a)' <= advance'[a].amount
    <3>1. \A a \in Advances : /\ RepaidOf(a)' \in Nat /\ RepaidOf(a) \in Nat
                              /\ advance[a].amount \in Nat /\ RepaidOf(a) <= advance[a].amount
      BY <1>0, <1>2, <1>3, BookNat, BookNatNext, PayTables DEF Before, PayTypes, AdvanceTable, AdvanceRow
    <3> QED
      BY <1>1, <1>2, <3>1
  <2>3. ASSUME Unstopped PROVE RowsKept(clerk[c])'
    <3>1. RowsKept(clerk[c]) /\ me.pc \notin Booking /\ run[me.run] = "draft"
      BY <1>0, <1>1, <1>3, <2>3 DEF Before, Booking, Knows
    <3>2. \A s \in Payslips : run[s[1]] \in {"none", "draft"} => BookedOn(s) = 0
      BY <1>3, <2>3, <3>1, DraftsFree
    <3>3. \A a \in Advances : RepaidOf(a)' = RepaidOf(a)
      <4>1. \A s \in gone, a \in Advances : repaid[a][s] = 0
        <5>1. \A s \in gone : s \in Payslips /\ BookedOn(s) = 0
          BY <1>1, <1>3, <3>1, <3>2
        <5>2. \A s \in gone, a \in Advances : repaid[a][s] \in Nat /\ repaid[a][s] <= 0
          BY <1>0, <5>1, BookNat
        <5> QED
          BY <5>2
      <4> QED
        BY <1>1, <1>2, <4>1, WaysFinite
    <3>4. \A s \in Payslips : slip'[s] = IF s \in gone THEN NoSlip ELSE slip[s]
      BY <1>1 DEF DropSlips
    <3>5. /\ \A s \in Payslips : slip'[s].there \/ slip'[s] = NoSlip
          /\ \A s \in Payslips : BookedOn(s)' <= slip'[s].advance
      BY <1>2, <3>1, <3>4 DEF RowsKept, NoSlip
    <3>6. \A s \in Payslips : run'[s[1]] \in {"none", "draft"} => BookedOn(s)' = 0
      BY <1>0, <1>1, <1>2, <3>1, <3>2 DEF Payslips
    <3>7. \A a \in Advances : advance'[a].status = "closed" => RepaidOf(a)' >= advance'[a].amount
      BY <1>1, <3>1, <3>3 DEF RowsKept
    <3> QED
      BY <2>1, <3>5, <3>6, <3>7 DEF RowsKept, Booking
  <2> QED
    BY <2>1, <2>2, <2>3 DEF After
<1>4. me.pc # "idle"
  BY <1>1
<1> QED
  BY <1>1, <1>3, <1>4, NowBooks

\* What is known of the numbers before a step.
LEMMA NumbersBefore ==
  ASSUME NEW c, Going(c)
  PROVE  /\ repaid \in Table /\ repaid' \in Table /\ advance \in AdvanceTable /\ advance' \in AdvanceTable
         /\ slip \in SlipTable /\ c \in Clerks /\ PayTypes /\ PayKinds(clerk[c])
         /\ \A a \in Advances : /\ RepaidOf(a) \in Nat /\ RepaidOf(a)' \in Nat
                                /\ advance[a].amount \in Nat /\ advance'[a].amount \in Nat
         /\ \A s \in Payslips : BookedOn(s) \in Nat /\ slip[s].advance \in Nat
<1>1. /\ repaid \in Table /\ repaid' \in Table /\ advance \in AdvanceTable /\ advance' \in AdvanceTable
      /\ slip \in SlipTable /\ c \in Clerks /\ PayTypes /\ PayKinds(clerk[c])
  BY PayTables DEF Going, BooksInv, PayTypes, PayTypeOK, AdvanceTable, AdvanceRow, Table, Ways
<1>2. \A a \in Advances : advance[a].amount \in Nat /\ advance'[a].amount \in Nat
  BY <1>1 DEF AdvanceTable, AdvanceRow
<1>3. \A s \in Payslips : slip[s].advance \in Nat
  BY <1>1 DEF SlipTable, SlipRow
<1> QED
  BY <1>1, <1>2, <1>3, BookNat, BookNatNext

\* The rows of advances and repayments are saved; what is known of them next.
LEMMA AdvanceBooks ==
  ASSUME NEW c, Going(c), NEW v, Now(c, v), clerk[c].pc # "idle", UNCHANGED <<run, slip>>,
         Before(c) /\ clerk'[c] = v =>
           /\ \A a \in Advances : RepaidOf(a)' <= advance'[a].amount
           /\ KnowsBalance(clerk[c])'
           /\ Unstopped =>
                /\ \A s \in Payslips : BookedOn(s)' <= slip[s].advance
                /\ \A s \in Payslips :
                     run[s[1]] \in {"none", "draft"} /\ ~(v.pc \in Booking /\ v.run = s[1])
                       => BookedOn(s)' = 0
                /\ \A a \in Advances :
                     advance'[a].status = "closed" /\ ~(v.pc = "unclose" /\ a \in v.advances)
                       => RepaidOf(a)' >= advance'[a].amount
                /\ KnowsBooked(clerk[c])'
  PROVE  BooksInv'
<1>1. ASSUME Before(c), clerk'[c] = v PROVE After(c)
  <2>1. ASSUME Unstopped PROVE RowsKept(clerk[c])'
    <3>1. \A s \in Payslips : slip'[s].there \/ slip'[s] = NoSlip
      BY <1>1, <2>1 DEF Before, RowsKept
    <3>2. /\ \A s \in Payslips : BookedOn(s)' <= slip'[s].advance
          /\ \A s \in Payslips :
               run'[s[1]] \in {"none", "draft"} /\ ~(clerk'[c].pc \in Booking /\ clerk'[c].run = s[1])
                 => BookedOn(s)' = 0
          /\ \A a \in Advances :
               advance'[a].status = "closed" /\ ~(clerk'[c].pc = "unclose" /\ a \in clerk'[c].advances)
                 => RepaidOf(a)' >= advance'[a].amount
          /\ KnowsBooked(clerk[c])'
      BY <1>1, <2>1
    <3> QED
      BY <3>1, <3>2 DEF RowsKept, Booking
  <2> QED
    BY <1>1, <2>1 DEF After
<1> QED
  BY <1>1, NowBooks

LEMMA SaveAdvanceBooks ==
  ASSUME NEW c, Going(c), SaveAdvance(c) PROVE BooksInv'
<1> DEFINE me == clerk[c]
<1>1. /\ Now(c, AtRest) /\ me.pc = "advance" /\ UNCHANGED <<run, slip, repaid>>
      /\ advance' = [advance EXCEPT ![me.advance] = me.to]
  BY DEF SaveAdvance, Reply, At
<1>2. PICK b \in Advances : b = me.advance
  BY <1>1, NumbersBefore DEF PayKinds
<1>3. advance'[b] = me.to /\ \A a \in Advances \ {b} : advance'[a] = advance[a]
  BY <1>1, <1>2, NumbersBefore DEF AdvanceTable
<1>4. (\A a : RepaidOf(a)' = RepaidOf(a)) /\ (\A s : BookedOn(s)' = BookedOn(s))
  BY <1>1, BooksSame
<1>5. ASSUME Before(c), clerk'[c] = AtRest
      PROVE  /\ \A a \in Advances : RepaidOf(a)' <= advance'[a].amount
             /\ KnowsBalance(clerk[c])' /\ KnowsBooked(clerk[c])'
             /\ Unstopped =>
                  /\ \A s \in Payslips : BookedOn(s)' <= slip[s].advance
                  /\ \A s \in Payslips : run[s[1]] \in {"none", "draft"} => BookedOn(s)' = 0
                  /\ \A a \in Advances : advance'[a].status = "closed" => RepaidOf(a)' >= advance'[a].amount
  <2>1. RepaidOf(b) <= me.to.amount
    BY <1>1, <1>2, <1>5 DEF Before, KnowsBalance
  <2>2. KnowsBalance(clerk[c])' /\ KnowsBooked(clerk[c])'
    BY <1>5, FreeNext DEF AtRest, FreePlaces
  <2>3. ASSUME Unstopped
        PROVE  /\ \A s \in Payslips : BookedOn(s)' <= slip[s].advance
               /\ \A s \in Payslips : run[s[1]] \in {"none", "draft"} => BookedOn(s)' = 0
               /\ \A a \in Advances : advance'[a].status = "closed" => RepaidOf(a)' >= advance'[a].amount
    <3>1. RowsKept(me) /\ KnowsBooked(me) /\ me.pc \notin Booking
      BY <1>1, <1>5, <2>3 DEF Before, RowsKept, Booking
    <3>2. me.to.status = "closed" => RepaidOf(b) >= me.to.amount
      BY <1>1, <1>2, <3>1 DEF KnowsBooked
    <3> QED
      BY <1>1, <1>3, <1>4, <3>1, <3>2 DEF RowsKept
  <2>4. \A a \in Advances : RepaidOf(a)' <= advance'[a].amount
    BY <1>3, <1>4, <1>5, <2>1 DEF Before
  <2> QED
    BY <2>2, <2>3, <2>4
<1>6. AtRest.pc \notin Booking /\ AtRest.pc # "unclose"
  BY DEF AtRest, Booking
<1> QED
  BY <1>1, <1>5, AdvanceBooks

LEMMA DropAdvanceBooks ==
  ASSUME NEW c, Going(c), DropAdvance(c) PROVE BooksInv'
<1> DEFINE me == clerk[c]
<1>1. /\ Now(c, AtRest) /\ me.pc = "forget" /\ UNCHANGED <<run, slip>>
      /\ advance' = [advance EXCEPT ![me.advance] = NoAdvance]
      /\ repaid' = [repaid EXCEPT ![me.advance] = [k \in DOMAIN @ |-> 0]]
  BY DEF DropAdvance, Reply, At
<1>2. PICK b \in Advances : b = me.advance
  BY <1>1, NumbersBefore DEF PayKinds
<1>3. advance'[b] = NoAdvance /\ \A a \in Advances \ {b} : advance'[a] = advance[a]
  BY <1>1, <1>2, NumbersBefore DEF AdvanceTable
<1>4. /\ RepaidOf(b)' = 0
      /\ \A a \in Advances \ {b} : RepaidOf(a)' = RepaidOf(a)
      /\ \A s \in Payslips : BookedOn(s)' <= BookedOn(s)
  BY <1>1, <1>2, NumbersBefore, BooksForget
<1>5. \A s \in Payslips : BookedOn(s)' \in Nat /\ BookedOn(s) \in Nat /\ slip[s].advance \in Nat
  <2>1. \A s \in Payslips : s \in Ways /\ BookedOn(s)' = SumOf(Back(repaid', s), Advances)
    BY NumbersBefore, BookNatNext DEF Ways
  <2>2. \A s \in Ways : SumOf(Back(repaid', s), Advances) \in Nat
    BY NumbersBefore, TableSums
  <2> QED
    BY <2>1, <2>2, NumbersBefore
<1>6. ASSUME Before(c), clerk'[c] = AtRest
      PROVE  /\ \A a \in Advances : RepaidOf(a)' <= advance'[a].amount
             /\ KnowsBalance(clerk[c])' /\ KnowsBooked(clerk[c])'
             /\ Unstopped =>
                  /\ \A s \in Payslips : BookedOn(s)' <= slip[s].advance
                  /\ \A s \in Payslips : run[s[1]] \in {"none", "draft"} => BookedOn(s)' = 0
                  /\ \A a \in Advances : advance'[a].status = "closed" => RepaidOf(a)' >= advance'[a].amount
  <2>1. KnowsBalance(clerk[c])' /\ KnowsBooked(clerk[c])'
    BY <1>6, FreeNext DEF AtRest, FreePlaces
  <2>2. ASSUME Unstopped
        PROVE  /\ \A s \in Payslips : BookedOn(s)' <= slip[s].advance
               /\ \A s \in Payslips : run[s[1]] \in {"none", "draft"} => BookedOn(s)' = 0
               /\ \A a \in Advances : advance'[a].status = "closed" => RepaidOf(a)' >= advance'[a].amount
    <3>1. RowsKept(me) /\ me.pc \notin Booking
      BY <1>1, <1>6, <2>2 DEF Before, Booking
    <3>2. \A s \in Payslips : /\ BookedOn(s) <= slip[s].advance
                              /\ run[s[1]] \in {"none", "draft"} => BookedOn(s) = 0
      BY <3>1 DEF RowsKept
    <3>3. \A a \in Advances : advance'[a].status = "closed" => RepaidOf(a)' >= advance'[a].amount
      BY <1>1, <1>3, <1>4, <3>1 DEF RowsKept, NoAdvance
    <3> QED
      BY <1>4, <1>5, <3>2, <3>3
  <2>3. \A a \in Advances : RepaidOf(a)' <= advance'[a].amount
    BY <1>3, <1>4, <1>6 DEF Before, NoAdvance
  <2> QED
    BY <2>1, <2>2, <2>3
<1> QED
  BY <1>1, <1>6, AdvanceBooks

LEMMA CashBooks ==
  ASSUME NEW c, Going(c), BookCash(c) PROVE BooksInv'
<1> DEFINE me == clerk[c]
<1>1. /\ me.pc = "cash" /\ UNCHANGED <<run, slip, advance>>
      /\ repaid' = [repaid EXCEPT ![me.advance][Cash] = @ + me.amount]
  BY DEF BookCash, At
<1>2. PICK v : /\ Now(c, v)
               /\ \/ v = AtRest
                  \/ /\ v = [pc |-> "advance", advance |-> me.advance, to |-> me.to]
                     /\ me.to.status = "closed"
  BY DEF BookCash, Reply
<1>3. v.pc \notin Booking /\ v.pc # "unclose"
  BY <1>2 DEF AtRest, Booking
<1>4. PICK b \in Advances, n \in Nat : b = me.advance /\ n = me.amount
  BY <1>1, NumbersBefore DEF PayKinds
<1>5. /\ RepaidOf(b)' = RepaidOf(b) + n
      /\ \A a \in Advances \ {b} : RepaidOf(a)' = RepaidOf(a)
      /\ \A s \in Payslips : BookedOn(s)' = BookedOn(s)
  <2>1. Cash \in Ways /\ Cash \notin Payslips /\ n \in Int
    BY WaysFinite DEF Ways
  <2>2. repaid' = [repaid EXCEPT ![b][Cash] = @ + n]
    BY <1>1, <1>4
  <2>3. /\ RepaidOf(b)' = RepaidOf(b) + n
        /\ \A a \in Advances \ {b} : RepaidOf(a)' = RepaidOf(a)
        /\ \A s \in Payslips \ {Cash} : BookedOn(s)' = BookedOn(s)
    BY <2>1, <2>2, NumbersBefore, BooksGrow
  <2> QED
    BY <2>1, <2>3
<1>6. ASSUME Before(c), clerk'[c] = v
      PROVE  /\ \A a \in Advances : RepaidOf(a)' <= advance'[a].amount
             /\ KnowsBalance(clerk[c])'
             /\ Unstopped =>
                  /\ \A s \in Payslips : BookedOn(s)' <= slip[s].advance
                  /\ \A s \in Payslips : run[s[1]] \in {"none", "draft"} => BookedOn(s)' = 0
                  /\ \A a \in Advances : advance'[a].status = "closed" => RepaidOf(a)' >= advance'[a].amount
                  /\ KnowsBooked(clerk[c])'
  <2>1. advance[b] # NoAdvance /\ n <= advance[b].amount - RepaidOf(b) /\ me.to.amount = advance[b].amount
    BY <1>1, <1>4, <1>6 DEF Before, KnowsBalance, Balance
  <2>2. RepaidOf(b)' <= advance[b].amount
    BY <1>5, <2>1, NumbersBefore
  <2>3. \A a \in Advances : RepaidOf(a)' <= advance'[a].amount
    BY <1>1, <1>5, <1>6, <2>2 DEF Before
  <2>4. KnowsBalance(clerk[c])'
    <3>1. CASE v = AtRest
      BY <1>6, <3>1, FreeNext DEF AtRest, FreePlaces
    <3>2. CASE v = [pc |-> "advance", advance |-> me.advance, to |-> me.to]
      <4>1. /\ v.pc = "advance" /\ v.advance = b /\ advance'[b] # NoAdvance
            /\ RepaidOf(b)' <= v.to.amount
        BY <1>1, <1>4, <2>1, <2>2, <3>2
      <4> QED
        BY <1>6, <4>1 DEF KnowsBalance
    <3> QED
      BY <1>2, <3>1, <3>2
  <2>5. ASSUME Unstopped
        PROVE  /\ \A s \in Payslips : BookedOn(s)' <= slip[s].advance
               /\ \A s \in Payslips : run[s[1]] \in {"none", "draft"} => BookedOn(s)' = 0
               /\ \A a \in Advances : advance'[a].status = "closed" => RepaidOf(a)' >= advance'[a].amount
               /\ KnowsBooked(clerk[c])'
    <3>1. RowsKept(me) /\ me.pc \notin Booking /\ KnowsBooked(me)
      BY <1>1, <1>6, <2>5 DEF Before, Booking, RowsKept
    <3>2. \A s \in Payslips : /\ BookedOn(s) <= slip[s].advance
                              /\ run[s[1]] \in {"none", "draft"} => BookedOn(s) = 0
      BY <3>1 DEF RowsKept
    <3>3. \A a \in Advances : advance'[a].status = "closed" => RepaidOf(a)' >= advance'[a].amount
      <4>1. \A a \in Advances : RepaidOf(a)' >= RepaidOf(a)
        BY <1>5, NumbersBefore
      <4>2. \A a \in Advances : advance[a].status = "closed" => RepaidOf(a) >= advance[a].amount
        BY <1>1, <3>1 DEF RowsKept
      <4> QED
        BY <1>1, <4>1, <4>2, NumbersBefore
    <3>4. me.to.status = "closed" => RepaidOf(b)' >= me.to.amount
      BY <1>1, <1>4, <1>5, <3>1 DEF KnowsBooked
    <3>5. KnowsBooked(clerk[c])'
      <4>1. CASE v = AtRest
        BY <1>6, <4>1, FreeNext DEF AtRest, FreePlaces
      <4>2. CASE v = [pc |-> "advance", advance |-> me.advance, to |-> me.to]
        <5>1. /\ v.pc = "advance" /\ v.advance = b
              /\ v.to.status = "closed" => RepaidOf(b)' >= v.to.amount
          BY <1>4, <3>4, <4>2
        <5> QED
          BY <1>6, <5>1 DEF KnowsBooked, Booking
      <4> QED
        BY <1>2, <4>1, <4>2
    <3> QED
      BY <1>5, <3>2, <3>3, <3>5
  <2> QED
    BY <2>3, <2>4, <2>5
<1> QED
  BY <1>1, <1>2, <1>3, <1>6, AdvanceBooks

LEMMA CloseBooks ==
  ASSUME NEW c, Going(c), CloseAdvance(c) PROVE BooksInv'
<1> DEFINE me == clerk[c]
<1>1. /\ me.pc = "close" /\ DOMAIN me.open # {} /\ UNCHANGED <<run, slip, repaid>>
      /\ {"pc", "run", "todo", "slip", "asset", "left", "open"} \subseteq DOMAIN me
  BY NumbersBefore DEF CloseAdvance, At, PayKinds
<1>2. PICK b \in Advances : b = Min(DOMAIN me.open) /\ b \in DOMAIN me.open
  BY <1>1, NumbersBefore, AffordableIs
<1>3. PICK open : open = Restrict(me.open, DOMAIN me.open \ {b})
  OBVIOUS
<1>4. DOMAIN open = DOMAIN me.open \ {b} /\ \A a \in DOMAIN open : open[a] = me.open[a]
  BY <1>3, FewerOpen
<1> DEFINE v == [me EXCEPT !.pc = "repay", !.open = open]
<1>5. /\ Now(c, v)
      /\ advance' = [advance EXCEPT ![b] = [me.open[b].row EXCEPT !.status = "closed"]]
  BY <1>2, <1>3 DEF CloseAdvance
<1>6. /\ v.pc = "repay" /\ v.run = me.run /\ v.todo = me.todo /\ v.slip = me.slip /\ v.left = me.left
      /\ v.open = open
  BY <1>1
<1> HIDE DEF v
<1>7. (\A a : RepaidOf(a)' = RepaidOf(a)) /\ (\A s : BookedOn(s)' = BookedOn(s))
  BY <1>1, BooksSame
<1>8. ASSUME Before(c), clerk'[c] = v
      PROVE  /\ \A a \in Advances : RepaidOf(a)' <= advance'[a].amount
             /\ KnowsBalance(clerk[c])'
             /\ Unstopped =>
                  /\ \A s \in Payslips : BookedOn(s)' <= slip[s].advance
                  /\ \A s \in Payslips :
                       run[s[1]] \in {"none", "draft"} /\ ~(v.pc \in Booking /\ v.run = s[1])
                         => BookedOn(s)' = 0
                  /\ \A a \in Advances : advance'[a].status = "closed" => RepaidOf(a)' >= advance'[a].amount
                  /\ KnowsBooked(clerk[c])'
  <2>1. \A a \in DOMAIN me.open :
          /\ me.open[a].row = advance[a] /\ advance[a] # NoAdvance
          /\ a # b => me.open[a].balance = Balance(a)
    BY <1>1, <1>2, <1>8 DEF Before, KnowsBalance
  <2>2. /\ advance'[b].amount = advance[b].amount /\ advance'[b].status = "closed"
        /\ \A a \in Advances \ {b} : advance'[a] = advance[a]
    BY <1>2, <1>5, <2>1, NumbersBefore DEF AdvanceTable, AdvanceRow
  <2>3. \A a \in Advances : RepaidOf(a)' <= advance'[a].amount
    BY <1>7, <1>8, <2>2 DEF Before
  <2>4. KnowsBalance(clerk[c])'
    <3>1. \A a \in DOMAIN open :
            /\ open[a].row = advance'[a] /\ advance'[a] # NoAdvance /\ open[a].balance = Balance(a)'
      <4>1. \A a \in DOMAIN open : a \in Advances \ {b} /\ a \in DOMAIN me.open
        BY <1>1, <1>4, NumbersBefore DEF PayKinds
      <4> QED
        BY <1>4, <1>7, <2>1, <2>2, <4>1 DEF Balance
    <3> QED
      BY <1>6, <1>8, <3>1 DEF KnowsBalance
  <2>5. ASSUME Unstopped
        PROVE  /\ \A s \in Payslips : BookedOn(s)' <= slip[s].advance
               /\ \A s \in Payslips :
                    run[s[1]] \in {"none", "draft"} /\ ~(v.pc \in Booking /\ v.run = s[1])
                      => BookedOn(s)' = 0
               /\ \A a \in Advances : advance'[a].status = "closed" => RepaidOf(a)' >= advance'[a].amount
               /\ KnowsBooked(clerk[c])'
    <3>1. RowsKept(me) /\ KnowsBooked(me)
      BY <1>8, <2>5 DEF Before, RowsKept
    <3>2. /\ run[me.run] = "draft"
          /\ \A read \in me.todo :
               /\ read = <<read[1], slip[read[1]]>> /\ read[1][1] = me.run /\ slip[read[1]].there
               /\ BookedOn(read[1]) = 0 /\ read[1] # me.slip
          /\ me.slip[1] = me.run /\ slip[me.slip].there
          /\ BookedOn(me.slip) + me.left <= slip[me.slip].advance
          /\ RepaidOf(b) >= advance[b].amount
      BY <1>1, <1>2, <3>1 DEF KnowsBooked, Booking
    <3>3. KnowsBooked(clerk[c])'
      BY <1>1, <1>6, <1>7, <1>8, <3>2 DEF KnowsBooked, Booking
    <3>4. \A a \in Advances : advance'[a].status = "closed" => RepaidOf(a)' >= advance'[a].amount
      BY <1>1, <1>7, <2>2, <3>1, <3>2 DEF RowsKept
    <3>5. \A s \in Payslips :
            run[s[1]] \in {"none", "draft"} /\ ~(v.pc \in Booking /\ v.run = s[1]) => BookedOn(s)' = 0
      BY <1>1, <1>6, <1>7, <3>1 DEF RowsKept, Booking
    <3> QED
      BY <1>7, <3>1, <3>3, <3>4, <3>5 DEF RowsKept
  <2> QED
    BY <2>3, <2>4, <2>5
<1> QED
  BY <1>1, <1>5, <1>8, AdvanceBooks

LEMMA UnbookBooks ==
  ASSUME NEW c, Going(c), Unbook(c) PROVE BooksInv'
<1> DEFINE me == clerk[c]
<1>1. PICK gone, advances :
        /\ gone = me.slips /\ advances = {a \in Advances : \E s \in gone : repaid[a][s] > 0}
        /\ Now(c, [pc |-> "unclose", run |-> me.run, slips |-> gone, advances |-> advances])
        /\ UNCHANGED <<run, slip, advance, charged>> /\ repaid' = Unbooked(gone)
        /\ me.pc = "unbook"
  BY DEF Unbook, At
<1> DEFINE v == [pc |-> "unclose", run |-> me.run, slips |-> gone, advances |-> advances]
<1>2. gone \subseteq Payslips /\ Cash \notin gone
  BY <1>1, NumbersBefore, WaysFinite DEF PayKinds
<1>3. /\ \A a \in Advances : RepaidOf(a)' <= RepaidOf(a)
      /\ \A a \in Advances :
           (\A s \in gone \cap Payslips : repaid[a][s] = 0) /\ Cash \notin gone
             => RepaidOf(a)' = RepaidOf(a)
      /\ \A s \in Payslips \ gone : BookedOn(s)' = BookedOn(s)
      /\ \A s \in Payslips \cap gone : BookedOn(s)' = 0
  BY <1>1, NumbersBefore, BooksDrop
<1>4. \A a \in Advances \ advances : RepaidOf(a)' = RepaidOf(a)
  <2>1. \A s \in Payslips, a \in Advances : repaid[a][s] \in Nat
    BY NumbersBefore, BookNat
  <2>2. \A a \in Advances \ advances : \A s \in gone \cap Payslips : repaid[a][s] = 0
    BY <1>1, <2>1
  <2> QED
    BY <1>2, <1>3, <2>2
<1>5. v.pc = "unclose" /\ v.run = me.run /\ v.advances = advances /\ Now(c, v)
  BY <1>1
<1> HIDE DEF v
<1>6. ASSUME Before(c), clerk'[c] = v
      PROVE  /\ \A a \in Advances : RepaidOf(a)' <= advance'[a].amount
             /\ KnowsBalance(clerk[c])'
             /\ Unstopped =>
                  /\ \A s \in Payslips : BookedOn(s)' <= slip[s].advance
                  /\ \A s \in Payslips : run[s[1]] \in {"none", "draft"} => BookedOn(s)' = 0
                  /\ \A a \in Advances :
                       advance'[a].status = "closed" /\ ~(v.pc = "unclose" /\ a \in v.advances)
                         => RepaidOf(a)' >= advance'[a].amount
                  /\ KnowsBooked(clerk[c])'
  <2>1. \A a \in Advances : RepaidOf(a)' <= advance'[a].amount
    <3>1. \A a \in Advances : RepaidOf(a) <= advance[a].amount
      BY <1>6 DEF Before
    <3> QED
      BY <1>1, <1>3, <3>1, NumbersBefore
  <2>2. KnowsBalance(clerk[c])'
    BY <1>5, <1>6 DEF KnowsBalance
  <2>3. ASSUME Unstopped
        PROVE  /\ \A s \in Payslips : BookedOn(s)' <= slip[s].advance
               /\ \A s \in Payslips : run[s[1]] \in {"none", "draft"} => BookedOn(s)' = 0
               /\ \A a \in Advances :
                    advance'[a].status = "closed" /\ ~(v.pc = "unclose" /\ a \in v.advances)
                      => RepaidOf(a)' >= advance'[a].amount
               /\ KnowsBooked(clerk[c])'
    <3>1. RowsKept(me) /\ me.pc \notin Booking
      BY <1>1, <1>6, <2>3 DEF Before, Booking
    <3>2. gone = SlipsOf(me.run)
      BY <1>1, <3>1 DEF RowsKept, KnowsBooked
    <3>3. \A s \in Payslips : /\ run[s[1]] \in {"none", "draft"} => BookedOn(s) = 0
                              /\ ~slip[s].there => BookedOn(s) = 0
      BY <1>6, <2>3, <3>1, DraftsFree
    <3>4. \A s \in Payslips : /\ BookedOn(s)' <= slip[s].advance
                              /\ run[s[1]] \in {"none", "draft"} => BookedOn(s)' = 0
      BY <1>3, <3>1, <3>3, NumbersBefore DEF RowsKept
    <3>5. \A s \in Payslips : s[1] = me.run => BookedOn(s)' = 0
      BY <1>3, <3>2, <3>3 DEF SlipsOf
    <3>6. KnowsBooked(clerk[c])'
      BY <1>5, <1>6, <3>5 DEF KnowsBooked, Booking
    <3>7. \A a \in Advances \ advances :
            advance'[a].status = "closed" => RepaidOf(a)' >= advance'[a].amount
      BY <1>1, <1>4, <3>1 DEF RowsKept
    <3> QED
      BY <1>5, <3>4, <3>6, <3>7
  <2> QED
    BY <2>1, <2>2, <2>3
<1> QED
  BY <1>1, <1>5, <1>6, AdvanceBooks

LEMMA UncloseBooks ==
  ASSUME NEW c, Going(c), ReopenAdvances(c) PROVE BooksInv'
<1> DEFINE me == clerk[c]
<1>1. /\ me.pc = "unclose" /\ UNCHANGED <<run, slip, repaid>> /\ advance' = Reopened(me.advances)
      /\ {"pc", "run"} \subseteq DOMAIN me
  BY NumbersBefore DEF ReopenAdvances, At, PayKinds
<1>2. PICK v : Now(c, v) /\ v.pc = "uncharge" /\ v.run = me.run
  BY <1>1 DEF ReopenAdvances, To
<1>3. \A a \in Advances : /\ advance'[a].amount = advance[a].amount
                          /\ advance'[a].status = "closed" =>
                               advance[a].status = "closed" /\ a \notin me.advances
  BY <1>1, NumbersBefore DEF Reopened, AdvanceTable, AdvanceRow, NoAdvance
<1>4. (\A a : RepaidOf(a)' = RepaidOf(a)) /\ (\A s : BookedOn(s)' = BookedOn(s))
  BY <1>1, BooksSame
<1>5. v.pc \notin Booking /\ v.pc # "unclose" /\ me.pc \notin Booking
  BY <1>1, <1>2 DEF Booking
<1>6. ASSUME Before(c), clerk'[c] = v
      PROVE  /\ \A a \in Advances : RepaidOf(a)' <= advance'[a].amount
             /\ KnowsBalance(clerk[c])'
             /\ Unstopped =>
                  /\ \A s \in Payslips : BookedOn(s)' <= slip[s].advance
                  /\ \A s \in Payslips : run[s[1]] \in {"none", "draft"} => BookedOn(s)' = 0
                  /\ \A a \in Advances : advance'[a].status = "closed" => RepaidOf(a)' >= advance'[a].amount
                  /\ KnowsBooked(clerk[c])'
  <2>1. \A a \in Advances : RepaidOf(a)' <= advance'[a].amount
    BY <1>3, <1>4, <1>6 DEF Before
  <2>2. KnowsBalance(clerk[c])'
    BY <1>2, <1>6 DEF KnowsBalance
  <2>3. ASSUME Unstopped
        PROVE  /\ \A s \in Payslips : BookedOn(s)' <= slip[s].advance
               /\ \A s \in Payslips : run[s[1]] \in {"none", "draft"} => BookedOn(s)' = 0
               /\ \A a \in Advances : advance'[a].status = "closed" => RepaidOf(a)' >= advance'[a].amount
               /\ KnowsBooked(clerk[c])'
    <3>1. RowsKept(me) /\ \A s \in Payslips : s[1] = me.run => BookedOn(s) = 0
      BY <1>1, <1>6, <2>3 DEF Before, RowsKept, KnowsBooked
    <3>2. KnowsBooked(clerk[c])'
      BY <1>2, <1>4, <1>6, <3>1 DEF KnowsBooked, Booking
    <3>3. /\ \A s \in Payslips : BookedOn(s)' <= slip[s].advance
          /\ \A s \in Payslips : run[s[1]] \in {"none", "draft"} => BookedOn(s)' = 0
          /\ \A a \in Advances : advance'[a].status = "closed" => RepaidOf(a)' >= advance'[a].amount
      BY <1>3, <1>4, <1>5, <3>1 DEF RowsKept
    <3> QED
      BY <3>2, <3>3
  <2> QED
    BY <2>1, <2>2, <2>3
<1> QED
  BY <1>1, <1>2, <1>5, <1>6, AdvanceBooks

LEMMA RepaymentBooks ==
  ASSUME NEW c, Going(c), BookRepayment(c) PROVE BooksInv'
<1> DEFINE me == clerk[c]
<1>1. /\ me.pc = "repay" /\ DOMAIN me.open # {} /\ UNCHANGED <<run, slip, advance>>
      /\ {"pc", "run", "todo", "slip", "asset", "left", "open"} \subseteq DOMAIN me
      /\ DOMAIN me.open \subseteq Advances
  BY NumbersBefore DEF BookRepayment, At, PayKinds
<1>2. PICK b \in Advances, n \in Nat, s \in Payslips, balance \in Int, left \in Nat :
        /\ b = Min(DOMAIN me.open) /\ b \in DOMAIN me.open /\ n = Affordable(c) /\ n <= me.left
        /\ s = me.slip /\ balance = me.open[b].balance /\ (0 <= balance => n <= balance)
        /\ me.left \in Nat /\ left = me.left - n
  <2>1. /\ Min(DOMAIN me.open) \in DOMAIN me.open
        /\ Min(DOMAIN me.open) \in Advances /\ me.slip \in Payslips
        /\ me.left \in Nat /\ Affordable(c) \in Nat /\ Affordable(c) <= me.left
        /\ me.open[Min(DOMAIN me.open)].balance \in Int
        /\ 0 <= me.open[Min(DOMAIN me.open)].balance
             => Affordable(c) <= me.open[Min(DOMAIN me.open)].balance
    BY <1>1, NumbersBefore, AffordableIs
  <2>2. me.left - Affordable(c) \in Nat
    BY <2>1
  <2> QED
    BY <2>1, <2>2
<1>3. PICK closes \in BOOLEAN : closes <=> n > 0 /\ n >= balance
  OBVIOUS
<1>4. PICK open : open = IF closes THEN me.open ELSE Restrict(me.open, DOMAIN me.open \ {b})
  OBVIOUS
<1>5. /\ DOMAIN open \subseteq DOMAIN me.open /\ \A a \in DOMAIN open : open[a] = me.open[a]
      /\ closes => open = me.open
      /\ ~closes => b \notin DOMAIN open
  BY <1>4, FewerOpen
<1> DEFINE v == [me EXCEPT !.left = left, !.pc = IF closes THEN "close" ELSE "repay", !.open = open]
<1>6. Now(c, v) /\ repaid' = [repaid EXCEPT ![b][s] = @ + n]
  BY <1>2, <1>3, <1>4 DEF BookRepayment
<1>7. /\ v.pc = (IF closes THEN "close" ELSE "repay") /\ v.run = me.run /\ v.todo = me.todo
      /\ v.slip = s /\ v.left = left /\ v.open = open
  BY <1>1, <1>2
<1> HIDE DEF v
<1>8. /\ RepaidOf(b)' = RepaidOf(b) + n
      /\ \A a \in Advances \ {b} : RepaidOf(a)' = RepaidOf(a)
      /\ \A t \in Payslips \ {s} : BookedOn(t)' = BookedOn(t)
      /\ BookedOn(s)' = BookedOn(s) + n
  <2>1. s \in Ways /\ n \in Int /\ b \in Advances
    BY DEF Ways
  <2>2. repaid \in Table /\ repaid' \in Table
    BY NumbersBefore
  <2>3. /\ RepaidOf(b)' = RepaidOf(b) + n
        /\ \A a \in Advances \ {b} : RepaidOf(a)' = RepaidOf(a)
        /\ \A t \in Payslips \ {s} : BookedOn(t)' = BookedOn(t)
        /\ s \in Payslips => BookedOn(s)' = BookedOn(s) + n
    BY ONLY <1>6, <2>1, <2>2, BooksGrow
  <2> QED
    BY <2>3
<1>9. ASSUME Before(c), clerk'[c] = v
      PROVE  /\ \A a \in Advances : RepaidOf(a)' <= advance'[a].amount
             /\ KnowsBalance(clerk[c])'
             /\ Unstopped =>
                  /\ \A t \in Payslips : BookedOn(t)' <= slip[t].advance
                  /\ \A t \in Payslips :
                       run[t[1]] \in {"none", "draft"} /\ ~(v.pc \in Booking /\ v.run = t[1])
                         => BookedOn(t)' = 0
                  /\ \A a \in Advances : advance'[a].status = "closed" => RepaidOf(a)' >= advance'[a].amount
                  /\ KnowsBooked(clerk[c])'
  <2>1. /\ \A a \in DOMAIN me.open :
             me.open[a].row = advance[a] /\ advance[a] # NoAdvance /\ me.open[a].balance = Balance(a)
        /\ RepaidOf(b) <= advance[b].amount
    BY <1>1, <1>9 DEF Before, KnowsBalance
  <2>2. balance = advance[b].amount - RepaidOf(b)
    BY <1>2, <2>1 DEF Balance
  <2>3. n <= balance
    BY <1>2, <2>1, <2>2, NumbersBefore
  <2>4. \A a \in Advances : RepaidOf(a)' <= advance'[a].amount
    <3>1. RepaidOf(b)' <= advance[b].amount
      BY <1>8, <2>2, <2>3, NumbersBefore
    <3> QED
      BY <1>1, <1>8, <1>9, <3>1 DEF Before
  <2>5. KnowsBalance(clerk[c])'
    <3>1. \A a \in Advances \ {b} : Balance(a)' = Balance(a)
      BY <1>1, <1>8 DEF Balance
    <3>2. \A a \in DOMAIN open :
            /\ open[a].row = advance'[a] /\ advance'[a] # NoAdvance
            /\ a # b => open[a].balance = Balance(a)'
      BY <1>1, <1>5, <2>1, <3>1
    <3>3. v.pc = "repay" => b \notin DOMAIN open
      BY <1>5, <1>7
    <3>4. v.pc = "close" => b = Min(DOMAIN open)
      BY <1>2, <1>5, <1>7
    <3> QED
      BY <1>7, <1>9, <3>2, <3>3, <3>4 DEF KnowsBalance
  <2>6. ASSUME Unstopped
        PROVE  /\ \A t \in Payslips : BookedOn(t)' <= slip[t].advance
               /\ \A t \in Payslips :
                    run[t[1]] \in {"none", "draft"} /\ ~(v.pc \in Booking /\ v.run = t[1])
                      => BookedOn(t)' = 0
               /\ \A a \in Advances : advance'[a].status = "closed" => RepaidOf(a)' >= advance'[a].amount
               /\ KnowsBooked(clerk[c])'
    <3>1. RowsKept(me) /\ KnowsBooked(me)
      BY <1>9, <2>6 DEF Before, RowsKept
    <3>2. /\ run[me.run] = "draft"
          /\ \A read \in me.todo :
               /\ read = <<read[1], slip[read[1]]>> /\ read[1][1] = me.run /\ slip[read[1]].there
               /\ BookedOn(read[1]) = 0 /\ read[1] # s
          /\ s[1] = me.run /\ slip[s].there
          /\ BookedOn(s) + me.left <= slip[s].advance
      BY <1>1, <1>2, <3>1 DEF KnowsBooked, Booking
    <3>3. BookedOn(s)' + left <= slip[s].advance /\ BookedOn(s)' <= slip[s].advance
      BY <1>2, <1>8, <3>2, NumbersBefore
    <3>4. \A read \in me.todo : BookedOn(read[1])' = 0
      <4>1. \A read \in me.todo : read[1] \in Payslips \ {s}
        BY <1>1, <3>2, NumbersBefore DEF PayKinds
      <4> QED
        BY <1>8, <3>2, <4>1
    <3>5. closes => RepaidOf(b)' >= advance[b].amount
      BY <1>3, <1>8, <2>2, NumbersBefore
    <3>6. KnowsBooked(clerk[c])'
      <4>1. v.pc = "close" => Min(DOMAIN v.open) = b /\ RepaidOf(b)' >= advance'[b].amount
        BY <1>1, <1>2, <1>5, <1>7, <3>5
      <4> QED
        BY <1>1, <1>7, <1>9, <3>2, <3>3, <3>4, <4>1 DEF KnowsBooked, Booking
    <3>7. \A a \in Advances : advance'[a].status = "closed" => RepaidOf(a)' >= advance'[a].amount
      <4>1. \A a \in Advances : RepaidOf(a)' >= RepaidOf(a)
        BY <1>8, NumbersBefore
      <4>2. \A a \in Advances : advance[a].status = "closed" => RepaidOf(a) >= advance[a].amount
        BY <1>1, <3>1 DEF RowsKept
      <4> QED
        BY <1>1, <4>1, <4>2, NumbersBefore
    <3>8. \A t \in Payslips :
            run[t[1]] \in {"none", "draft"} /\ ~(v.pc \in Booking /\ v.run = t[1]) => BookedOn(t)' = 0
      BY <1>1, <1>7, <1>8, <3>1, <3>2 DEF RowsKept, Booking
    <3>9. \A t \in Payslips : BookedOn(t)' <= slip[t].advance
      BY <1>8, <3>1, <3>3 DEF RowsKept
    <3> QED
      BY <3>6, <3>7, <3>8, <3>9
  <2> QED
    BY <2>4, <2>5, <2>6
<1> QED
  BY <1>1, <1>6, <1>9, AdvanceBooks

\* An advance is granted; the requests under way are about others.
LEMMA CreateBooks ==
  ASSUME BooksInv, PayTypes', PeriodInv', NEW a \in Advances, NEW amount \in Amounts,
         NEW monthly \in Amounts, CreateAdvance(a, amount, monthly)
  PROVE  BooksInv'
<1>1. /\ UNCHANGED <<run, slip, repaid, charged, clerk, asked, mishaps>> /\ advance[a] = NoAdvance
      /\ advance' = [advance EXCEPT ![a] = Opened(amount, monthly, "open")]
  BY DEF CreateAdvance
<1>2. advance \in AdvanceTable /\ repaid \in Table /\ amount \in Nat
  BY PayTables, PayrollAssumption DEF BooksInv, PayTypes, Amounts
<1>3. /\ advance'[a].amount = amount /\ advance'[a].status = "open"
      /\ \A b \in Advances \ {a} : advance'[b] = advance[b]
  BY <1>1, <1>2 DEF AdvanceTable, Opened
<1>4. (\A b : RepaidOf(b)' = RepaidOf(b)) /\ (\A s : BookedOn(s)' = BookedOn(s))
  BY <1>1, BooksSame
<1>5. (Alone' <=> Alone) /\ (Unstopped' <=> Unstopped)
  BY <1>1 DEF Alone, Unstopped
<1>6. ASSUME Alone PROVE Covered'
  <2>1. \A b \in Advances : RepaidOf(b)' <= advance'[b].amount
    <3>1. RepaidOf(a) <= 0 /\ RepaidOf(a) \in Nat
      BY <1>1, <1>2, <1>6, BookNat DEF BooksInv, Covered, NoAdvance
    <3> QED
      BY <1>2, <1>3, <1>4, <1>6, <3>1 DEF BooksInv, Covered
  <2>2. \A b : b # a => Balance(b)' = Balance(b)
    BY <1>1, <1>4 DEF Balance, CreateAdvance
  <2>3. ASSUME NEW d \in Clerks PROVE KnowsBalance(clerk[d])'
    <3> DEFINE me == clerk[d]
    <3>1. KnowsBalance(me) /\ PayKinds(me)
      BY <1>6 DEF BooksInv, PayTypes, Covered
    <3>2. me.pc \in {"repay", "close"} => DOMAIN me.open \subseteq Advances \ {a}
      BY <1>1, <3>1 DEF KnowsBalance, PayKinds
    <3>3. me.pc \in {"advance", "cash"} => me.advance \in Advances \ {a}
      BY <1>1, <3>1 DEF KnowsBalance, PayKinds
    <3>4. clerk'[d] = me
      BY <1>1
    <3> QED
      BY <1>3, <1>4, <2>2, <3>1, <3>2, <3>3, <3>4 DEF KnowsBalance
  <2> QED
    BY <2>1, <2>3 DEF Covered
<1>7. ASSUME Unstopped PROVE BooksKept'
  <2>0. Alone /\ BooksKept
    BY <1>7 DEF BooksInv, Alone, Unstopped
  <2>1. /\ \A s \in Payslips : slip'[s].there \/ slip'[s] = NoSlip
        /\ \A s \in Payslips : BookedOn(s)' <= slip'[s].advance
    BY <1>1, <1>4, <2>0 DEF BooksKept
  <2>2. (\A r : BooksOn(r)' <=> BooksOn(r)) /\ (\A b : Uncloses(b)' <=> Uncloses(b))
    BY <1>1 DEF BooksOn, Uncloses, Booking
  <2>3. /\ \A s \in Payslips : run'[s[1]] \in {"none", "draft"} /\ ~BooksOn(s[1])' => BookedOn(s)' = 0
        /\ \A b \in Advances :
             advance'[b].status = "closed" /\ ~Uncloses(b)' => RepaidOf(b)' >= advance'[b].amount
    BY <1>1, <1>3, <1>4, <2>0, <2>2 DEF BooksKept
  <2>4. \A r : SlipsOf(r)' = SlipsOf(r)
    BY <1>1 DEF SlipsOf
  <2>5. ASSUME NEW d \in Clerks PROVE KnowsBooked(clerk[d])'
    <3> DEFINE me == clerk[d]
    <3>1. KnowsBooked(me) /\ KnowsBalance(me) /\ PayKinds(me) /\ clerk'[d] = me
      BY <1>1, <2>0 DEF BooksInv, PayTypes, Covered, BooksKept
    <3>2. ASSUME me.pc = "close"
          PROVE  Min(DOMAIN me.open) \in Advances \ {a}
      <4>1. DOMAIN me.open # {} /\ PayTypes
        BY <3>1, <3>2 DEF PayKinds, BooksInv
      <4>2. Min(DOMAIN me.open) \in DOMAIN me.open /\ Min(DOMAIN me.open) \in Advances
        BY <3>2, <4>1, AffordableIs
      <4> QED
        BY <1>1, <3>1, <3>2, <4>2 DEF KnowsBalance
    <3>3. me.pc = "close" => RepaidOf(Min(DOMAIN me.open))' >= advance'[Min(DOMAIN me.open)].amount
      BY <1>3, <1>4, <3>1, <3>2 DEF KnowsBooked
    <3>4. /\ (me.pc = "advance" /\ me.to.status = "closed") => RepaidOf(me.advance)' >= me.to.amount
          /\ (me.pc = "cash" /\ me.to.status = "closed") => RepaidOf(me.advance)' + me.amount >= me.to.amount
      BY <1>4, <3>1 DEF KnowsBooked
    <3>5. /\ me.pc \in Booking =>
               /\ run'[me.run] = "draft"
               /\ \A read \in me.todo :
                    /\ read = <<read[1], slip'[read[1]]>> /\ read[1][1] = me.run /\ slip'[read[1]].there
                    /\ BookedOn(read[1])' = 0
                    /\ me.pc \in {"repay", "close"} => read[1] # me.slip
          /\ me.pc \in {"repay", "close"} =>
               /\ me.slip[1] = me.run /\ slip'[me.slip].there
               /\ BookedOn(me.slip)' + me.left <= slip'[me.slip].advance
          /\ me.pc = "unbook" => me.slips = SlipsOf(me.run)'
          /\ me.pc \in {"unclose", "uncharge", "draft"} =>
               \A s \in Payslips : s[1] = me.run => BookedOn(s)' = 0
      BY <1>1, <1>4, <2>4, <3>1 DEF KnowsBooked
    <3> QED
      BY <3>1, <3>3, <3>4, <3>5 DEF KnowsBooked, Booking
  <2> QED
    BY <2>1, <2>3, <2>5 DEF BooksKept
<1> QED
  BY <1>5, <1>6, <1>7 DEF BooksInv

\* A request that stops leaves every advance covered.
LEMMA StopBooks ==
  ASSUME BooksInv, PayTypes', PeriodInv', NEW c \in Clerks, Stop(c) PROVE BooksInv'
<1>1. ~Unstopped' /\ (Alone' => Alone)
  BY DEF Stop, Unstopped, Alone
<1>2. (\A a : RepaidOf(a)' = RepaidOf(a))
  BY BooksSame DEF Stop
<1>3. \A a : Balance(a)' = Balance(a)
  BY <1>2 DEF Balance, Stop
<1>4. ASSUME Alone PROVE Covered'
  <2>1. \A d \in Clerks : clerk'[d] = IF d = c THEN AtRest ELSE clerk[d]
    BY DEF BooksInv, PayTypes, Stop
  <2>2. ASSUME NEW d \in Clerks PROVE KnowsBalance(clerk[d])'
    <3>1. KnowsBalance(clerk'[d])
      BY <1>4, <2>1, RestBooked DEF BooksInv, Covered
    <3> QED
      BY <1>2, <1>3, <3>1 DEF KnowsBalance, Stop
  <2>3. \A a \in Advances : RepaidOf(a)' <= advance'[a].amount
    BY <1>2, <1>4 DEF BooksInv, Covered, Stop
  <2> QED
    BY <2>2, <2>3 DEF Covered
<1> QED
  BY <1>1, <1>4 DEF BooksInv

LEMMA RestBooks ==
  ASSUME BooksInv, PayTypes', PeriodInv', UNCHANGED payVars PROVE BooksInv'
<1>1. UNCHANGED <<run, slip, advance, repaid, clerk, mishaps>>
  BY DEF payVars
<1>2. (\A a : RepaidOf(a)' = RepaidOf(a)) /\ (\A s : BookedOn(s)' = BookedOn(s))
  BY <1>1, BooksSame
<1>3. (Alone' <=> Alone) /\ (Unstopped' <=> Unstopped)
  BY <1>1 DEF Alone, Unstopped
<1>4. \A d \in Clerks : /\ KnowsBalance(clerk[d])' <=> KnowsBalance(clerk[d])
                        /\ KnowsBooked(clerk[d])' <=> KnowsBooked(clerk[d])
  BY <1>1, KnowsStays
<1>5. (\A r : BooksOn(r)' <=> BooksOn(r)) /\ (\A a : Uncloses(a)' <=> Uncloses(a))
  BY <1>1 DEF BooksOn, Uncloses, Booking
<1>6. Covered => Covered'
  BY <1>1, <1>2, <1>4 DEF Covered
<1>7. BooksKept => BooksKept'
  BY <1>1, <1>2, <1>4, <1>5 DEF BooksKept
<1> QED
  BY <1>3, <1>6, <1>7 DEF BooksInv

LEMMA BooksStep == BooksInv /\ [PayNext]_payVars => BooksInv'
<1> SUFFICES ASSUME BooksInv, [PayNext]_payVars PROVE BooksInv'
  OBVIOUS
<1>1. PayTypes' /\ PeriodInv'
  BY PayTypesStep, PeriodStep DEF BooksInv, Leads
<1>2. CASE UNCHANGED payVars
  BY <1>1, <1>2, RestBooks
<1>3. CASE PayNext
  <2>1. PICK c \in Clerks : PayNext!(c)
    BY <1>3 DEF PayNext
  <2>2. Going(c)
    BY <1>1 DEF Going
  <2>3. ASSUME At(c, "book"), ReadOpen(c) \/ MarkFinalized(c) PROVE BooksInv'
    BY <2>2, <2>3, ReadBooks, RunsBooks
  <2>4. ASSUME NEW a \in Advances, NEW amount \in Amounts, NEW monthly \in Amounts,
               CreateAdvance(a, amount, monthly)
        PROVE  BooksInv'
    BY <1>1, <2>4, CreateBooks
  <2> QED
    BY <1>1, <2>1, <2>2, <2>3, <2>4, AskedBooks, DraftQuiet, RefusedBooks, ChargeBooks, UnchargeBooks,
       SlipsBooks, RunsBooks, DropsBooks, SaveAdvanceBooks, DropAdvanceBooks, CashBooks, CloseBooks,
       UnbookBooks, UncloseBooks, RepaymentBooks, StopBooks
<1> QED
  BY <1>2, <1>3

LEMMA BooksInit == PayInit => BooksInv
<1> SUFFICES ASSUME PayInit PROVE BooksInv
  OBVIOUS
<1>1. PayTypes /\ PeriodInv
  BY PayTypesInit, PeriodInit
<1>2. repaid \in Table
  BY <1>1, PayTables DEF PayTypes
<1>3. \A a \in Advances : RepaidOf(a) = 0
  <2>1. \A a \in Advances : \A k \in Ways : repaid[a][k] = 0
    BY DEF PayInit, Ways
  <2>2. \A a \in Advances : SumOf(repaid[a], Ways) = 0
    BY <2>1, WaysFinite, SumZero
  <2> QED
    BY <1>2, <2>2, BookNat
<1>4. \A s \in Payslips : BookedOn(s) = 0
  <2>1. \A s \in Payslips : \A a \in Advances : Back(repaid, s)[a] = 0
    BY DEF PayInit, Back
  <2>2. \A s \in Payslips : SumOf(Back(repaid, s), Advances) = 0
    BY <2>1, PayrollAssumption, SumZero
  <2> QED
    BY <1>2, <2>2, BookNat
<1>5. Covered
  BY <1>3, RestBooked DEF PayInit, Covered, NoAdvance
<1>6. BooksKept
  BY <1>3, <1>4, RestBooked DEF PayInit, BooksKept, NoAdvance, NoSlip
<1> QED
  BY <1>1, <1>5, <1>6 DEF BooksInv

LEMMA BooksAlways == PaySpec => []BooksInv
BY BooksInit, BooksStep, PTL DEF PaySpec

\* The rows of the payroll are rows, whatever the requests do to one another.
THEOREM PayTypesHold == PaySpec => []PayTypeOK
<1>1. BooksInv => PayTypeOK
  BY DEF BooksInv, PayTypes
<1> QED
  BY <1>1, BooksAlways, PTL

\* No more is taken back of an advance than was given, an advance is closed only
\* when all of it was paid back, and a payslip takes back what was deducted on it.
THEOREM AdvancesStayCovered == PaySpec => []AdvancesAddUp
<1>1. ASSUME BooksInv, Alone PROVE \A a \in Advances : RepaidOf(a) <= advance[a].amount
  BY <1>1 DEF BooksInv, Covered
<1>2. ASSUME BooksInv, Unstopped, \A c \in Clerks : clerk[c] = AtRest
      PROVE  /\ \A a \in Advances : advance[a].status = "closed" => RepaidOf(a) >= advance[a].amount
             /\ \A s \in Payslips : BookedOn(s) <= IF run[s[1]] = "draft" THEN 0 ELSE slip[s].advance
  <2>1. BooksKept /\ \A c \in Clerks : clerk[c].pc = "idle"
    BY <1>2 DEF BooksInv, AtRest
  <2>2. (\A r : ~BooksOn(r)) /\ (\A a : ~Uncloses(a))
    BY <2>1 DEF BooksOn, Uncloses, Booking
  <2> QED
    BY <2>1, <2>2 DEF BooksKept
<1>3. BooksInv => AdvancesAddUp
  BY <1>1, <1>2 DEF AdvancesAddUp
<1> QED
  BY <1>3, BooksAlways, PTL
=============================================================================

---------------------------- MODULE BusinessProofs ----------------------------
(***************************************************************************)
(* Payments, plan changes, payrolls and mailbox polls side by side, for    *)
(* any number of each: a behaviour of the four together is a behaviour of  *)
(* each, so what PlanProofs, PayrollProofs and EaPollProofs prove of one   *)
(* holds of the composition.                                               *)
(***************************************************************************)
EXTENDS MCBusiness, PlanProofs, PayrollProofs, EaPollProofs

\* A step of one part is a step of it, and leaves the other three as they are.
LEMMA BusinessSteps ==
  [BusinessNext]_allVars =>
    /\ [PlanNext]_planVars /\ [ChangeNext]_changeVars
    /\ [PayNext]_payVars /\ [PollNext]_pollVars
<1>1. CASE BusinessNext
  BY <1>1 DEF BusinessNext
<1>2. CASE UNCHANGED allVars
  BY <1>2 DEF allVars
<1> QED
  BY <1>1, <1>2

\* Whatever billing, plan changes, payroll and the mailbox do is a behaviour of each
\* of them, so that every theorem about one is one about the four.
THEOREM BusinessParts ==
  BusinessSpec => PlanSpec /\ ChangeSpec /\ PaySpec /\ PollSpec
<1>1. BusinessInit => PlanInit /\ ChangeInit /\ PayInit /\ PollInit
  BY DEF BusinessInit
<1> QED
  BY <1>1, BusinessSteps, PTL DEF BusinessSpec, PlanSpec, ChangeSpec, PaySpec, PollSpec

\* Payments and subscriptions, changes and coupons, payslips and advances, the cursor
\* and the stored mail keep their types, whatever overlaps or stops.
THEOREM BusinessTypes == BusinessSpec => []BusinessTypeOK
  BY BusinessParts, PlanTypes, ChangeTypes, PayTypesHold, PollTypes, PTL DEF BusinessTypeOK

\* What the composition promises, for any number of payments, changes, payslips and
\* messages: plans are paid for and paid ones applied once, coupons keep their limit,
\* notices tell the plan, nobody is paid twice or gives back more than was advanced,
\* and mail is applied once, with nothing unread behind the cursor.
THEOREM BusinessSafe ==
  BusinessSpec =>
    /\ PaidIsFinal
    /\ [](PaidForPlan /\ ActivatedOnce /\ CouponWithinLimit /\ NoticeIsCurrent)
    /\ [](OncePerPeriod /\ AdvancesAddUp /\ AppliedOnce /\ CursorCovers)
<1>1. PlanSpec => []PaidForPlan /\ []ActivatedOnce
  BY PlansArePaid, PaymentsApplyOnce, PTL
<1>2. ChangeSpec => []CouponWithinLimit /\ []NoticeIsCurrent
  BY CouponsKeepTheLimit, NoticesTellThePlan, PTL
<1>3. PaySpec => PaidIsFinal /\ []OncePerPeriod /\ []AdvancesAddUp
  BY PaidSlipsStand, OneSlipPerPeriod, AdvancesStayCovered, PTL
<1>4. PollSpec => []AppliedOnce /\ []CursorCovers
  BY MailAppliedOnce, CursorPassesHandled, PTL
<1> QED
  BY <1>1, <1>2, <1>3, <1>4, BusinessParts, PTL
=============================================================================

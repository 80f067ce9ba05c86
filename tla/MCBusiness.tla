------------------------------ MODULE MCBusiness ------------------------------
(***************************************************************************)
(* Four parts of KadeHub, checked side by side: the initial state chooses  *)
(* one of them, and the others rest.  Payroll and the mailbox share no     *)
(* rows with any other.  Payments and plan changes do: PlanChanges has     *)
(* everybody's writes of one product's subscription rows, PlanPayments     *)
(* what payments, products turned on and the nightly job make of all of    *)
(* an account's.                                                           *)
(***************************************************************************)
EXTENDS PlanPayments, PlanChanges, Payroll, EaPoll, TLC

CONSTANTS
  one, two,                        \* requests, polls and tabs at work at a time
  plan, extra, bank, scale, topup, shop,
  emp, asset, may1, may2, june

VARIABLE part
allVars == <<part, planVars, changeVars, payVars, pollVars>>

PlanOf == (plan :> scale @@ extra :> topup @@ bank :> shop)
ProductFor == (scale :> "cod" @@ topup :> "cod" @@ shop :> "pos")
PriceList == {10, 20, 30}
GivenAdvances == {1}
AdvancesOf == (1 :> emp)
AssetsOf == (asset :> emp)
Charges == (asset :> 1)
Periods == (may1 :> 5 @@ may2 :> 5 @@ june :> 6)
Branches == [r \in {may1, may2, june} |-> {emp}]
Salaries == (emp :> 2)

Symmetry == Permutations({one, two})

BusinessInit ==
  /\ part \in {"payments", "changes", "payroll", "mailbox"}
  /\ PlanInit /\ ChangeInit /\ PayInit /\ PollInit

BusinessNext ==
  /\ UNCHANGED part
  /\ \/ /\ part = "payments" /\ PlanNext
        /\ UNCHANGED <<changeVars, payVars, pollVars>>
     \/ /\ part = "changes" /\ ChangeNext
        /\ count'.changes + count'.buys + count'.toggles + count'.deaths <= 3
        /\ UNCHANGED <<planVars, payVars, pollVars>>
     \/ /\ part = "payroll" /\ PayNext
        /\ "overlap" \in mishaps' => asked'.requests <= 2
        /\ UNCHANGED <<planVars, changeVars, pollVars>>
     \/ /\ part = "mailbox" /\ PollNext /\ Cardinality(deleted') + expiries' <= 1
        /\ UNCHANGED <<planVars, changeVars, payVars>>

BusinessSpec == BusinessInit /\ [][BusinessNext]_allVars

\* The type invariants of the four parts.
BusinessTypeOK == PlanTypeOK /\ ChangeTypeOK /\ PayTypeOK /\ PollTypeOK
=============================================================================

------------------------------- MODULE MCShops -------------------------------
(***************************************************************************)
(* Cash-on-delivery orders, the stock and credit of a shop, its offline    *)
(* sales, and the roster of its staff, checked side by side: the initial   *)
(* state chooses one of them, and the others rest. The only rows they      *)
(* share are those of a sale, which OfflineSales creates and never reads;  *)
(* its stock and credit are what ShopStock is about.                       *)
(***************************************************************************)
EXTENDS CodOrders, ShopStock, OfflineSales, HrRoster, TLC

CONSTANTS
  o1, o2, one, two, t1, t2,
  tea, rice, loan, cashsale, refill, cart1, cart2,
  ann, bob, short, long, trade

VARIABLE part
shopsVars == <<part, vars, shopVars, offlineVars, rosterVars>>

FirstStock == (tea :> 1 @@ rice :> 1)
Totals == (loan :> 2 @@ cashsale :> 1)
\* The sale on credit has two lines of tea.
LinePapers == (1 :> loan @@ 2 :> loan @@ 3 :> cashsale @@ 4 :> cashsale @@ 5 :> refill)
LineGoods == (1 :> tea @@ 2 :> tea @@ 3 :> tea @@ 4 :> rice @@ 5 :> tea)
LineQuantities == [i \in 1..5 |-> 1]
LeaveFor == (short :> ann @@ long :> ann)
DaysOff == (short :> {1} @@ long :> {1, 2})

Symmetry ==
  Permutations(Orders) \union Permutations({one, two}) \union Permutations(Trackings)

ShopsInit ==
  /\ part \in {"cod", "stock", "offline", "roster"}
  /\ Init /\ ShopInit /\ OfflineInit /\ RosterInit

\* Bound: an order is for one piece at first, and an edit may make it two.
OneAtFirst == \A o \in Orders : order[o] = Absent => lines'[o] <= 1

ShopsNext ==
  /\ UNCHANGED part
  /\ \/ /\ part = "cod" /\ Next /\ OneAtFirst
        /\ UNCHANGED <<shopVars, offlineVars, rosterVars>>
     \/ part = "stock" /\ ShopNext /\ UNCHANGED <<vars, offlineVars, rosterVars>>
     \/ part = "offline" /\ OfflineNext /\ UNCHANGED <<vars, shopVars, rosterVars>>
     \/ /\ part = "roster" /\ RosterNext /\ crossed' = {}
        /\ UNCHANGED <<vars, shopVars, offlineVars>>

ShopsSpec == ShopsInit /\ [][ShopsNext]_shopsVars

\* The type invariants of the four parts.
ShopsTypeOK == TypeOK /\ ShopTypeOK /\ OfflineTypeOK /\ RosterTypeOK
=============================================================================

----------------------------- MODULE PlanChanges -----------------------------
(***************************************************************************)
(* The plan of one product of an account: a super admin changes it         *)
(* (changePlan), with a coupon of limited use, and the account's people    *)
(* are congratulated on an upgrade once (plan-upgrade-notice.service.ts).  *)
(* The same subscription rows are replaced by a purchase                   *)
(* (billing.service.ts), made when the product is turned on, and ended by  *)
(* the nightly job; none of these touches the notices.                     *)
(*                                                                         *)
(* A plan is its monthly price, 0 for none.  Every query of a request is a *)
(* step of its own: nothing holds them together but the conditions in the  *)
(* UPDATEs of redeem and claim.                                            *)
(***************************************************************************)
EXTENDS Naturals, FiniteSets, FiniteSetsExt

CONSTANTS
  Prices,       \* monthly prices of the packages an account can be put on
  OneOff,       \* those of the packages sold once, on top of a plan
  FirstPrice,   \* of the plan a product starts with, 0 for a trial without a package
  MaxUses,      \* coupon.max_uses
  Requests,     \* requests in flight at one time, of super admins and customers
  Tabs,         \* open tabs of the account's people
  MaxChanges,   \* bound: plan changes in all
  MaxBuys,      \* bound: purchases in all
  MaxToggles,   \* bound: times the coupon is switched on or off
  MaxDeaths     \* bound: requests that die half way

ASSUME ChangeAssumption ==
  /\ Prices \subseteq Nat /\ FirstPrice \in Nat
  /\ {MaxUses, MaxChanges, MaxBuys, MaxToggles, MaxDeaths} \subseteq Nat

VARIABLES
  coupon,     \* [on, used]: is_active and used_count
  redeemed,   \* history: changes that got the coupon's price
  plans,      \* the account's subscription rows of the product: [price, status]
  given,      \* history: the price a super admin gave last, and whether it still stands
  unseen,     \* plan_upgrade_notice rows not yet seen: [id, price]
  shown,      \* history: how often each notice was handed out, by id
  request,    \* the locals of each request
  tab,        \* the notice each tab found, 0 for none
  count,      \* [changes, buys, toggles, deaths], for the bounds
  mixed       \* history: what requests that overlapped or died were about

changeVars ==
  <<coupon, redeemed, plans, given, unseen, shown, request, tab, count, mixed>>

NoRequest == [pc |-> "idle"]
NoticeIds == 1..MaxChanges

\* "paid" ends one day; a trial or a free plan the nightly job passes over.
Row(price, status) == [price |-> price, status |-> status]
ActivePrices == {r.price : r \in {q \in plans : q.status # "inactive"}}

ChangeInit ==
  /\ coupon = [on |-> TRUE, used |-> 0] /\ redeemed = 0
  /\ plans = {} /\ unseen = {}
  /\ given = [price |-> 0, stands |-> FALSE]
  /\ shown = [n \in NoticeIds |-> 0]
  /\ request = [a \in Requests |-> NoRequest]
  /\ tab = [b \in Tabs |-> 0]
  /\ count = [changes |-> 0, buys |-> 0, toggles |-> 0, deaths |-> 0]
  /\ mixed = {}

Busy(pcs) == {a \in Requests : request[a].pc \in pcs}
Toggling == {"toggle"}
Changing == {"redeem", "current", "delete", "insert", "notices", "notice"}
Writing == Changing \union {"bought", "first"}
\* What a request that begins now would overlap on the subscription rows.
Overlapped == IF Busy(Writing) # {} THEN {"plan"} ELSE {}
Step(a, pc) == request' = [request EXCEPT ![a].pc = pc]
End(a) == request' = [request EXCEPT ![a] = NoRequest]

-----------------------------------------------------------------------------
(* changePlan.                                                             *)

Valid == coupon.on /\ coupon.used < MaxUses

\* The packages are read, and the coupon is validated if there is one.
BeginChange(a, price, withCoupon) ==
  /\ request[a] = NoRequest /\ count.changes < MaxChanges
  /\ withCoupon => Valid
  /\ count' = [count EXCEPT !.changes = @ + 1]
  /\ request' = [request EXCEPT ![a] = [pc |-> IF withCoupon THEN "redeem" ELSE "current",
                                      price |-> price, before |-> 0, id |-> count'.changes]]
  /\ mixed' = mixed \union Overlapped
                \union (IF withCoupon /\ Busy(Toggling) # {} THEN {"coupon"} ELSE {})
  /\ UNCHANGED <<coupon, redeemed, plans, given, unseen, shown, tab>>

\* Mutant of StillValid: the update goes by the id alone.
StillValidAlways == TRUE

StillValid == Valid

\* The WHERE clause is evaluated on the row as it is then.
Redeem(a) ==
  /\ request[a].pc = "redeem"
  /\ IF StillValid
     THEN /\ coupon' = [coupon EXCEPT !.used = @ + 1]
          /\ redeemed' = redeemed + 1
          /\ Step(a, "current")
     ELSE /\ UNCHANGED <<coupon, redeemed>>
          /\ End(a)
  /\ UNCHANGED <<plans, given, unseen, shown, tab, count, mixed>>

\* findOne: any of the active rows, and the price of its package.
ReadCurrent(a) ==
  /\ request[a].pc = "current"
  /\ \E before \in IF ActivePrices = {} THEN {0} ELSE ActivePrices :
       request' = [request EXCEPT ![a].pc = "delete", ![a].before = before]
  /\ UNCHANGED <<coupon, redeemed, plans, given, unseen, shown, tab, count, mixed>>

DeletePlan(a) ==
  /\ request[a].pc = "delete" /\ Step(a, "insert")
  /\ plans' = {}
  /\ UNCHANGED <<coupon, redeemed, given, unseen, shown, tab, count, mixed>>

InsertPlan(a) ==
  /\ request[a].pc = "insert" /\ Step(a, "notices")
  /\ plans' = plans \union {Row(request[a].price, "paid")}
  /\ given' = [price |-> request[a].price, stands |-> TRUE]
  /\ UNCHANGED <<coupon, redeemed, unseen, shown, tab, count, mixed>>

\* isPlanUpgrade: paying more per month, one-off top-ups aside.
IsUpgrade(a) == request[a].price \notin OneOff /\ request[a].price > request[a].before

\* Mutant of OutOfDate: only an upgrade puts notices out of date.
OutOfDateOnUpgrade(a) == IF IsUpgrade(a) THEN unseen ELSE {}

OutOfDate(a) == unseen

\* planChanged: a notice nobody saw is out of date; an upgrade gets one of its own.
DropNotices(a) ==
  /\ request[a].pc = "notices"
  /\ unseen' = unseen \ OutOfDate(a)
  /\ IF IsUpgrade(a) THEN Step(a, "notice") ELSE End(a)
  /\ UNCHANGED <<coupon, redeemed, plans, given, shown, tab, count, mixed>>

AddNotice(a) ==
  /\ request[a].pc = "notice" /\ End(a)
  /\ unseen' = unseen \union {[id |-> request[a].id, price |-> request[a].price]}
  /\ UNCHANGED <<coupon, redeemed, plans, given, shown, tab, count, mixed>>

\* The request dies; whatever it wrote stays.
ChangeDies(a) ==
  /\ request[a] # NoRequest /\ count.deaths < MaxDeaths
  /\ count' = [count EXCEPT !.deaths = @ + 1]
  /\ mixed' = IF request[a].pc \in Writing THEN mixed \union {"plan"} ELSE mixed
  /\ End(a)
  /\ UNCHANGED <<coupon, redeemed, plans, given, unseen, shown, tab>>

-----------------------------------------------------------------------------
(* Who else writes the subscription rows.                                  *)

\* activateSubscription of a plan (a top-up replaces none): the rows are deleted,
\* then inserted.
DeleteForBought(a, price) ==
  /\ request[a] = NoRequest /\ count.buys < MaxBuys /\ price \notin OneOff
  /\ count' = [count EXCEPT !.buys = @ + 1]
  /\ request' = [request EXCEPT ![a] = [pc |-> "bought", price |-> price]]
  /\ plans' = {} /\ given' = [given EXCEPT !.stands = FALSE]
  /\ mixed' = mixed \union Overlapped
  /\ UNCHANGED <<coupon, redeemed, unseen, shown, tab>>

InsertBought(a) ==
  /\ request[a].pc = "bought" /\ End(a)
  /\ plans' = plans \union {Row(request[a].price, "paid")}
  /\ UNCHANGED <<coupon, redeemed, given, unseen, shown, tab, count, mixed>>

\* enableProduct and activateTrial: a product that never had a row gets one.
FindNoPlan(a) ==
  /\ request[a] = NoRequest /\ plans = {}
  /\ request' = [request EXCEPT ![a] = [pc |-> "first", price |-> FirstPrice]]
  /\ mixed' = mixed \union Overlapped
  /\ UNCHANGED <<coupon, redeemed, plans, given, unseen, shown, tab, count>>

InsertFree(a) ==
  /\ request[a].pc = "first" /\ End(a)
  /\ plans' = plans \union {Row(request[a].price, "free")}
  /\ UNCHANGED <<coupon, redeemed, given, unseen, shown, tab, count, mixed>>

\* handlePlanExpiry ends a row whose time is over. A row that was deleted since the
\* job read it would come back inactive, which is nothing to what is active.
PlanLapses(row) ==
  /\ row.status = "paid"
  /\ plans' = (plans \ {row}) \union {Row(row.price, "inactive")}
  /\ given' = [given EXCEPT !.stands = FALSE]
  /\ UNCHANGED <<coupon, redeemed, unseen, shown, request, tab, count, mixed>>

-----------------------------------------------------------------------------
(* toggleCoupon, and claim.                                                *)

BeginToggle(a) ==
  /\ request[a] = NoRequest /\ count.toggles < MaxToggles
  /\ count' = [count EXCEPT !.toggles = @ + 1]
  /\ request' = [request EXCEPT ![a] = [pc |-> "toggle", read |-> coupon]]
  /\ mixed' = IF Busy({"redeem", "toggle"}) # {} THEN mixed \union {"coupon"} ELSE mixed
  /\ UNCHANGED <<coupon, redeemed, plans, given, unseen, shown, tab>>

\* save() of the row as it was read, used_count with it.
SaveToggle(a) ==
  /\ request[a].pc = "toggle" /\ End(a)
  /\ coupon' = [request[a].read EXCEPT !.on = ~@]
  /\ UNCHANGED <<redeemed, plans, given, unseen, shown, tab, count, mixed>>

Oldest == Min({n.id : n \in unseen})

FindNotice(b) ==
  /\ tab[b] = 0 /\ unseen # {}
  /\ tab' = [tab EXCEPT ![b] = Oldest]
  /\ UNCHANGED <<coupon, redeemed, plans, given, unseen, shown, request, count, mixed>>

Told(found) == found # {}

\* Shown to the one whose UPDATE found it unseen.
MarkSeen(b) ==
  LET found == {n \in unseen : n.id = tab[b]}
  IN /\ tab[b] # 0
     /\ tab' = [tab EXCEPT ![b] = 0]
     /\ unseen' = unseen \ found
     /\ shown' = IF Told(found) THEN [shown EXCEPT ![tab[b]] = @ + 1] ELSE shown
     /\ UNCHANGED <<coupon, redeemed, plans, given, request, count, mixed>>

ChangeNext ==
  \/ \E a \in Requests :
       \/ \E price \in Prices, withCoupon \in BOOLEAN : BeginChange(a, price, withCoupon)
       \/ Redeem(a) \/ ReadCurrent(a) \/ DeletePlan(a) \/ InsertPlan(a)
       \/ DropNotices(a) \/ AddNotice(a) \/ ChangeDies(a)
       \/ BeginToggle(a) \/ SaveToggle(a)
       \/ \E price \in Prices : DeleteForBought(a, price)
       \/ InsertBought(a) \/ FindNoPlan(a) \/ InsertFree(a)
  \/ \E row \in plans : PlanLapses(row)
  \/ \E b \in Tabs : FindNotice(b) \/ MarkSeen(b)

ChangeSpec == ChangeInit /\ [][ChangeNext]_changeVars

-----------------------------------------------------------------------------
(* Properties.                                                             *)

Coupon == [on: BOOLEAN, used: Nat]
Notice == [id: NoticeIds, price: Prices]
FirstOrBought == Prices \union {FirstPrice}
SubRow == [price: FirstOrBought, status: {"free", "paid", "inactive"}]

\* The coupon's and the notices' rows, and the locals.
ChangeTypeOK ==
  /\ coupon \in Coupon /\ redeemed \in Nat
  /\ plans \subseteq SubRow /\ unseen \subseteq Notice
  /\ given \in [price: Prices \union {0}, stands: BOOLEAN]
  /\ shown \in [NoticeIds -> Nat] /\ tab \in [Tabs -> NoticeIds \union {0}]
  /\ request \in [Requests -> {NoRequest} \union [pc: Toggling, read: Coupon]
                  \union [pc: {"bought", "first"}, price: FirstOrBought]
                  \union [pc: Changing, price: Prices, before: FirstOrBought \union {0},
                          id: NoticeIds]]
  /\ count \in [changes: Nat, buys: Nat, toggles: Nat, deaths: Nat]
  /\ mixed \subseteq {"plan", "coupon"}

\* The comment in changePlan: concurrent redemptions of a limited coupon do not
\* slip past the limit; unless the coupon was toggled at the same time.
CouponWithinLimit == "coupon" \notin mixed => redeemed <= MaxUses

\* The comments of claim and planChanged: two tabs opening together do not both
\* show a notice, and one not yet seen is replaced by every plan a super admin sets.
\* When nobody is writing the account's rows, it tells what a super admin gave last,
\* and that is the plan the account is on unless a purchase replaced it or it ran out
\* since. Requests that overlapped or died may leave a notice of another plan.
NoticeIsCurrent ==
  /\ \A n \in NoticeIds : shown[n] <= 1
  /\ (Busy(Writing) = {} /\ "plan" \notin mixed) =>
       \A n \in unseen :
         /\ n.price = given.price
         /\ given.stands => ActivePrices = {n.price}
=============================================================================

------------------------------ MODULE ShopStock ------------------------------
(***************************************************************************)
(* A shop's stock and the credit it gives (modules/pos, inventory,         *)
(* supplier, credit).  A sale checks the stock, is saved, and announces    *)
(* itself; the stock comes down later, in a listener nobody waits for.     *)
(* Voids, deliveries, corrections and payments on credit read, and write   *)
(* in other statements, with no transaction around them.                   *)
(***************************************************************************)
EXTENDS Integers, FiniteSets, FiniteSetsExt

CONSTANTS
  Goods,         \* products
  Stocked,       \* their stock at first
  Sales,         \* sales that may be made
  OnCredit,      \* the sales with payment_method CREDIT
  Total,         \* their total_amount
  Purchases,     \* purchase orders that may be made
  Items,         \* the lines of sales and orders: sale_item, purchase_order_item
  PaperOf,       \* the sale or order of a line
  GoodOf,        \* its product; a sale or order may have several lines of one
  Quantity,      \* its quantity
  Tills,         \* requests in flight at one time
  MaxServed,     \* bound: requests in all
  MaxBroken      \* bound: requests or listeners that stop half way

ASSUME ShopAssumption ==
  /\ Stocked \in [Goods -> Nat]
  /\ OnCredit \subseteq Sales /\ Total \in [Sales -> Nat]
  /\ Sales \cap Purchases = {} /\ IsFiniteSet(Items)
  /\ PaperOf \in [Items -> Sales \union Purchases]
  /\ GoodOf \in [Items -> Goods] /\ Quantity \in [Items -> Nat \ {0}]
  /\ {MaxServed, MaxBroken} \subseteq Nat

VARIABLES
  shelf,      \* inventory.quantity
  sale,       \* sale.status and whether its items are saved
  credit,     \* credit_sale: amount_paid and status
  received,   \* credit_payment: their sum for each sale
  purchase,   \* purchase_order.status and whether its items are saved
  till,       \* the locals of each request
  falling,    \* runs of the SALE_COMPLETED listener: the lines still to take off
  adjusted,   \* history: what adjustStock added to each product
  served,     \* [calls, broken], for the bounds
  muddled     \* history: products, sales and orders whose requests overlapped,
              \* stopped or were repeated, and products with two lines on sale

shopVars == <<shelf, sale, credit, received, purchase, till, falling, adjusted, served, muddled>>

Quiet == [pc |-> "idle"]
NoPaper == [status |-> "none", items |-> FALSE]
NoCredit == [paid |-> 0, status |-> "none"]

ShopInit ==
  /\ shelf = Stocked
  /\ sale = [s \in Sales |-> NoPaper] /\ purchase = [o \in Purchases |-> NoPaper]
  /\ credit = [s \in Sales |-> NoCredit] /\ received = [s \in Sales |-> 0]
  /\ till = [c \in Tills |-> Quiet] /\ falling = {}
  /\ adjusted = [g \in Goods |-> 0]
  /\ served = [calls |-> 0, broken |-> 0] /\ muddled = {}

LinesOf(paper) == {i \in Items : PaperOf[i] = paper}
Moving == {"check", "items", "credit", "restore", "receive"}

-----------------------------------------------------------------------------
(* Requests in general.                                                    *)

\* What two requests must not be about at a time: a sale, an order, a product's
\* correction.
Concerns(locals) ==
  (IF "sale" \in DOMAIN locals THEN {<<"sale", locals.sale>>} ELSE {})
    \union (IF "purchase" \in DOMAIN locals THEN {<<"purchase", locals.purchase>>} ELSE {})
    \union (IF "good" \in DOMAIN locals THEN {<<"good", locals.good>>} ELSE {})
Adjusting == {c \in Tills : till[c].pc = "adjust"}
StockMoves == falling # {} \/ \E c \in Tills : till[c].pc \in Moving

\* The lines of sales that were begun, and are not off the stock yet.
OnSale ==
  (UNION {LinesOf(till[c].sale) : c \in {d \in Tills : till[d].pc \in {"check", "items", "credit"}}})
    \union (UNION {l.todo : l \in falling})

\* The products of lines that are on sale together with another line of theirs.
Rushed(lines) ==
  {<<"rush", GoodOf[i]>> : i \in {j \in lines :
     \E k \in (OnSale \union lines) \ {j} : GoodOf[k] = GoodOf[j]}}

Serve(c, locals, again) ==
  /\ till[c] = Quiet /\ served.calls < MaxServed
  /\ served' = [served EXCEPT !.calls = @ + 1]
  /\ till' = [till EXCEPT ![c] = locals]
  /\ muddled' = muddled \union (IF again THEN Concerns(locals) ELSE {})
       \union (UNION {Concerns(locals) \cap Concerns(till[d]) : d \in Tills})
       \union (IF locals.pc = "adjust" /\ StockMoves THEN Concerns(locals) ELSE {})
       \union (IF locals.pc \in Moving THEN UNION {Concerns(till[d]) : d \in Adjusting} ELSE {})
       \union (IF locals.pc = "check" THEN Rushed(locals.todo) ELSE {})
  /\ UNCHANGED <<shelf, sale, credit, received, purchase, falling, adjusted>>

On(c, pc) == till[c].pc = pc
Go(c, pc) == till' = [till EXCEPT ![c].pc = pc]
Serves(c) == till' = [till EXCEPT ![c] = Quiet]

\* A query throws, or the process dies; whatever was written stays.
Break(c) ==
  /\ till[c] # Quiet /\ served.broken < MaxBroken
  /\ served' = [served EXCEPT !.broken = @ + 1]
  /\ muddled' = muddled \union Concerns(till[c])
  /\ Serves(c)
  /\ UNCHANGED <<shelf, sale, credit, received, purchase, falling, adjusted>>

-----------------------------------------------------------------------------
(* createSale and its listener.                                            *)

BeginSale(c, s) ==
  /\ sale[s] = NoPaper
  /\ \A d \in Tills : till[d].pc \in {"check", "items"} => till[d].sale # s
  /\ Serve(c, [pc |-> "check", sale |-> s, todo |-> LinesOf(s)], FALSE)

FallsShort(i) == shelf[GoodOf[i]] < Quantity[i]

\* One line after the other is looked up, each for itself; a line that falls short
\* refuses the sale.
CheckLine(c) ==
  \E i \in till[c].todo :
    /\ On(c, "check")
    /\ IF FallsShort(i)
       THEN Serves(c) ELSE till' = [till EXCEPT ![c].todo = @ \ {i}]
    /\ UNCHANGED <<shelf, sale, credit, received, purchase, falling, adjusted, served, muddled>>

InsertSale(c) ==
  /\ On(c, "check") /\ till[c].todo = {} /\ Go(c, "items")
  /\ sale' = [sale EXCEPT ![till[c].sale].status = "completed"]
  /\ UNCHANGED <<shelf, credit, received, purchase, falling, adjusted, served, muddled>>

\* emit() starts the listener; its queries come later.
Announced(s) == falling \union {[sale |-> s, todo |-> LinesOf(s)]}

InsertItems(c) ==
  LET s == till[c].sale
  IN /\ On(c, "items")
     /\ sale' = [sale EXCEPT ![s].items = TRUE]
     /\ IF s \in OnCredit THEN Go(c, "credit") /\ UNCHANGED falling
                          ELSE Serves(c) /\ falling' = Announced(s)
     /\ UNCHANGED <<shelf, credit, received, purchase, adjusted, served, muddled>>

InsertCredit(c) ==
  LET s == till[c].sale
  IN /\ On(c, "credit") /\ Serves(c)
     /\ credit' = [credit EXCEPT ![s].status = "outstanding"]
     /\ falling' = Announced(s)
     /\ UNCHANGED <<shelf, sale, received, purchase, adjusted, served, muddled>>

Decrement(l, i) ==
  /\ shelf' = [shelf EXCEPT ![GoodOf[i]] = @ - Quantity[i]]
  /\ falling' = (falling \ {l})
                  \union (IF l.todo = {i} THEN {} ELSE {[l EXCEPT !.todo = @ \ {i}]})
  /\ UNCHANGED <<sale, credit, received, purchase, till, adjusted, served, muddled>>

\* The listener dies with what it had not taken off.
LoseListener(l) ==
  /\ served.broken < MaxBroken
  /\ served' = [served EXCEPT !.broken = @ + 1]
  /\ falling' = falling \ {l}
  /\ muddled' = muddled \union Concerns(l)
  /\ UNCHANGED <<shelf, sale, credit, received, purchase, till, adjusted>>

-----------------------------------------------------------------------------
(* voidSale, receiveOrder, cancelOrder, adjustStock.                       *)

\* Mutant of Voidable: a voided sale too.
VoidableAny(s) == sale[s] # NoPaper

Voidable(s) == sale[s].status = "completed"

BeginVoid(c, s) ==
  /\ Voidable(s)
  /\ Serve(c, [pc |-> "restore", sale |-> s,
               todo |-> IF sale[s].items THEN LinesOf(s) ELSE {}], FALSE)

RestoreLine(c) ==
  \E i \in till[c].todo :
    /\ On(c, "restore")
    /\ shelf' = [shelf EXCEPT ![GoodOf[i]] = @ + Quantity[i]]
    /\ till' = [till EXCEPT ![c].todo = @ \ {i}]
    /\ UNCHANGED <<sale, credit, received, purchase, falling, adjusted, served, muddled>>

MarkVoided(c) ==
  /\ On(c, "restore") /\ till[c].todo = {} /\ Serves(c)
  /\ sale' = [sale EXCEPT ![till[c].sale].status = "voided"]
  /\ UNCHANGED <<shelf, credit, received, purchase, falling, adjusted, served, muddled>>

\* createOrder: the order, then its items.
BeginOrder(c, o) ==
  /\ purchase[o] = NoPaper
  /\ Serve(c, [pc |-> "purchase", purchase |-> o], FALSE)

InsertOrder(c) ==
  /\ On(c, "purchase") /\ Go(c, "orderItems")
  /\ purchase' = [purchase EXCEPT ![till[c].purchase].status = "pending"]
  /\ UNCHANGED <<shelf, sale, credit, received, falling, adjusted, served, muddled>>

InsertOrderItems(c) ==
  /\ On(c, "orderItems") /\ Serves(c)
  /\ purchase' = [purchase EXCEPT ![till[c].purchase].items = TRUE]
  /\ UNCHANGED <<shelf, sale, credit, received, falling, adjusted, served, muddled>>

\* Whatever the order's status is: an order can be received again.
BeginReceive(c, o) ==
  /\ purchase[o] # NoPaper
  /\ Serve(c, [pc |-> "receive", purchase |-> o,
               todo |-> IF purchase[o].items THEN LinesOf(o) ELSE {}],
           purchase[o].status = "received")

ReceiveLine(c) ==
  \E i \in till[c].todo :
    /\ On(c, "receive")
    /\ shelf' = [shelf EXCEPT ![GoodOf[i]] = @ + Quantity[i]]
    /\ till' = [till EXCEPT ![c].todo = @ \ {i}]
    /\ UNCHANGED <<sale, credit, received, purchase, falling, adjusted, served, muddled>>

MarkReceived(c) ==
  /\ On(c, "receive") /\ till[c].todo = {} /\ Serves(c)
  /\ purchase' = [purchase EXCEPT ![till[c].purchase].status = "received"]
  /\ UNCHANGED <<shelf, sale, credit, received, falling, adjusted, served, muddled>>

BeginCancelOrder(c, o) ==
  /\ purchase[o] # NoPaper
  /\ Serve(c, [pc |-> "cancel", purchase |-> o], purchase[o].status = "received")

MarkCancelled(c) ==
  /\ On(c, "cancel") /\ Serves(c)
  /\ purchase' = [purchase EXCEPT ![till[c].purchase].status = "cancelled"]
  /\ UNCHANGED <<shelf, sale, credit, received, falling, adjusted, served, muddled>>

\* The new quantity is worked out from the one that was read.
BeginAdjust(c, g, by) ==
  /\ shelf[g] + by >= 0
  /\ Serve(c, [pc |-> "adjust", good |-> g, by |-> by, to |-> shelf[g] + by], FALSE)

SaveStock(c) ==
  LET g == till[c].good
  IN /\ On(c, "adjust") /\ Serves(c)
     /\ shelf' = [shelf EXCEPT ![g] = till[c].to]
     /\ adjusted' = [adjusted EXCEPT ![g] = @ + till[c].by]
     /\ UNCHANGED <<sale, credit, received, purchase, falling, served, muddled>>

-----------------------------------------------------------------------------
(* recordPayment.                                                          *)

\* Mutant of MayPay: more than is owed.
MayPayAny(s, paid) == credit[s].status \notin {"none", "paid"}

MayPay(s, paid) == credit[s].status \notin {"none", "paid"} /\ paid <= Total[s]

BeginPayment(c, s, amount) ==
  LET paid == credit[s].paid + amount
  IN /\ MayPay(s, paid)
     /\ Serve(c, [pc |-> "payment", sale |-> s, amount |-> amount,
                  to |-> [paid |-> paid,
                          status |-> IF paid >= Total[s] THEN "paid" ELSE "partial"]], FALSE)

Books(s, amount) == received[s] + amount

InsertPayment(c) ==
  /\ On(c, "payment") /\ Go(c, "balance")
  /\ received' = [received EXCEPT ![till[c].sale] = Books(till[c].sale, till[c].amount)]
  /\ UNCHANGED <<shelf, sale, credit, purchase, falling, adjusted, served, muddled>>

SaveCredit(c) ==
  /\ On(c, "balance") /\ Serves(c)
  /\ credit' = [credit EXCEPT ![till[c].sale] = till[c].to]
  /\ UNCHANGED <<shelf, sale, received, purchase, falling, adjusted, served, muddled>>

-----------------------------------------------------------------------------
ShopNext ==
  \/ \E c \in Tills :
       \/ \E s \in Sales : \/ BeginSale(c, s) \/ BeginVoid(c, s)
                           \/ \E amount \in 1..Total[s] : BeginPayment(c, s, amount)
       \/ \E o \in Purchases : BeginOrder(c, o) \/ BeginReceive(c, o) \/ BeginCancelOrder(c, o)
       \/ \E g \in Goods, by \in {-1, 1} : BeginAdjust(c, g, by)
       \/ On(c, "check") /\ (CheckLine(c) \/ InsertSale(c))
       \/ InsertItems(c) \/ InsertCredit(c)
       \/ On(c, "restore") /\ (RestoreLine(c) \/ MarkVoided(c))
       \/ InsertOrder(c) \/ InsertOrderItems(c)
       \/ On(c, "receive") /\ (ReceiveLine(c) \/ MarkReceived(c))
       \/ MarkCancelled(c) \/ SaveStock(c) \/ InsertPayment(c) \/ SaveCredit(c)
       \/ Break(c)
  \/ \E l \in falling : LoseListener(l) \/ \E i \in l.todo : Decrement(l, i)

ShopSpec == ShopInit /\ [][ShopNext]_shopVars

-----------------------------------------------------------------------------
(* Properties.                                                             *)

Papers == [status: {"none", "completed", "voided", "pending", "received", "cancelled"},
           items: BOOLEAN]

\* The rows, and what the listeners still have to do.
ShopTypeOK ==
  /\ shelf \in [Goods -> Int] /\ adjusted \in [Goods -> Int]
  /\ sale \in [Sales -> Papers] /\ purchase \in [Purchases -> Papers]
  /\ credit \in [Sales -> [paid: Nat, status: {"none", "outstanding", "partial", "paid"}]]
  /\ received \in [Sales -> Nat]
  /\ falling \subseteq [sale: Sales, todo: SUBSET Items]

Soiled(g) ==
  \/ <<"good", g>> \in muddled
  \/ \E i \in Items : /\ GoodOf[i] = g
                       /\ {<<"sale", PaperOf[i]>>, <<"purchase", PaperOf[i]>>} \cap muddled # {}

Pieces(g, papers) ==
  MapThenSumSet(LAMBDA i : Quantity[i], {i \in Items : GoodOf[i] = g /\ PaperOf[i] \in papers})

\* Once everything is done, the stock of a product is what the papers say: the
\* first stock, corrections, orders received, less sales not voided. However sales,
\* voids, deliveries and the listeners interleaved, unless one stopped, or a
\* correction was made meanwhile, or two requests were about one paper. And no
\* more is sold than there is, while no two lines of a product are on sale at a
\* time: of sales that overlap, where a sale ends with its listener and not with
\* its answer, or of one sale, whose lines are checked each for itself.
StockAddsUp ==
  /\ (falling = {} /\ \A c \in Tills : till[c] = Quiet) =>
       \A g \in Goods : ~Soiled(g) =>
         shelf[g] = Stocked[g] + adjusted[g]
           + Pieces(g, {o \in Purchases : purchase[o].status = "received"})
           - Pieces(g, {s \in Sales : sale[s].status = "completed"})
  /\ \A g \in Goods : ~Soiled(g) /\ <<"rush", g>> \notin muddled => shelf[g] >= 0

\* What a customer on credit paid is what was taken from his balance, never more
\* than he owed, and he is paid up when nothing is left; unless two payments of
\* his overlapped or one stopped.
CreditAddsUp ==
  \A s \in OnCredit :
    (<<"sale", s>> \notin muddled /\ \A c \in Tills : <<"sale", s>> \notin Concerns(till[c])) =>
      /\ received[s] = credit[s].paid /\ received[s] <= Total[s]
      /\ credit[s].status = "paid" => received[s] = Total[s]
=============================================================================

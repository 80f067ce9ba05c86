----------------------------- MODULE OfflineSales -----------------------------
(***************************************************************************)
(* Sales made while the shop is offline (frontend hooks/useOfflineSync.ts  *)
(* and the checkout of Cart.tsx): they are queued in the browser, and      *)
(* posted one after the other when a page opens or the browser comes       *)
(* online again.  The queue is read at first and written back at the end.  *)
(***************************************************************************)
EXTENDS Naturals, FiniteSets

CONSTANTS
  Carts,        \* sales made offline
  Syncs,        \* runs of sync() at one time, in all tabs
  MaxRuns,      \* bound: runs of sync()
  MaxClosed     \* bound: pages closed, or answers lost, while a sync posts

ASSUME OfflineAssumption == {MaxRuns, MaxClosed} \subseteq Nat

VARIABLES
  queue,     \* localStorage, offline_sale_queue
  online,
  sync,      \* the locals of each run: what it read, has to post, and failed
  sold,      \* sales the server made of each cart
  runs, closed,
  kept,      \* history: the carts that were queued
  unsure     \* history: carts queued during a sync, posted by two, by one that
             \* was closed, or without an answer

offlineVars == <<queue, online, sync, sold, runs, closed, kept, unsure>>

Asleep == [todo |-> {}, failed |-> {}, on |-> FALSE]

OfflineInit ==
  /\ queue = {} /\ online = FALSE
  /\ sync = [r \in Syncs |-> Asleep]
  /\ sold = [k \in Carts |-> 0]
  /\ runs = 0 /\ closed = 0 /\ kept = {} /\ unsure = {}

Running == {r \in Syncs : sync[r].on}

\* checkout, offline: the sale joins the queue of that moment.
QueueSale(k) ==
  /\ ~online /\ k \notin kept
  /\ queue' = queue \union {k} /\ kept' = kept \union {k}
  /\ unsure' = IF Running = {} THEN unsure ELSE unsure \union {k}
  /\ UNCHANGED <<online, sync, sold, runs, closed>>

ComeOnline ==
  /\ ~online /\ online' = TRUE
  /\ UNCHANGED <<queue, sync, sold, runs, closed, kept, unsure>>

GoOffline ==
  /\ online /\ online' = FALSE
  /\ UNCHANGED <<queue, sync, sold, runs, closed, kept, unsure>>

\* On the event, and when a page opens online; another run may be at work.
BeginSync(r) ==
  /\ online /\ queue # {} /\ ~sync[r].on /\ runs < MaxRuns
  /\ runs' = runs + 1
  /\ sync' = [sync EXCEPT ![r] = [todo |-> queue, failed |-> {}, on |-> TRUE]]
  /\ unsure' = IF Running = {} THEN unsure ELSE unsure \union queue
  /\ UNCHANGED <<queue, online, sold, closed, kept>>

Posted(r, k, failed) ==
  sync' = [sync EXCEPT ![r].todo = @ \ {k},
                       ![r].failed = IF failed THEN @ \union {k} ELSE @]

PostSale(r, k) ==
  /\ online /\ Posted(r, k, FALSE)
  /\ sold' = [sold EXCEPT ![k] = @ + 1]
  /\ UNCHANGED <<queue, online, runs, closed, kept, unsure>>

\* Refused, out of stock for one, or not reached.
PostFails(r, k) ==
  /\ Posted(r, k, TRUE)
  /\ UNCHANGED <<queue, online, sold, runs, closed, kept, unsure>>

\* The sale is made, and the answer does not arrive.
LoseAnswer(r, k) ==
  /\ online /\ closed < MaxClosed /\ Posted(r, k, TRUE)
  /\ closed' = closed + 1
  /\ sold' = [sold EXCEPT ![k] = @ + 1]
  /\ unsure' = unsure \union {k}
  /\ UNCHANGED <<queue, online, runs, kept>>

\* Mutants of Requeued: the queue is emptied; it is left as it is.
RequeuedNone(r) == {}
RequeuedAll(r) == queue

\* What failed is the new queue.
Requeued(r) == sync[r].failed

EndSync(r) ==
  /\ sync[r].on /\ sync[r].todo = {}
  /\ queue' = Requeued(r)
  /\ sync' = [sync EXCEPT ![r] = Asleep]
  /\ UNCHANGED <<online, sold, runs, closed, kept, unsure>>

ClosePage(r) ==
  /\ sync[r].on /\ closed < MaxClosed
  /\ closed' = closed + 1
  /\ unsure' = unsure \union (queue \ sync[r].todo)
  /\ sync' = [sync EXCEPT ![r] = Asleep]
  /\ UNCHANGED <<queue, online, sold, runs, kept>>

OfflineNext ==
  \/ \E k \in Carts : QueueSale(k)
  \/ ComeOnline \/ GoOffline
  \/ \E r \in Syncs :
       \/ BeginSync(r) \/ EndSync(r) \/ ClosePage(r)
       \/ \E k \in sync[r].todo : PostSale(r, k) \/ PostFails(r, k) \/ LoseAnswer(r, k)

OfflineSpec == OfflineInit /\ [][OfflineNext]_offlineVars

-----------------------------------------------------------------------------
(* Properties.                                                             *)

\* The queue and the locals of the runs.
OfflineTypeOK ==
  /\ queue \subseteq kept /\ kept \subseteq Carts /\ unsure \subseteq Carts
  /\ sync \in [Syncs -> [todo: SUBSET Carts, failed: SUBSET Carts, on: BOOLEAN]]
  /\ sold \in [Carts -> Nat] /\ online \in BOOLEAN

\* A sale made offline is in the queue until the server made it, through refusals,
\* lost answers and closed pages; unless it was queued while a sync was at work,
\* which writes back what it read.
SaleKept == \A k \in kept \ unsure : k \in queue \/ sold[k] > 0

\* The server makes it once: a sale that was made leaves the queue with the run that
\* posted it. Two runs at a time, a closed page or a lost answer post it again.
SoldOnce == \A k \in Carts \ unsure : sold[k] <= 1
=============================================================================

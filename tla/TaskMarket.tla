----------------------------- MODULE TaskMarket -----------------------------
(***************************************************************************)
(* The tasks market (modules/tasks, and the account deletion of            *)
(* super-admin/tasks-cleanup.ts): posters publish tasks, taskers make      *)
(* offers, one offer is accepted, the work is marked complete, and the     *)
(* task is closed by its poster or, after seven days, by an hourly job.    *)
(*                                                                         *)
(* A handler reads rows, checks them, and writes later; only acceptOffer   *)
(* and closeTask look again when they write.  Each such pair is two        *)
(* actions here, so every interleaving of requests is a behaviour.         *)
(***************************************************************************)
EXTENDS Naturals, FiniteSets

CONSTANTS
  Tasks,          \* posted tasks
  Taskers,        \* people who make offers
  Offers,         \* offers that may be made; the columns below never change
  OfferBy,        \* task_offer.tasker_id
  OfferFor,       \* task_offer.task_id
  Calls,          \* requests in flight at one time
  hourly,         \* the run of autoCloseCompleted
  Nobody,         \* NULL in assigned_offer_id and assigned_tasker_id
  EditsOverlap,   \* another write of a task may commit between the read and
                  \* the save of an edit of it
  MaxCalls,       \* bound: requests in all
  MaxFailures     \* bound: handlers that die half way

ASSUME MarketAssumption ==
  /\ OfferBy \in [Offers -> Taskers] /\ OfferFor \in [Offers -> Tasks]
  /\ Nobody \notin Offers \union Taskers
  /\ hourly \notin Calls
  /\ EditsOverlap \in BOOLEAN
  /\ IsFiniteSet(Calls) /\ MaxCalls \in Nat /\ MaxFailures \in Nat

VARIABLES
  task,       \* the rows of task; aged: completed_at is over seven days ago
  offer,      \* task_offer.status, "none" when there is no such row
  done,       \* tasker_profile.completed_count
  call,       \* the locals of each request, and of the hourly job
  left,       \* taskers whose account was deleted
  called,     \* requests begun, for the bound
  failed,     \* handlers that died, for the bound
  closings,   \* history: how often a task went to closed while this tasker was
              \* the one hired for it
  uncounted   \* history: taskers with a closing that nobody may have counted,
              \* or two that were counted at a time

marketVars == <<task, offer, done, call, left, called, failed, closings, uncounted>>

Handlers == Calls \union {hourly}
TaskStatuses == {"open", "assigned", "completed", "closed", "cancelled", "gone"}
OfferStatuses == {"none", "pending", "accepted", "rejected", "withdrawn"}

Posted == [status |-> "open", offer |-> Nobody, tasker |-> Nobody, aged |-> FALSE]
NoCall == [pc |-> "idle"]
Rest == <<done, left, called, failed, closings, uncounted>>

MarketInit ==
  /\ task = [t \in Tasks |-> Posted]
  /\ offer = [o \in Offers |-> "none"]
  /\ done = [u \in Taskers |-> 0]
  /\ call = [h \in Handlers |-> NoCall]
  /\ left = {} /\ called = 0 /\ failed = 0
  /\ closings = [u \in Taskers |-> 0] /\ uncounted = {}

-----------------------------------------------------------------------------
(* Requests: the reads and the early returns.                              *)

Begin(c, locals) ==
  /\ call[c] = NoCall /\ called < MaxCalls
  /\ called' = called + 1
  /\ call' = [call EXCEPT ![c] = locals]
  /\ UNCHANGED <<task, offer, done, left, failed, closings, uncounted>>

HasPending(t, u) == \E o \in Offers : offer[o] = "pending" /\ OfferFor[o] = t /\ OfferBy[o] = u

BeginOffer(c, o) ==
  /\ OfferBy[o] \notin left /\ offer[o] = "none"
  /\ \A d \in Calls : call[d].pc = "offer" => call[d].offer # o
  /\ task[OfferFor[o]].status = "open" /\ ~HasPending(OfferFor[o], OfferBy[o])
  /\ Begin(c, [pc |-> "offer", offer |-> o])

BeginWithdraw(c, o) ==
  /\ OfferBy[o] \notin left /\ offer[o] = "pending"
  /\ Begin(c, [pc |-> "withdraw", offer |-> o])

BeginAccept(c, o) ==
  /\ offer[o] = "pending" /\ task[OfferFor[o]].status = "open"
  /\ Begin(c, [pc |-> "accept", offer |-> o])

BeginEdit(c, t) ==
  /\ task[t].status = "open"
  /\ Begin(c, [pc |-> "edit", task |-> t, seen |-> task[t]])

\* cancel and adminCancel
BeginCancel(c, t) ==
  /\ task[t].status \in {"open", "assigned"}
  /\ Begin(c, [pc |-> "cancelOffers", task |-> t])

BeginComplete(c, t) ==
  /\ task[t].status = "assigned" /\ task[t].tasker \notin left \union {Nobody}
  /\ Begin(c, [pc |-> "complete", task |-> t])

Closing(t, u, due) == [pc |-> "close", task |-> t, tasker |-> u, due |-> due]

BeginConfirm(c, t) ==
  /\ task[t].status \in {"assigned", "completed"}
  /\ Begin(c, Closing(t, task[t].tasker, {}))

\* The hourly job reads what is due, and then closes one after the other.
FindDue ==
  LET due == {t \in Tasks : task[t].status = "completed" /\ task[t].aged}
      rows == {[task |-> t, tasker |-> task[t].tasker] : t \in due}
  IN /\ call[hourly] = NoCall
     /\ \E row \in rows :
          call' = [call EXCEPT ![hourly] = Closing(row.task, row.tasker, rows \ {row})]
     /\ UNCHANGED <<task, offer>> /\ UNCHANGED Rest

-----------------------------------------------------------------------------
(* Requests: the writes.                                                   *)

Return(h) == call' = [call EXCEPT ![h] = NoCall]

MakeOffer(c) ==
  /\ call[c].pc = "offer" /\ Return(c)
  /\ offer' = [offer EXCEPT ![call[c].offer] = "pending"]
  /\ UNCHANGED <<task>> /\ UNCHANGED Rest

\* By id: whatever the offer has become.
WithdrawOffer(c) ==
  /\ call[c].pc = "withdraw" /\ Return(c)
  /\ offer' = [offer EXCEPT ![call[c].offer] = IF @ = "none" THEN @ ELSE "withdrawn"]
  /\ UNCHANGED <<task>> /\ UNCHANGED Rest

\* The offers of task t after o was accepted: an offer whose row is gone stays so.
Settled(t, o) ==
  [p \in Offers |-> CASE p = o /\ offer[p] # "none" -> "accepted"
                      [] p # o /\ OfferFor[p] = t /\ offer[p] = "pending" -> "rejected"
                      [] OTHER -> offer[p]]

Assigned(t, o) == [task[t] EXCEPT !.status = "assigned", !.offer = o, !.tasker = OfferBy[o]]

\* Mutant of StillOpen: the update goes by the id alone.
StillOpenAlways(t) == task[t].status # "gone"

StillOpen(t) == task[t].status = "open"

\* The guarded UPDATE, in one transaction with the offers.
AcceptOffer(c) ==
  LET o == call[c].offer
      t == OfferFor[o]
  IN /\ call[c].pc = "accept" /\ Return(c)
     /\ IF StillOpen(t)
        THEN /\ task' = [task EXCEPT ![t] = Assigned(t, o)]
             /\ offer' = Settled(t, o)
        ELSE UNCHANGED <<task, offer>>
     /\ UNCHANGED Rest

\* save() writes back every column in which the row differs from what was read;
\* while edits do not overlap, there is none.
SaveEdit(c) ==
  LET t == call[c].task
  IN /\ call[c].pc = "edit" /\ Return(c)
     /\ EditsOverlap \/ task[t] = call[c].seen
     /\ task' = [task EXCEPT ![t] = IF @.status = "gone" THEN @ ELSE call[c].seen]
     /\ UNCHANGED <<offer>> /\ UNCHANGED Rest

\* cancelTask: first the pending offers, then the task, by id.
CancelOffers(c) ==
  /\ call[c].pc = "cancelOffers"
  /\ call' = [call EXCEPT ![c].pc = "cancel"]
  /\ offer' = [o \in Offers |-> IF OfferFor[o] = call[c].task /\ offer[o] = "pending"
                                THEN "rejected" ELSE offer[o]]
  /\ UNCHANGED <<task>> /\ UNCHANGED Rest

SetStatus(t, status) ==
  task' = [task EXCEPT ![t].status = IF @ = "gone" THEN @ ELSE status]

CancelTask(c) ==
  /\ call[c].pc = "cancel" /\ Return(c)
  /\ SetStatus(call[c].task, "cancelled")
  /\ UNCHANGED <<offer>> /\ UNCHANGED Rest

\* By id, with a fresh completed_at.
MarkComplete(c) ==
  LET t == call[c].task
  IN /\ call[c].pc = "complete" /\ Return(c)
     /\ task' = [task EXCEPT ![t] = IF @.status = "gone" THEN @
                                    ELSE [@ EXCEPT !.status = "completed", !.aged = FALSE]]
     /\ UNCHANGED <<offer>> /\ UNCHANGED Rest

-----------------------------------------------------------------------------
(* closeTask, for the poster and for the hourly job.                       *)

\* The next task of the hourly job's list, if there is one.
Onward(h) ==
  IF call[h].due = {} THEN Return(h)
  ELSE \E row \in call[h].due :
         call' = [call EXCEPT ![h] = Closing(row.task, row.tasker, @.due \ {row})]

\* Mutants of Closable: the update goes by the id alone; it only takes a task
\* that was not marked complete.
ClosableAlways(t) == task[t].status # "gone"
ClosableAssigned(t) == task[t].status = "assigned"

Closable(t) == task[t].status \in {"assigned", "completed"}

\* Handlers on their way to count a closing of tasker u.
Counting(u) == {h \in Handlers : call[h].pc \in {"profile", "count"} /\ call[h].tasker = u}

\* Closing t for a handler that read tasker u misses the one who is hired by now,
\* and competes with a handler that is counting for u already.
Missed(t, u) ==
  {p \in Taskers : (p = task[t].tasker /\ p # u) \/ (p = u /\ Counting(p) # {})}

\* The guarded UPDATE; the tasker counted is the one of the row that was read,
\* whoever is hired when it commits.
CloseTask(h) ==
  LET t == call[h].task
      u == call[h].tasker
  IN /\ call[h].pc = "close"
     /\ IF Closable(t)
        THEN /\ SetStatus(t, "closed")
             /\ closings' = [p \in Taskers |->
                               IF p = task[t].tasker /\ task[t].status # "closed"
                               THEN closings[p] + 1 ELSE closings[p]]
             /\ uncounted' = uncounted \union Missed(t, u)
             /\ IF u # Nobody THEN call' = [call EXCEPT ![h].pc = "profile"] ELSE Onward(h)
        ELSE /\ Onward(h)
             /\ UNCHANGED <<task, closings, uncounted>>
     /\ UNCHANGED <<offer, done, left, called, failed>>

\* getOrCreateProfile; a profile read before its tasker left is not the one
\* created for the same person after.
ReadProfile(h) ==
  LET u == call[h].tasker
  IN /\ call[h].pc = "profile"
     /\ call' = [call EXCEPT ![h] = [pc |-> "count", tasker |-> u, due |-> @.due,
                                     read |-> done[u], late |-> u \in left]]
     /\ UNCHANGED <<task, offer>> /\ UNCHANGED Rest

CountClosing(h) ==
  /\ call[h].pc = "count"
  /\ done' = [done EXCEPT ![call[h].tasker] =
                 IF call[h].late = (call[h].tasker \in left) THEN call[h].read + 1 ELSE @]
  /\ Onward(h)
  /\ UNCHANGED <<task, offer, left, called, failed, closings, uncounted>>

-----------------------------------------------------------------------------
(* Everything else.                                                        *)

GrowOld(t) ==
  /\ task[t].status = "completed" /\ ~task[t].aged
  /\ task' = [task EXCEPT ![t].aged = TRUE]
  /\ UNCHANGED <<offer, call>> /\ UNCHANGED Rest

\* Mutant of WorkOf: the tasks the tasker made an offer for.
WorkOfOffers(u) == {OfferFor[o] : o \in {p \in Offers : OfferBy[p] = u}}

WorkOf(u) == {t \in Tasks : task[t].tasker = u /\ Closable(t)}

\* deleteTasksDataForUsers, for a tasker: tasks under way go back to open.
DeleteTasker(u) ==
  /\ u \notin left
  /\ left' = left \union {u}
  /\ task' = [t \in Tasks |->
                IF t \in WorkOf(u)
                THEN [Posted EXCEPT !.aged = task[t].aged] ELSE task[t]]
  /\ offer' = [o \in Offers |-> IF OfferBy[o] = u THEN "none" ELSE offer[o]]
  /\ done' = [done EXCEPT ![u] = 0]
  /\ UNCHANGED <<call, called, failed, closings, uncounted>>

\* deleteTasksDataForUsers, for the poster of t.
DeletePoster(t) ==
  /\ task[t].status # "gone"
  /\ task' = [task EXCEPT ![t] = [Posted EXCEPT !.status = "gone"]]
  /\ offer' = [o \in Offers |-> IF OfferFor[o] = t THEN "none" ELSE offer[o]]
  /\ UNCHANGED <<call>> /\ UNCHANGED Rest

\* A query or a notification throws, or the process dies.
Fail(h) ==
  /\ call[h] # NoCall /\ failed < MaxFailures
  /\ failed' = failed + 1
  /\ Return(h)
  /\ uncounted' = uncounted \union {u \in Taskers : h \in Counting(u)}
  /\ UNCHANGED <<task, offer, done, left, called, closings>>

HandlerStep(h) == CloseTask(h) \/ ReadProfile(h) \/ CountClosing(h)

CallStep(c) ==
  \/ MakeOffer(c) \/ WithdrawOffer(c) \/ AcceptOffer(c) \/ SaveEdit(c)
  \/ CancelOffers(c) \/ CancelTask(c) \/ MarkComplete(c)

MarketNext ==
  \/ \E c \in Calls :
       \/ \E o \in Offers : BeginOffer(c, o) \/ BeginWithdraw(c, o) \/ BeginAccept(c, o)
       \/ \E t \in Tasks : BeginEdit(c, t) \/ BeginCancel(c, t)
                             \/ BeginComplete(c, t) \/ BeginConfirm(c, t)
       \/ CallStep(c)
  \/ FindDue
  \/ \E h \in Handlers : HandlerStep(h) \/ Fail(h)
  \/ \E t \in Tasks : GrowOld(t) \/ DeletePoster(t)
  \/ \E u \in Taskers : DeleteTasker(u)

MarketSpec == MarketInit /\ [][MarketNext]_marketVars

(* The job runs every hour, its queries return but for a bounded number of *)
(* failures, and time passes.                                              *)
MarketFairness ==
  /\ WF_marketVars(FindDue) /\ WF_marketVars(HandlerStep(hourly))
  /\ \A t \in Tasks : WF_marketVars(GrowOld(t))

-----------------------------------------------------------------------------
(* Properties.                                                             *)

Row == [status: TaskStatuses, offer: Offers \union {Nobody}, tasker: Taskers \union {Nobody},
        aged: BOOLEAN]
Due == SUBSET [task: Tasks, tasker: Taskers \union {Nobody}]
Locals ==
  {NoCall}
    \union [pc: {"offer", "withdraw", "accept"}, offer: Offers]
    \union [pc: {"edit"}, task: Tasks, seen: Row]
    \union [pc: {"cancelOffers", "cancel", "complete"}, task: Tasks]
    \union [pc: {"close", "profile"}, task: Tasks, tasker: Taskers \union {Nobody}, due: Due]
    \union [pc: {"count"}, tasker: Taskers, due: Due, read: Nat, late: BOOLEAN]

\* The rows of task, task_offer and tasker_profile, and the handlers' locals.
MarketTypeOK ==
  /\ task \in [Tasks -> Row] /\ offer \in [Offers -> OfferStatuses]
  /\ done \in [Taskers -> Nat] /\ closings \in [Taskers -> Nat]
  /\ call \in [Handlers -> Locals]
  /\ left \subseteq Taskers /\ uncounted \subseteq Taskers
  /\ called \in Nat /\ failed \in Nat

\* An accepted offer is the one its task is assigned to, with the tasker who made
\* it, whatever requests race: so two offers for a task are never both accepted,
\* and no accepted offer is on a task that takes new ones.
AcceptedIsHired ==
  \A o \in Offers : offer[o] = "accepted" =>
    LET row == task[OfferFor[o]]
    IN row.offer = o /\ row.tasker = OfferBy[o] /\ row.status # "open"

\* Who was hired stays hired: an assignment ends only with the account of the
\* tasker or of the poster, and never passes to another offer directly.
HiredForGood ==
  \A t \in Tasks : task[t].offer # Nobody =>
    \/ task'[t].offer = task[t].offer
    \/ task'[t].offer = Nobody
         /\ (OfferBy[task[t].offer] \in left' \/ task'[t].status = "gone")
HireKept == [][HiredForGood]_marketVars

\* A tasker is credited with no more finished tasks than were closed while he was
\* the one hired for them, however poster, hourly job, cancellations, deletions and
\* rehiring interleave; and with every one of them, once nobody is counting for him
\* any more, unless a handler died on the way, two were counting for him at a time,
\* or the closing had been read when somebody else was hired. A task that a late
\* completion puts back and that is closed again counts again. Nothing is said of
\* somebody whose account was deleted.
CreditedOnce ==
  \A u \in Taskers \ left :
    /\ done[u] <= closings[u]
    /\ u \notin uncounted /\ Counting(u) = {} => done[u] = closings[u]

\* A task marked complete does not stay so: the hourly job closes it, whatever
\* else fails on the way.
CompletedCloses ==
  \A t \in Tasks : (task[t].status = "completed") ~> (task[t].status # "completed")
=============================================================================

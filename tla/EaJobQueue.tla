----------------------------- MODULE EaJobQueue -----------------------------
(***************************************************************************)
(* The durable queue ea_job: overlapping ticks claim jobs in batches by    *)
(* compare-and-swap under a lease, run them one after another and write    *)
(* the outcome by id. Time is kept as what the queries compare: a row is   *)
(* ripe when its run_after has come (queued) or its lease is over          *)
(* (running).                                                              *)
(***************************************************************************)
EXTENDS Integers, FiniteSets

CONSTANTS
  Workers,      \* ticks, one at a time in each process
  Jobs,         \* ids of ea_job rows, in the order of their insertion
  Batch,        \* jobs claimed at a time
  MaxAttempts,  \* ea_job.max_attempts
  MaySlow,      \* TRUE: a batch may take longer than the ten minute lease
  MaxCrashes,   \* bound: crashes of a worker
  MaxRetries    \* bound: dead jobs put back by an admin

ASSUME QueueAssumption ==
  /\ Jobs \subseteq Nat /\ IsFiniteSet(Jobs)
  /\ Batch \in Nat \ {0} /\ MaxAttempts \in Nat \ {0}
  /\ MaySlow \in BOOLEAN /\ MaxCrashes \in Nat /\ MaxRetries \in Nat

VARIABLES
  status,    \* ea_job.status, "absent" before enqueue
  attempts,  \* ea_job.attempts
  ripe,      \* run_after <= now, or lease_expires_at < now
  pc,        \* idle, claiming or running, for each worker
  seen,      \* the candidates a worker has read and not tried yet
  timely,    \* jobs that are ripe for the `now` a claiming worker began with
  held,      \* the jobs a worker has claimed and not finished
  crashes, retries

rows == <<status, attempts, ripe>>
locals == <<pc, seen, held>>
vars == <<rows, locals, timely, crashes, retries>>

Statuses == {"absent", "queued", "running", "done", "dead"}
Candidate == [id: Jobs, status: Statuses, attempts: Int]
Held == [id: Jobs, attempts: Int]

Init ==
  /\ status = [j \in Jobs |-> "absent"]
  /\ attempts = [j \in Jobs |-> 0]
  /\ ripe = [j \in Jobs |-> FALSE]
  /\ pc = [w \in Workers |-> "idle"]
  /\ seen = [w \in Workers |-> {}]
  /\ timely = [w \in Workers |-> {}]
  /\ held = [w \in Workers |-> {}]
  /\ crashes = 0 /\ retries = 0

\* A write of run_after or lease_expires_at is later than the `now` of every
\* claim under way, so for those the row is ripe no more.
Restamped(j) == [w \in Workers |-> timely[w] \ {j}]

Holders(j) == {w \in Workers : \E h \in held[w] : h.id = j}

\* enqueue: a second insert of the same idempotency key is ignored.
Enqueue(j) ==
  /\ status[j] = "absent"
  /\ status' = [status EXCEPT ![j] = "queued"]
  /\ ripe' = [ripe EXCEPT ![j] = TRUE]
  /\ UNCHANGED <<attempts, locals, timely, crashes, retries>>

\* Time passes: a queued job falls due, or the lease of a running one ends.
Ripen(j) ==
  /\ status[j] \in {"queued", "running"} /\ ~ripe[j]
  /\ status[j] = "running" => MaySlow \/ Holders(j) = {}
  /\ ripe' = [ripe EXCEPT ![j] = TRUE]
  /\ UNCHANGED <<status, attempts, locals, timely, crashes, retries>>

\* Mutant of Claimable: the jobs of dead workers are not taken back.
ClaimableQueued(j) == status[j] = "queued" /\ ripe[j]

Claimable(j) == status[j] \in {"queued", "running"} /\ ripe[j]

\* claim: the candidates are read, ordered by id.
ReadCandidates(w) ==
  LET found == {j \in Jobs : Claimable(j)}
  IN  /\ pc[w] = "idle" /\ found # {}
      /\ pc' = [pc EXCEPT ![w] = "claiming"]
      /\ seen' = [seen EXCEPT ![w] =
           {[id |-> j, status |-> status[j], attempts |-> attempts[j]] : j \in found}]
      /\ timely' = [timely EXCEPT ![w] = found]
      /\ UNCHANGED <<rows, held, crashes, retries>>

First(S) == {c \in S : \A d \in S : c.id <= d.id}

\* Mutant of Winnable: the claim updates any open row by id.
WinnableById(w, c) == status[c.id] \in {"queued", "running"}

\* The compare-and-swap re-checks the state that was read.
Winnable(w, c) ==
  /\ attempts[c.id] = c.attempts
  /\ status[c.id] \in {"queued", "running"} /\ c.id \in timely[w]

\* Mutants of DeadLetter: it writes by id and status, without asking for the lease; it
\* writes a status the table does not have.
DeadLetterHeld(w, c) ==
  /\ c.status = "running" /\ c.attempts >= MaxAttempts
  /\ status' = IF status[c.id] = "running" THEN [status EXCEPT ![c.id] = "dead"] ELSE status
  /\ UNCHANGED <<attempts, ripe, timely, held>>

DeadLetterFailed(w, c) ==
  /\ c.status = "running" /\ c.attempts >= MaxAttempts
  /\ status' = [status EXCEPT ![c.id] = "failed"]
  /\ UNCHANGED <<attempts, ripe, timely, held>>

\* Its worker died too many times: dead, if its lease is still over.
DeadLetter(w, c) ==
  /\ c.status = "running" /\ c.attempts >= MaxAttempts
  /\ status' = IF status[c.id] = "running" /\ c.id \in timely[w]
               THEN [status EXCEPT ![c.id] = "dead"] ELSE status
  /\ UNCHANGED <<attempts, ripe, timely, held>>

Win(w, c) ==
  /\ ~(c.status = "running" /\ c.attempts >= MaxAttempts)
  /\ Winnable(w, c)
  /\ status' = [status EXCEPT ![c.id] = "running"]
  /\ attempts' = [attempts EXCEPT ![c.id] = @ + 1]
  /\ ripe' = [ripe EXCEPT ![c.id] = FALSE]
  /\ timely' = Restamped(c.id)
  /\ held' = [held EXCEPT ![w] = @ \union {[id |-> c.id, attempts |-> c.attempts + 1]}]

Lose(w, c) ==
  /\ ~(c.status = "running" /\ c.attempts >= MaxAttempts)
  /\ ~Winnable(w, c)
  /\ UNCHANGED <<rows, timely, held>>

Try(w) ==
  /\ pc[w] = "claiming" /\ Cardinality(held[w]) < Batch
  /\ \E c \in First(seen[w]) :
       /\ DeadLetter(w, c) \/ Win(w, c) \/ Lose(w, c)
       /\ seen' = [seen EXCEPT ![w] = @ \ {c}]
  /\ UNCHANGED <<pc, crashes, retries>>

\* The batch is complete. A tick that claimed nothing ends.
EndClaim(w) ==
  /\ pc[w] = "claiming"
  /\ seen[w] = {} \/ Cardinality(held[w]) >= Batch
  /\ pc' = [pc EXCEPT ![w] = IF held[w] = {} THEN "idle" ELSE "running"]
  /\ seen' = [seen EXCEPT ![w] = {}]
  /\ timely' = [timely EXCEPT ![w] = {}]
  /\ UNCHANGED <<rows, held, crashes, retries>>

UsedUp(h) == h.attempts >= MaxAttempts

\* What runJob writes, by id alone: done, queued again without using up the
\* attempt, or queued with a back-off until the attempts in hand are used up.
Outcome(h, what) ==
  LET j == h.id
  IN  /\ status' = [status EXCEPT ![j] =
           CASE what = "complete" -> "done"
             [] what = "fail" /\ UsedUp(h) -> "dead"
             [] OTHER -> "queued"]
      /\ attempts' = [attempts EXCEPT ![j] = IF what = "defer" THEN @ - 1 ELSE @]
      /\ ripe' = [ripe EXCEPT ![j] = FALSE]
      /\ timely' = Restamped(j)

RunJob(w, what) ==
  /\ pc[w] = "running"
  /\ \E h \in First(held[w]) :
       /\ Outcome(h, what)
       /\ held' = [held EXCEPT ![w] = @ \ {h}]
       /\ pc' = [pc EXCEPT ![w] = IF held[w] = {h} THEN "idle" ELSE "running"]
  /\ UNCHANGED <<seen, crashes, retries>>

\* The process dies, or the outcome cannot be written and the tick throws.
Crash(w) ==
  /\ pc[w] # "idle" /\ crashes < MaxCrashes
  /\ crashes' = crashes + 1
  /\ pc' = [pc EXCEPT ![w] = "idle"]
  /\ seen' = [seen EXCEPT ![w] = {}]
  /\ timely' = [timely EXCEPT ![w] = {}]
  /\ held' = [held EXCEPT ![w] = {}]
  /\ UNCHANGED <<rows, retries>>

\* retryJob: an admin puts a dead job back.
Retry(j) ==
  /\ status[j] = "dead" /\ retries < MaxRetries
  /\ retries' = retries + 1
  /\ status' = [status EXCEPT ![j] = "queued"]
  /\ attempts' = [attempts EXCEPT ![j] = 0]
  /\ ripe' = [ripe EXCEPT ![j] = TRUE]
  /\ timely' = Restamped(j)
  /\ UNCHANGED <<locals, crashes>>

Finish(w) == \E what \in {"complete", "fail", "defer"} : RunJob(w, what)

Next ==
  \/ \E j \in Jobs : Enqueue(j) \/ Ripen(j) \/ Retry(j)
  \/ \E w \in Workers : ReadCandidates(w) \/ Try(w) \/ EndClaim(w) \/ Finish(w) \/ Crash(w)

Spec == Init /\ [][Next]_vars

(* Ticks keep coming, one begun goes on, and time passes. A send job is    *)
(* not deferred for ever: the daily cap and the budget roll over, and the  *)
(* agent is not paused for good.                                           *)
FairSpec ==
  /\ Spec
  /\ \A j \in Jobs : WF_vars(Ripen(j))
  /\ \A w \in Workers :
       /\ WF_vars(ReadCandidates(w)) /\ WF_vars(Try(w)) /\ WF_vars(EndClaim(w))
       /\ WF_vars(Finish(w)) /\ SF_vars(RunJob(w, "complete") \/ RunJob(w, "fail"))

-----------------------------------------------------------------------------
(* Properties.                                                             *)

\* Rows of ea_job and the local variables of claim and tick.
TypeOK ==
  /\ status \in [Jobs -> Statuses]
  /\ attempts \in [Jobs -> Int]
  /\ ripe \in [Jobs -> BOOLEAN]
  /\ pc \in [Workers -> {"idle", "claiming", "running"}]
  /\ seen \in [Workers -> SUBSET Candidate]
  /\ timely \in [Workers -> SUBSET Jobs]
  /\ held \in [Workers -> SUBSET Held]
  /\ crashes \in 0..MaxCrashes /\ retries \in 0..MaxRetries

\* Two overlapping ticks never run the same job at the same time, as long as a
\* batch ends within its lease: not after crashes, deferrals or a claim whose
\* candidates were read long before.
OneHolder ==
  \A v, w \in Workers : \A g \in held[v], h \in held[w] :
    g.id = h.id => v = w /\ g = h

\* A job is handed out at most max_attempts times between two interventions of
\* an admin, deferrals aside, although defer() gives attempts back by id.
AttemptsBounded == \A j \in Jobs : attempts[j] \in 0..MaxAttempts

\* A job that is done, or dead and not retried, is never run or queued again.
DoneIsFinal == [][\A j \in Jobs : status[j] = "done" => status'[j] = "done"]_vars

\* The tick's comment: overlaps are safe between instances. Checked with
\* batches that outlast their lease.
OverlapsKeepDone == [][\A j \in Jobs : status[j] = "done" => status'[j] = "done"]_vars

\* A queue whose claims lock the rows they look at.
RunBy == [j \in Jobs |-> Holders(j)]
Locked == INSTANCE EaLockedQueue WITH state <- status, by <- RunBy, tries <- attempts

\* The compare-and-swap of claim gives the guarantee of SKIP LOCKED, as its comment
\* says: reading candidates, trying them one after the other long after, and writing
\* outcomes by id look like taking a job in one step and settling it as its only
\* holder, whoever crashes; as long as a batch ends within its lease.
ActsLocked == Locked!Spec

\* Every job that is enqueued, and every one that is retried, ends done or dead,
\* whichever workers crash with it in hand.
JobsEnd == \A j \in Jobs : (status[j] = "queued") ~> (status[j] \in {"done", "dead"})
=============================================================================

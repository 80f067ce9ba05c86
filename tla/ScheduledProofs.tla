---------------------------- MODULE ScheduledProofs ----------------------------
(***************************************************************************)
(* What timers set off, for any number of processes, jobs, prospects,      *)
(* tasks and people.                                                       *)
(*                                                                         *)
(* Job queue: while batches end within their lease, the queue hands a job  *)
(* to one tick at a time, at most max_attempts times, and never again once *)
(* it is done. The three follow from one invariant: a held job is a        *)
(* running row with a live lease and the attempt number in hand, and a     *)
(* claim under way can only win rows whose lease is over.                  *)
(*                                                                         *)
(* Tasks market: an accepted offer is the one its task is assigned to, and *)
(* who was hired stays hired, while edits do not overlap other writes of   *)
(* their task (~EditsOverlap). The argument is one of rows, not of         *)
(* requests: whatever the requests read, the guarded UPDATE of acceptOffer *)
(* takes a task that is open, and an open task has no offer and so no      *)
(* accepted one.                                                           *)
(*                                                                         *)
(* Outreach: a prospect gets each touch once and in order, and no active   *)
(* one is left with nothing ahead of it, as long as the sweep leaves alone *)
(* what somebody still sends (~Late); and a sequence that ended stays      *)
(* ended, Late or not. The order holds because a step of a prospect has    *)
(* one thing open at a time: a job that is not drafted, or an email that   *)
(* is not cancelled. A redraft follows only an email that was cancelled,   *)
(* and the next step only one that is recorded as sent. Nobody is          *)
(* forgotten because what is open is for the step the prospect is at, and  *)
(* the one worker that recorded a touch is there to plan the next.         *)
(*                                                                         *)
(* The last part puts the three together: a behaviour of the composition   *)
(* is a behaviour of each.                                                 *)
(***************************************************************************)
EXTENDS MCScheduled, FiniteSetTheorems, TLAPS

-----------------------------------------------------------------------------
(* The job queue.                                                          *)

\* What a tick holds is a row it claimed: running, leased, its attempt.
HeldIsLeased ==
  \A w \in Workers : \A h \in held[w] :
    status[h.id] = "running" /\ ~ripe[h.id] /\ attempts[h.id] = h.attempts

\* A row still timely for a claim has not been written since the claim began.
TimelyIsRipe == \A w \in Workers : \A j \in timely[w] : ripe[j]

\* A job that waits has an attempt kept.
QueuedHasAttempt ==
  \A j \in Jobs : status[j] \in {"absent", "queued"} => attempts[j] < MaxAttempts

\* So has a candidate that was read while it waited; a held one has used one.
SnapshotsCount ==
  \A w \in Workers :
    /\ \A c \in seen[w] : /\ c.attempts \in 0..MaxAttempts
                          /\ c.status \in {"queued", "running"}
                          /\ c.status = "queued" => c.attempts < MaxAttempts
    /\ \A h \in held[w] : h.attempts \in 1..MaxAttempts

QueueInv ==
  /\ TypeOK
  /\ HeldIsLeased /\ TimelyIsRipe /\ OneHolder
  /\ AttemptsBounded /\ QueuedHasAttempt /\ SnapshotsCount

-----------------------------------------------------------------------------

LEMMA QueueInit == Init => QueueInv
  BY QueueAssumption
  DEF Init, QueueInv, TypeOK, Statuses, HeldIsLeased, TimelyIsRipe, OneHolder,
      AttemptsBounded, QueuedHasAttempt, SnapshotsCount

\* A row that is timely for some claim is held by nobody.
LEMMA TimelyNotHeld ==
  ASSUME QueueInv, NEW v \in Workers, NEW j \in timely[v],
         NEW w \in Workers, NEW h \in held[w]
  PROVE  h.id # j
  BY DEF QueueInv, HeldIsLeased, TimelyIsRipe

LEMMA EnqueueStep ==
  ASSUME QueueInv, NEW j \in Jobs, Enqueue(j)
  PROVE  QueueInv'
<1> USE QueueAssumption
<1>1. TypeOK'
  BY DEF QueueInv, TypeOK, Statuses, Enqueue, locals
<1>2. HeldIsLeased' /\ TimelyIsRipe' /\ OneHolder'
  BY DEF QueueInv, HeldIsLeased, TimelyIsRipe, OneHolder, TypeOK, Held, Enqueue, locals
<1>3. AttemptsBounded' /\ QueuedHasAttempt' /\ SnapshotsCount'
  BY DEF QueueInv, AttemptsBounded, QueuedHasAttempt, SnapshotsCount, TypeOK, Enqueue, locals
<1> QED BY <1>1, <1>2, <1>3 DEF QueueInv

LEMMA RipenStep ==
  ASSUME ~MaySlow, QueueInv, NEW j \in Jobs, Ripen(j)
  PROVE  QueueInv'
<1> USE QueueAssumption
<1>1. TypeOK'
  BY DEF QueueInv, TypeOK, Statuses, Ripen, locals
<1>2. \A w \in Workers : \A h \in held[w] : h.id # j
  BY DEF Ripen, Holders, QueueInv, HeldIsLeased
<1>3. HeldIsLeased' /\ TimelyIsRipe' /\ OneHolder'
  BY <1>2 DEF QueueInv, HeldIsLeased, TimelyIsRipe, OneHolder, TypeOK, Held, Ripen, locals
<1>4. AttemptsBounded' /\ QueuedHasAttempt' /\ SnapshotsCount'
  BY DEF QueueInv, AttemptsBounded, QueuedHasAttempt, SnapshotsCount, TypeOK, Ripen, locals
<1> QED BY <1>1, <1>3, <1>4 DEF QueueInv

LEMMA ReadStep ==
  ASSUME QueueInv, NEW w \in Workers, ReadCandidates(w)
  PROVE  QueueInv'
<1> DEFINE found == {j \in Jobs : Claimable(j)}
           read == {[id |-> j, status |-> status[j], attempts |-> attempts[j]] : j \in found}
<1> USE QueueAssumption
<1>1. /\ pc' = [pc EXCEPT ![w] = "claiming"]
      /\ seen' = [seen EXCEPT ![w] = read]
      /\ timely' = [timely EXCEPT ![w] = found]
      /\ UNCHANGED <<status, attempts, ripe, held, crashes, retries>>
  BY DEF ReadCandidates, rows
<1>2. \A c \in read : /\ c \in Candidate
                      /\ c.attempts \in 0..MaxAttempts
                      /\ c.status \in {"queued", "running"}
                      /\ c.status = "queued" => c.attempts < MaxAttempts
  BY DEF QueueInv, TypeOK, Candidate, Statuses, AttemptsBounded, QueuedHasAttempt, Claimable
<1>3. found \subseteq Jobs /\ \A j \in found : ripe[j]
  BY DEF Claimable
<1> HIDE DEF read, found
<1>4. TypeOK'
  BY <1>1, <1>2, <1>3 DEF QueueInv, TypeOK
<1>5. HeldIsLeased' /\ TimelyIsRipe' /\ OneHolder'
  BY <1>1, <1>3 DEF QueueInv, HeldIsLeased, TimelyIsRipe, OneHolder, TypeOK
<1>6. AttemptsBounded' /\ QueuedHasAttempt' /\ SnapshotsCount'
  BY <1>1, <1>2 DEF QueueInv, AttemptsBounded, QueuedHasAttempt, SnapshotsCount, TypeOK
<1> QED BY <1>4, <1>5, <1>6 DEF QueueInv

\* A candidate is tried: dead-lettered, won or lost.
LEMMA TryStep ==
  ASSUME QueueInv, NEW w \in Workers, Try(w)
  PROVE  QueueInv'
<1> USE QueueAssumption
<1>1. PICK c \in First(seen[w]) :
        /\ DeadLetter(w, c) \/ Win(w, c) \/ Lose(w, c)
        /\ seen' = [seen EXCEPT ![w] = @ \ {c}]
        /\ UNCHANGED <<pc, crashes, retries>>
  BY DEF Try
<1>2. c \in seen[w] /\ c \in Candidate /\ c.id \in Jobs /\ c.attempts \in 0..MaxAttempts
      /\ c.status \in {"queued", "running"}
      /\ (c.status = "queued" => c.attempts < MaxAttempts)
  BY <1>1 DEF First, QueueInv, TypeOK, SnapshotsCount, Candidate
<1>3. \A v \in Workers : seen'[v] \subseteq seen[v]
  BY <1>1 DEF QueueInv, TypeOK
<1>4. CASE DeadLetter(w, c)
  <2>1. status' = status \/ /\ status' = [status EXCEPT ![c.id] = "dead"]
                            /\ c.id \in timely[w]
    BY <1>4 DEF DeadLetter
  <2>2. \A v \in Workers : \A h \in held[v] : status'[h.id] = status[h.id]
    <3>1. \A v \in Workers : \A h \in held[v] : c.id \in timely[w] => h.id # c.id
      BY TimelyNotHeld
    <3>2. \A v \in Workers : \A h \in held[v] : h.id \in Jobs
      BY DEF QueueInv, TypeOK, Held
    <3> QED BY <2>1, <3>1, <3>2 DEF QueueInv, TypeOK
  <2>3. TypeOK'
    BY <1>1, <1>2, <1>3, <1>4, <2>1 DEF QueueInv, TypeOK, Statuses, DeadLetter
  <2>4. HeldIsLeased' /\ TimelyIsRipe' /\ OneHolder'
    BY <1>4, <2>2 DEF QueueInv, HeldIsLeased, TimelyIsRipe, OneHolder, DeadLetter
  <2>5. AttemptsBounded' /\ QueuedHasAttempt' /\ SnapshotsCount'
    BY <1>2, <1>3, <1>4, <2>1
    DEF QueueInv, AttemptsBounded, QueuedHasAttempt, SnapshotsCount, TypeOK, DeadLetter
  <2> QED BY <2>3, <2>4, <2>5 DEF QueueInv
<1>5. CASE Win(w, c)
  <2> DEFINE g == [id |-> c.id, attempts |-> c.attempts + 1]
  <2>1. /\ status' = [status EXCEPT ![c.id] = "running"]
        /\ attempts' = [attempts EXCEPT ![c.id] = @ + 1]
        /\ ripe' = [ripe EXCEPT ![c.id] = FALSE]
        /\ timely' = [v \in Workers |-> timely[v] \ {c.id}]
        /\ held' = [held EXCEPT ![w] = @ \union {g}]
        /\ c.id \in timely[w] /\ attempts[c.id] = c.attempts
        /\ c.attempts < MaxAttempts
    BY <1>2, <1>5 DEF Win, Winnable, Restamped, QueueInv, AttemptsBounded
  <2>2. \A v \in Workers : \A h \in held[v] : h.id # c.id /\ h \in Held
    BY <2>1, TimelyNotHeld DEF QueueInv, TypeOK
  <2>3. g \in Held /\ g.id = c.id /\ g.attempts = c.attempts + 1
        /\ g.attempts \in 1..MaxAttempts
    BY <1>2, <2>1 DEF Held
  <2> HIDE DEF g
  <2>4. \A v \in Workers : \A h \in held'[v] : h \in held[v] \/ (h = g /\ v = w)
    BY <2>1 DEF QueueInv, TypeOK
  <2>5. TypeOK'
    BY <1>1, <1>2, <1>3, <2>1, <2>3 DEF QueueInv, TypeOK, Statuses
  <2>6. HeldIsLeased'
    BY <1>2, <2>1, <2>2, <2>3, <2>4 DEF QueueInv, HeldIsLeased, TypeOK, Held
  <2>7. TimelyIsRipe'
    BY <1>2, <2>1 DEF QueueInv, TimelyIsRipe, TypeOK
  <2>8. OneHolder'
    BY <2>2, <2>3, <2>4 DEF QueueInv, OneHolder
  <2>9. AttemptsBounded' /\ QueuedHasAttempt'
    BY <1>2, <2>1 DEF QueueInv, AttemptsBounded, QueuedHasAttempt, TypeOK
  <2>10. SnapshotsCount'
    BY <1>3, <2>3, <2>4 DEF QueueInv, SnapshotsCount
  <2> QED BY <2>5, <2>6, <2>7, <2>8, <2>9, <2>10 DEF QueueInv
<1>6. CASE Lose(w, c)
  <2>1. TypeOK'
    BY <1>1, <1>3, <1>6 DEF QueueInv, TypeOK, Lose, rows
  <2>2. HeldIsLeased' /\ TimelyIsRipe' /\ OneHolder'
    BY <1>6 DEF QueueInv, HeldIsLeased, TimelyIsRipe, OneHolder, Lose, rows
  <2>3. AttemptsBounded' /\ QueuedHasAttempt' /\ SnapshotsCount'
    BY <1>3, <1>6
    DEF QueueInv, AttemptsBounded, QueuedHasAttempt, SnapshotsCount, Lose, rows
  <2> QED BY <2>1, <2>2, <2>3 DEF QueueInv
<1> QED BY <1>1, <1>4, <1>5, <1>6

\* A claim ends, or the worker dies: it forgets, the rows stay.
LEMMA ForgetStep ==
  ASSUME QueueInv, NEW w \in Workers, EndClaim(w) \/ Crash(w)
  PROVE  QueueInv'
<1> USE QueueAssumption
<1>1. /\ pc' \in [Workers -> {"idle", "claiming", "running"}]
      /\ seen' = [seen EXCEPT ![w] = {}]
      /\ timely' = [timely EXCEPT ![w] = {}]
      /\ held' = held \/ held' = [held EXCEPT ![w] = {}]
      /\ UNCHANGED <<status, attempts, ripe, retries>>
      /\ crashes' \in 0..MaxCrashes
  BY DEF EndClaim, Crash, rows, QueueInv, TypeOK
<1>2. \A v \in Workers : /\ seen'[v] \subseteq seen[v]
                         /\ timely'[v] \subseteq timely[v]
                         /\ held'[v] \subseteq held[v]
  BY <1>1 DEF QueueInv, TypeOK
<1>3. TypeOK'
  BY <1>1 DEF QueueInv, TypeOK
<1>4. HeldIsLeased' /\ TimelyIsRipe' /\ OneHolder'
  BY <1>1, <1>2 DEF QueueInv, HeldIsLeased, TimelyIsRipe, OneHolder
<1>5. AttemptsBounded' /\ QueuedHasAttempt' /\ SnapshotsCount'
  BY <1>1, <1>2 DEF QueueInv, AttemptsBounded, QueuedHasAttempt, SnapshotsCount
<1> QED BY <1>3, <1>4, <1>5 DEF QueueInv

\* The outcome is written by id; the tick that writes it is the only holder.
LEMMA RunStep ==
  ASSUME QueueInv, NEW w \in Workers, NEW what \in {"complete", "fail", "defer"},
         RunJob(w, what)
  PROVE  QueueInv'
<1> USE QueueAssumption
<1>1. PICK h \in First(held[w]) :
        /\ Outcome(h, what)
        /\ held' = [held EXCEPT ![w] = @ \ {h}]
        /\ pc' = [pc EXCEPT ![w] = IF held[w] = {h} THEN "idle" ELSE "running"]
        /\ UNCHANGED <<seen, crashes, retries>>
  BY DEF RunJob
<1>2. /\ h \in held[w] /\ h.id \in Jobs /\ h.attempts \in 1..MaxAttempts
      /\ attempts[h.id] = h.attempts
  BY <1>1 DEF First, QueueInv, TypeOK, Held, SnapshotsCount, HeldIsLeased
<1> DEFINE next == CASE what = "complete" -> "done"
                     [] what = "fail" /\ h.attempts >= MaxAttempts -> "dead"
                     [] OTHER -> "queued"
           kept == IF what = "defer" THEN h.attempts - 1 ELSE h.attempts
<1>3. /\ status' = [status EXCEPT ![h.id] = next]
      /\ attempts' = [attempts EXCEPT ![h.id] = kept]
      /\ ripe' = [ripe EXCEPT ![h.id] = FALSE]
      /\ timely' = [v \in Workers |-> timely[v] \ {h.id}]
  <2>1. attempts' = [attempts EXCEPT ![h.id] = IF what = "defer" THEN @ - 1 ELSE @]
    BY <1>1 DEF Outcome
  <2>2. attempts' = [attempts EXCEPT ![h.id] = kept]
    BY <2>1, <1>2
  <2> QED BY <2>2, <1>1 DEF Outcome, UsedUp, Restamped
<1>4. next \in {"done", "dead", "queued"}
  OBVIOUS
<1>5. kept \in 0..MaxAttempts /\ (next = "queued" => kept < MaxAttempts)
  <2>1. CASE what = "complete"
    BY <1>2, <2>1
  <2>2. CASE what = "fail"
    BY <1>2, <2>2
  <2>3. CASE what = "defer"
    BY <1>2, <2>3
  <2> QED BY <2>1, <2>2, <2>3
<1> HIDE DEF next, kept
<1>6. \A v \in Workers : \A g \in held'[v] : g \in held[v] /\ g.id # h.id /\ g.id \in Jobs
  BY <1>1, <1>2 DEF QueueInv, OneHolder, TypeOK, Held
<1>7. TypeOK'
  BY <1>1, <1>2, <1>3, <1>4, <1>5 DEF QueueInv, TypeOK, Statuses
<1>8. HeldIsLeased'
  BY <1>2, <1>3, <1>6 DEF QueueInv, HeldIsLeased, TypeOK, Held
<1>9. TimelyIsRipe'
  BY <1>2, <1>3 DEF QueueInv, TimelyIsRipe, TypeOK
<1>10. OneHolder'
  BY <1>6 DEF QueueInv, OneHolder
<1>11. AttemptsBounded' /\ QueuedHasAttempt'
  BY <1>2, <1>3, <1>4, <1>5 DEF QueueInv, AttemptsBounded, QueuedHasAttempt, TypeOK
<1>12. SnapshotsCount'
  BY <1>1, <1>6 DEF QueueInv, SnapshotsCount
<1> QED BY <1>7, <1>8, <1>9, <1>10, <1>11, <1>12 DEF QueueInv

LEMMA RetryStep ==
  ASSUME QueueInv, NEW j \in Jobs, Retry(j)
  PROVE  QueueInv'
<1> USE QueueAssumption
<1>1. /\ status' = [status EXCEPT ![j] = "queued"]
      /\ attempts' = [attempts EXCEPT ![j] = 0]
      /\ ripe' = [ripe EXCEPT ![j] = TRUE]
      /\ timely' = [v \in Workers |-> timely[v] \ {j}]
      /\ UNCHANGED <<pc, seen, held, crashes>>
      /\ status[j] = "dead" /\ retries' \in 0..MaxRetries
  BY DEF Retry, Restamped, locals, QueueInv, TypeOK
<1>2. \A w \in Workers : \A h \in held[w] : h.id # j
  BY <1>1 DEF QueueInv, HeldIsLeased
<1>3. TypeOK'
  BY <1>1 DEF QueueInv, TypeOK, Statuses
<1>4. HeldIsLeased' /\ TimelyIsRipe' /\ OneHolder'
  BY <1>1, <1>2 DEF QueueInv, HeldIsLeased, TimelyIsRipe, OneHolder, TypeOK, Held
<1>5. AttemptsBounded' /\ QueuedHasAttempt' /\ SnapshotsCount'
  BY <1>1 DEF QueueInv, AttemptsBounded, QueuedHasAttempt, SnapshotsCount, TypeOK
<1> QED BY <1>3, <1>4, <1>5 DEF QueueInv

LEMMA StutterStep ==
  ASSUME QueueInv, UNCHANGED vars
  PROVE  QueueInv'
  BY DEF QueueInv, vars, rows, locals, TypeOK, HeldIsLeased, TimelyIsRipe, OneHolder,
         AttemptsBounded, QueuedHasAttempt, SnapshotsCount

LEMMA QueueStep ==
  ASSUME ~MaySlow, QueueInv, [Next]_vars
  PROVE  QueueInv'
<1>1. ASSUME NEW j \in Jobs, Enqueue(j) \/ Ripen(j) \/ Retry(j)
      PROVE  QueueInv'
  BY <1>1, EnqueueStep, RipenStep, RetryStep
<1>2. ASSUME NEW w \in Workers,
             ReadCandidates(w) \/ Try(w) \/ EndClaim(w) \/ Finish(w) \/ Crash(w)
      PROVE  QueueInv'
  BY <1>2, ReadStep, TryStep, ForgetStep, RunStep DEF Finish
<1> QED BY <1>1, <1>2, StutterStep DEF Next

-----------------------------------------------------------------------------

\* For any number of ticks, jobs, batch size and attempts, crashes and admin
\* retries: as long as no batch outlasts its lease, two ticks never run one job
\* at the same time.
THEOREM JobsHaveOneHolder ==
  ASSUME ~MaySlow
  PROVE  Spec => []OneHolder
<1>1. QueueInv /\ [Next]_vars => QueueInv'
  BY QueueStep
<1>2. QueueInv => OneHolder
  BY DEF QueueInv
<1> QED BY <1>1, <1>2, QueueInit, PTL DEF Spec

\* Under the same assumption a job never has more than max_attempts attempts
\* and deferrals never give back more than was taken.
THEOREM AttemptsStayBounded ==
  ASSUME ~MaySlow
  PROVE  Spec => []AttemptsBounded
<1>1. QueueInv /\ [Next]_vars => QueueInv'
  BY QueueStep
<1>2. QueueInv => AttemptsBounded
  BY DEF QueueInv
<1> QED BY <1>1, <1>2, QueueInit, PTL DEF Spec

LEMMA DoneStep ==
  ASSUME QueueInv, [Next]_vars, NEW j \in Jobs, status[j] = "done"
  PROVE  status'[j] = "done"
<1>1. ASSUME NEW i \in Jobs, Enqueue(i) \/ Ripen(i) \/ Retry(i)
      PROVE  status'[j] = "done"
  BY <1>1 DEF Enqueue, Ripen, Retry, QueueInv, TypeOK
<1>2. ASSUME NEW w \in Workers, ReadCandidates(w) \/ EndClaim(w) \/ Crash(w)
      PROVE  status'[j] = "done"
  BY <1>2 DEF ReadCandidates, EndClaim, Crash, rows
<1>3. ASSUME NEW w \in Workers, Try(w)
      PROVE  status'[j] = "done"
  BY <1>3 DEF Try, DeadLetter, Win, Lose, Winnable, rows, QueueInv, TypeOK
<1>4. ASSUME NEW w \in Workers, Finish(w)
      PROVE  status'[j] = "done"
  <2>1. PICK what \in {"complete", "fail", "defer"}, h \in First(held[w]) : Outcome(h, what)
    BY <1>4 DEF Finish, RunJob
  <2>2. h.id # j
    BY <2>1 DEF First, QueueInv, HeldIsLeased
  <2> QED BY <2>1, <2>2 DEF Outcome, QueueInv, TypeOK
<1>5. ASSUME UNCHANGED vars PROVE status'[j] = "done"
  BY <1>5 DEF vars, rows
<1> QED BY <1>1, <1>2, <1>3, <1>4, <1>5 DEF Next

\* Under the same assumption a job that is done stays done: no overlapping or
\* stale tick runs or queues it again.
THEOREM DoneStaysDone ==
  ASSUME ~MaySlow
  PROVE  Spec => DoneIsFinal
<1>1. QueueInv /\ [Next]_vars => QueueInv'
  BY QueueStep
<1>2. QueueInv /\ [Next]_vars
        => [\A j \in Jobs : status[j] = "done" => status'[j] = "done"]_vars
  BY DoneStep
<1> QED BY <1>1, <1>2, QueueInit, PTL DEF Spec, DoneIsFinal

\* The rows and the locals keep their types, with batches that outlast their lease
\* too: what is written by id is then of a job that others hold as well.
LEMMA QueueTypeStep == ASSUME TypeOK, [Next]_vars PROVE TypeOK'
<1> USE QueueAssumption
<1>1. ASSUME NEW j \in Jobs, Enqueue(j) \/ Ripen(j) \/ Retry(j) PROVE TypeOK'
  <2>1. CASE Enqueue(j)
    BY <2>1 DEF Enqueue, locals, TypeOK, Statuses
  <2>2. CASE Ripen(j)
    BY <2>2 DEF Ripen, locals, TypeOK
  <2>3. CASE Retry(j)
    BY <2>3 DEF Retry, Restamped, locals, TypeOK, Statuses
  <2> QED
    BY <1>1, <2>1, <2>2, <2>3
<1>2. ASSUME NEW w \in Workers, ReadCandidates(w) PROVE TypeOK'
  <2> DEFINE found == {j \in Jobs : Claimable(j)}
             read == {[id |-> j, status |-> status[j], attempts |-> attempts[j]] : j \in found}
  <2>1. /\ pc' = [pc EXCEPT ![w] = "claiming"]
        /\ seen' = [seen EXCEPT ![w] = read] /\ timely' = [timely EXCEPT ![w] = found]
        /\ UNCHANGED <<status, attempts, ripe, held, crashes, retries>>
    BY <1>2 DEF ReadCandidates, rows
  <2>2. read \subseteq Candidate /\ found \subseteq Jobs
    BY DEF TypeOK, Candidate
  <2> HIDE DEF read, found
  <2> QED
    BY <2>1, <2>2 DEF TypeOK
<1>3. ASSUME NEW w \in Workers, Try(w) PROVE TypeOK'
  <2>1. PICK c \in First(seen[w]) :
          /\ DeadLetter(w, c) \/ Win(w, c) \/ Lose(w, c)
          /\ seen' = [seen EXCEPT ![w] = @ \ {c}]
          /\ UNCHANGED <<pc, crashes, retries>>
    BY <1>3 DEF Try
  <2>2. c.id \in Jobs /\ c.attempts \in Int
    BY <2>1 DEF First, TypeOK, Candidate
  <2>3. /\ seen' \in [Workers -> SUBSET Candidate]
        /\ pc' \in [Workers -> {"idle", "claiming", "running"}]
        /\ crashes' \in 0..MaxCrashes /\ retries' \in 0..MaxRetries
    BY <2>1 DEF TypeOK
  <2>4. [id |-> c.id, attempts |-> c.attempts + 1] \in Held
    BY <2>2 DEF Held
  <2>5. CASE DeadLetter(w, c)
    <3>1. status' \in [Jobs -> Statuses]
      BY <2>2, <2>5 DEF DeadLetter, TypeOK, Statuses
    <3> QED
      BY <2>1, <2>5, <3>1 DEF DeadLetter, TypeOK
  <2>6. CASE Win(w, c)
    <3> DEFINE g == [id |-> c.id, attempts |-> c.attempts + 1]
    <3>1. /\ status' = [status EXCEPT ![c.id] = "running"]
          /\ attempts' = [attempts EXCEPT ![c.id] = @ + 1]
          /\ ripe' = [ripe EXCEPT ![c.id] = FALSE]
          /\ timely' = [v \in Workers |-> timely[v] \ {c.id}]
          /\ held' = [held EXCEPT ![w] = @ \union {g}]
      BY <2>6 DEF Win, Restamped
    <3>2. g \in Held
      BY <2>4
    <3> HIDE DEF g
    <3>3. /\ status' \in [Jobs -> Statuses] /\ attempts' \in [Jobs -> Int]
          /\ ripe' \in [Jobs -> BOOLEAN]
      <4>1. PICK j \in Jobs : j = c.id
        BY <2>2
      <4>2. attempts' \in [Jobs -> Int]
        <5>1. attempts[j] \in Int
          BY <4>1 DEF TypeOK
        <5>2. attempts' = [attempts EXCEPT ![j] = attempts[j] + 1]
          BY <3>1, <4>1
        <5> QED
          BY <5>1, <5>2 DEF TypeOK
      <4>3. status' \in [Jobs -> Statuses] /\ ripe' \in [Jobs -> BOOLEAN]
        BY <2>2, <3>1 DEF TypeOK, Statuses
      <4> QED
        BY <4>2, <4>3
    <3>4. timely' \in [Workers -> SUBSET Jobs] /\ held' \in [Workers -> SUBSET Held]
      BY <3>1, <3>2 DEF TypeOK
    <3> QED
      BY <2>3, <3>3, <3>4 DEF TypeOK
  <2>7. CASE Lose(w, c)
    BY <2>1, <2>7 DEF Lose, rows, TypeOK
  <2> QED
    BY <2>1, <2>5, <2>6, <2>7
<1>4. ASSUME NEW w \in Workers, Finish(w) PROVE TypeOK'
  <2>1. PICK what \in {"complete", "fail", "defer"}, h \in First(held[w]) :
          /\ Outcome(h, what)
          /\ held' = [held EXCEPT ![w] = @ \ {h}]
          /\ pc' = [pc EXCEPT ![w] = IF held[w] = {h} THEN "idle" ELSE "running"]
          /\ UNCHANGED <<seen, crashes, retries>>
    BY <1>4 DEF Finish, RunJob
  <2>2. h.id \in Jobs
    BY <2>1 DEF First, TypeOK, Held
  <2>3. /\ status' \in [Jobs -> Statuses] /\ attempts' \in [Jobs -> Int]
        /\ ripe' \in [Jobs -> BOOLEAN] /\ timely' \in [Workers -> SUBSET Jobs]
    BY <2>1, <2>2 DEF Outcome, Restamped, TypeOK, Statuses
  <2> QED
    BY <2>1, <2>3 DEF TypeOK
<1>5. ASSUME NEW w \in Workers, EndClaim(w) \/ Crash(w) PROVE TypeOK'
  BY <1>5 DEF EndClaim, Crash, rows, TypeOK
<1>6. ASSUME UNCHANGED vars PROVE TypeOK'
  BY <1>6 DEF vars, rows, locals, TypeOK
<1> QED
  BY <1>1, <1>2, <1>3, <1>4, <1>5, <1>6 DEF Next

\* Types, whatever the batches do.
THEOREM QueueTypes == Spec => []TypeOK
<1>1. Init => TypeOK
  BY QueueInit DEF QueueInv
<1>2. TypeOK /\ [Next]_vars => TypeOK'
  BY QueueTypeStep
<1> QED
  BY <1>1, <1>2, PTL DEF Spec

-----------------------------------------------------------------------------
(* The queue and the guarantee of SKIP LOCKED.                             *)

\* A candidate whose row is still timely is as it was read: who writes attempts gives
\* the row a later run_after or lease.
SnapshotsCurrent ==
  \A w \in Workers : \A c \in seen[w] : c.id \in timely[w] => attempts[c.id] = c.attempts

LEMMA SnapshotsStep ==
  ASSUME TypeOK, SnapshotsCurrent, [Next]_vars
  PROVE  SnapshotsCurrent'
<1> SUFFICES ASSUME NEW v \in Workers, NEW d \in seen'[v], d.id \in timely'[v]
             PROVE  attempts'[d.id] = d.attempts
  BY DEF SnapshotsCurrent
<1>1. ASSUME seen'[v] \subseteq seen[v], timely'[v] \subseteq timely[v],
             attempts'[d.id] = attempts[d.id]
      PROVE  attempts'[d.id] = d.attempts
  BY <1>1 DEF SnapshotsCurrent
<1>2. ASSUME NEW j \in Jobs, Enqueue(j) \/ Ripen(j) PROVE attempts'[d.id] = d.attempts
  BY <1>1, <1>2 DEF Enqueue, Ripen, locals
<1>3. ASSUME NEW j \in Jobs, seen'[v] \subseteq seen[v], timely' = Restamped(j),
             \A i \in Jobs \ {j} : attempts'[i] = attempts[i]
      PROVE  attempts'[d.id] = d.attempts
  <2>1. d.id \in timely[v] /\ d.id # j /\ d.id \in Jobs
    BY <1>3 DEF Restamped, TypeOK
  <2> QED
    BY <1>3, <2>1 DEF SnapshotsCurrent
<1>4. ASSUME NEW j \in Jobs, Retry(j) PROVE attempts'[d.id] = d.attempts
  BY <1>3, <1>4 DEF Retry, locals, TypeOK
<1>5. ASSUME NEW w \in Workers, ReadCandidates(w) PROVE attempts'[d.id] = d.attempts
  <2> DEFINE found == {j \in Jobs : Claimable(j)}
             read == {[id |-> j, status |-> status[j], attempts |-> attempts[j]] : j \in found}
  <2>1. /\ seen' = [seen EXCEPT ![w] = read] /\ timely' = [timely EXCEPT ![w] = found]
        /\ attempts' = attempts
    BY <1>5 DEF ReadCandidates, rows
  <2>2. \A c \in read : attempts[c.id] = c.attempts
    OBVIOUS
  <2> HIDE DEF read, found
  <2>3. CASE v = w
    BY <2>1, <2>2, <2>3 DEF TypeOK
  <2>4. CASE v # w
    BY <1>1, <2>1, <2>4 DEF TypeOK
  <2> QED
    BY <2>3, <2>4
<1>6. ASSUME NEW w \in Workers, Try(w) PROVE attempts'[d.id] = d.attempts
  <2>1. PICK c \in First(seen[w]) :
          /\ DeadLetter(w, c) \/ Win(w, c) \/ Lose(w, c)
          /\ seen' = [seen EXCEPT ![w] = @ \ {c}]
    BY <1>6 DEF Try
  <2>2. seen'[v] \subseteq seen[v] /\ c.id \in Jobs
    BY <2>1 DEF First, TypeOK, Candidate
  <2>3. CASE Win(w, c)
    <3>1. \A i \in Jobs \ {c.id} : attempts'[i] = attempts[i]
      BY <2>2, <2>3 DEF Win, TypeOK
    <3> QED
      BY <1>3, <2>2, <2>3, <3>1 DEF Win
  <2>4. CASE DeadLetter(w, c) \/ Lose(w, c)
    BY <1>1, <2>2, <2>4 DEF DeadLetter, Lose, rows
  <2> QED
    BY <2>1, <2>3, <2>4
<1>7. ASSUME NEW w \in Workers, Finish(w) PROVE attempts'[d.id] = d.attempts
  <2>1. PICK what \in {"complete", "fail", "defer"}, h \in First(held[w]) :
          Outcome(h, what) /\ seen' = seen
    BY <1>7 DEF Finish, RunJob
  <2>2. h.id \in Jobs
    BY <2>1 DEF First, TypeOK, Held
  <2>3. \A i \in Jobs \ {h.id} : attempts'[i] = attempts[i]
    BY <2>1, <2>2 DEF Outcome, TypeOK
  <2> QED
    BY <1>3, <2>1, <2>2, <2>3 DEF Outcome
<1>8. ASSUME NEW w \in Workers, EndClaim(w) \/ Crash(w) PROVE attempts'[d.id] = d.attempts
  <2>1. /\ seen' = [seen EXCEPT ![w] = {}] /\ timely' = [timely EXCEPT ![w] = {}]
        /\ attempts' = attempts
    BY <1>8 DEF EndClaim, Crash, rows
  <2> QED
    BY <1>1, <2>1 DEF TypeOK
<1>9. CASE UNCHANGED vars
  BY <1>1, <1>9 DEF vars, rows, locals
<1> QED
  BY <1>2, <1>4, <1>5, <1>6, <1>7, <1>8, <1>9 DEF Next

LockedInv == QueueInv /\ SnapshotsCurrent

\* Who runs a job, before and after a tick claims or settles it, or dies.
LEMMA RunByTaken ==
  ASSUME TypeOK, NEW w \in Workers, NEW g, g.id \in Jobs,
         \A v \in Workers : \A h \in held[v] : h.id # g.id,
         held' = [held EXCEPT ![w] = @ \union {g}]
  PROVE  RunBy[g.id] = {} /\ RunBy' = [RunBy EXCEPT ![g.id] = {w}]
<1>1. Holders(g.id) = {} /\ Holders(g.id)' = {w}
  BY DEF Holders, TypeOK
<1>2. \A i \in Jobs : i # g.id => Holders(i)' = Holders(i)
  BY DEF Holders, TypeOK
<1> QED
  BY <1>1, <1>2 DEF RunBy

LEMMA RunBySettled ==
  ASSUME QueueInv, NEW w \in Workers, NEW h \in held[w],
         held' = [held EXCEPT ![w] = @ \ {h}]
  PROVE  h.id \in Jobs /\ RunBy[h.id] = {w} /\ RunBy' = [RunBy EXCEPT ![h.id] = {}]
<1>1. h.id \in Jobs
  BY DEF QueueInv, TypeOK, Held
<1>2. \A v \in Workers : \A g \in held[v] : g.id = h.id => v = w /\ g = h
  BY DEF QueueInv, OneHolder
<1>3. Holders(h.id) = {w} /\ Holders(h.id)' = {}
  BY <1>2 DEF Holders, QueueInv, TypeOK
<1>4. \A i \in Jobs : i # h.id => Holders(i)' = Holders(i)
  BY DEF Holders, QueueInv, TypeOK
<1> QED
  BY <1>1, <1>3, <1>4 DEF RunBy

LEMMA RunByLeft ==
  ASSUME TypeOK, NEW w \in Workers, held' = [held EXCEPT ![w] = {}]
  PROVE  RunBy' = [j \in Jobs |-> RunBy[j] \ {w}]
<1>1. \A j \in Jobs : Holders(j)' = Holders(j) \ {w}
  BY DEF Holders, TypeOK
<1> QED
  BY <1>1 DEF RunBy

LEMMA RunByKept == held' = held => RunBy' = RunBy
  BY DEF RunBy, Holders

LEMMA LockedInit == Init => Locked!Init
<1> SUFFICES ASSUME Init PROVE Locked!Init
  OBVIOUS
<1>1. RunBy = [j \in Jobs |-> {}]
  BY DEF Init, RunBy, Holders
<1> QED
  BY <1>1 DEF Init, Locked!Init

\* A claim that wins is a job taken in one step, however old its candidates are.
LEMMA WinTakes ==
  ASSUME LockedInv, NEW w \in Workers, NEW c \in seen[w], Win(w, c)
  PROVE  c.id \in Jobs /\ Locked!Take(c.id, w)
<1> USE QueueAssumption
<1>1. /\ c.id \in Jobs /\ c.attempts \in 0..MaxAttempts
      /\ c.status \in {"queued", "running"}
      /\ c.status = "queued" => c.attempts < MaxAttempts
  BY DEF LockedInv, QueueInv, TypeOK, SnapshotsCount, Candidate
<1> DEFINE g == [id |-> c.id, attempts |-> c.attempts + 1]
<1>2. /\ status[c.id] \in {"queued", "running"} /\ c.id \in timely[w]
      /\ attempts[c.id] = c.attempts
      /\ status' = [status EXCEPT ![c.id] = "running"]
      /\ attempts' = [attempts EXCEPT ![c.id] = @ + 1]
      /\ held' = [held EXCEPT ![w] = @ \union {g}]
  BY DEF Win, Winnable
<1>3. c.attempts < MaxAttempts
  BY <1>1 DEF Win
<1>4. g.id = c.id
  OBVIOUS
<1> HIDE DEF g
<1>5. \A v \in Workers : \A h \in held[v] : h.id # g.id
  BY <1>2, <1>4, TimelyNotHeld DEF LockedInv
<1>6. RunBy[c.id] = {} /\ RunBy' = [RunBy EXCEPT ![c.id] = {w}]
  BY <1>1, <1>2, <1>4, <1>5, RunByTaken DEF LockedInv, QueueInv
<1> QED
  BY <1>1, <1>2, <1>3, <1>6 DEF Locked!Take, Locked!Becomes

\* A job is given up only when its attempts are used up and nobody runs it.
LEMMA DeadLetterBuries ==
  ASSUME LockedInv, NEW w \in Workers, NEW c \in seen[w], DeadLetter(w, c)
  PROVE  UNCHANGED <<status, RunBy, attempts>> \/ (c.id \in Jobs /\ Locked!Bury(c.id))
<1> USE QueueAssumption
<1>1. RunBy' = RunBy /\ attempts' = attempts
  BY RunByKept DEF DeadLetter
<1>2. CASE ~(status[c.id] = "running" /\ c.id \in timely[w])
  BY <1>1, <1>2 DEF DeadLetter
<1>3. CASE status[c.id] = "running" /\ c.id \in timely[w]
  <2>1. c.id \in Jobs /\ c.attempts \in 0..MaxAttempts /\ attempts[c.id] = c.attempts
    BY <1>3 DEF LockedInv, QueueInv, TypeOK, SnapshotsCount, SnapshotsCurrent, Candidate
  <2>2. attempts[c.id] = MaxAttempts /\ status' = [status EXCEPT ![c.id] = "dead"]
    BY <1>3, <2>1 DEF DeadLetter
  <2>3. \A v \in Workers : \A h \in held[v] : h.id # c.id
    BY <1>3, TimelyNotHeld DEF LockedInv
  <2>4. RunBy[c.id] = {}
    BY <2>1, <2>3 DEF RunBy, Holders
  <2> QED
    BY <1>1, <1>3, <2>1, <2>2, <2>4 DEF Locked!Bury, Locked!Becomes
<1> QED
  BY <1>2, <1>3

\* The outcome that is written by id is the one of the only tick that runs the job.
LEMMA RunSettles ==
  ASSUME LockedInv, NEW w \in Workers, NEW what \in {"complete", "fail", "defer"}, RunJob(w, what)
  PROVE  \E j \in Jobs : Locked!Settle(j, w)
<1> USE QueueAssumption
<1>1. PICK h \in First(held[w]) : Outcome(h, what) /\ held' = [held EXCEPT ![w] = @ \ {h}]
  BY DEF RunJob
<1>2. h \in held[w] /\ status[h.id] = "running" /\ attempts[h.id] = h.attempts
      /\ h.attempts \in 1..MaxAttempts
  BY <1>1 DEF First, LockedInv, QueueInv, HeldIsLeased, SnapshotsCount
<1>3. h.id \in Jobs /\ RunBy[h.id] = {w} /\ RunBy' = [RunBy EXCEPT ![h.id] = {}]
  BY <1>1, <1>2, RunBySettled DEF LockedInv
<1>4. UsedUp(h) <=> attempts[h.id] = MaxAttempts
  BY <1>2 DEF UsedUp
<1>5. attempts \in [Jobs -> Int]
  BY DEF LockedInv, QueueInv, TypeOK
<1>6. CASE what = "complete"
  <2>1. status' = [status EXCEPT ![h.id] = "done"] /\ attempts' = attempts
    BY <1>1, <1>3, <1>5, <1>6 DEF Outcome
  <2> QED
    BY <1>2, <1>3, <2>1 DEF Locked!Settle, Locked!Becomes
<1>7. CASE what = "fail"
  <2>1. /\ status' = [status EXCEPT ![h.id] =
                        IF attempts[h.id] = MaxAttempts THEN "dead" ELSE "queued"]
        /\ attempts' = attempts
    BY <1>1, <1>3, <1>4, <1>5, <1>7 DEF Outcome
  <2> QED
    BY <1>2, <1>3, <2>1 DEF Locked!Settle, Locked!Becomes
<1>8. CASE what = "defer"
  <2>1. /\ status' = [status EXCEPT ![h.id] = "queued"]
        /\ attempts' = [attempts EXCEPT ![h.id] = @ - 1]
    BY <1>1, <1>8 DEF Outcome
  <2> QED
    BY <1>2, <1>3, <2>1 DEF Locked!Settle, Locked!Becomes
<1> QED
  BY <1>6, <1>7, <1>8

LEMMA LockedStep ==
  ASSUME LockedInv, [Next]_vars
  PROVE  [Locked!Next]_(Locked!vars)
<1> SUFFICES Locked!Next \/ UNCHANGED <<status, RunBy, attempts>>
  BY DEF Locked!vars
<1>1. ASSUME NEW j \in Jobs, Enqueue(j) \/ Ripen(j) \/ Retry(j)
      PROVE  Locked!Next \/ UNCHANGED <<status, RunBy, attempts>>
  <2>1. RunBy' = RunBy
    BY <1>1, RunByKept DEF Enqueue, Ripen, Retry, locals
  <2>2. Enqueue(j) => Locked!Enqueue(j)
    BY <2>1 DEF Enqueue, Locked!Enqueue, Locked!Becomes
  <2>3. Retry(j) => Locked!Retry(j)
    BY <2>1 DEF Retry, Locked!Retry, Locked!Becomes
  <2>4. Ripen(j) => UNCHANGED <<status, RunBy, attempts>>
    BY <2>1 DEF Ripen
  <2> QED
    BY <1>1, <2>2, <2>3, <2>4 DEF Locked!Next
<1>2. ASSUME NEW w \in Workers, ReadCandidates(w) \/ EndClaim(w)
      PROVE  UNCHANGED <<status, RunBy, attempts>>
  BY <1>2, RunByKept DEF ReadCandidates, EndClaim, rows
<1>3. ASSUME NEW w \in Workers, Try(w)
      PROVE  Locked!Next \/ UNCHANGED <<status, RunBy, attempts>>
  <2>1. PICK c \in First(seen[w]) : DeadLetter(w, c) \/ Win(w, c) \/ Lose(w, c)
    BY <1>3 DEF Try
  <2>2. c \in seen[w]
    BY <2>1 DEF First
  <2>3. CASE Win(w, c)
    BY <2>2, <2>3, WinTakes DEF Locked!Next
  <2>4. CASE DeadLetter(w, c)
    BY <2>2, <2>4, DeadLetterBuries DEF Locked!Next
  <2>5. CASE Lose(w, c)
    BY <2>5, RunByKept DEF Lose, rows
  <2> QED
    BY <2>1, <2>3, <2>4, <2>5
<1>4. ASSUME NEW w \in Workers, Finish(w) PROVE Locked!Next
  BY <1>4, RunSettles DEF Finish, Locked!Next
<1>5. ASSUME NEW w \in Workers, Crash(w) PROVE Locked!Next
  <2>1. RunBy' = [j \in Jobs |-> RunBy[j] \ {w}]
    BY <1>5, RunByLeft DEF Crash, LockedInv, QueueInv
  <2>2. Locked!Leave(w)
    BY <1>5, <2>1 DEF Crash, rows, Locked!Leave
  <2> QED
    BY <2>2 DEF Locked!Next
<1>6. CASE UNCHANGED vars
  BY <1>6, RunByKept DEF vars, rows, locals
<1> QED
  BY <1>1, <1>2, <1>3, <1>4, <1>5, <1>6 DEF Next

\* Claims by compare-and-swap give the guarantee of SKIP LOCKED, as the comment of
\* claim says, for any number of ticks, jobs, attempts and crashes: the queue
\* implements one in which a tick takes a job in one step and is the only one to
\* settle it; as long as no batch outlasts its lease.
THEOREM QueueActsLocked ==
  ASSUME ~MaySlow
  PROVE  Spec => ActsLocked
<1>1. Init => LockedInv
  BY QueueInit DEF Init, LockedInv, SnapshotsCurrent
<1>2. LockedInv /\ [Next]_vars => LockedInv'
  BY QueueStep, SnapshotsStep DEF LockedInv, QueueInv
<1>3. LockedInv /\ [Next]_vars => [Locked!Next]_(Locked!vars)
  BY LockedStep
<1> QED
  BY <1>1, <1>2, <1>3, LockedInit, PTL DEF Spec, ActsLocked, Locked!Spec

-----------------------------------------------------------------------------
(* The tasks market.                                                        *)

\* closeTask goes on to a profile only when somebody was hired.
ProfileOf == \A h \in Handlers : call[h].pc = "profile" => call[h].tasker # Nobody

MarketTyped == MarketTypeOK /\ ProfileOf

\* What an assignment says, and that an open task has none.
Hired ==
  /\ \A t \in Tasks : task[t].status = "open" =>
       task[t].offer = Nobody /\ task[t].tasker = Nobody
  /\ \A t \in Tasks : task[t].offer # Nobody =>
       OfferFor[task[t].offer] = t /\ task[t].tasker = OfferBy[task[t].offer]
  /\ \A o \in Offers : offer[o] = "accepted" => task[OfferFor[o]].offer = o

-----------------------------------------------------------------------------
(* Types.                                                                  *)

LEMMA CallFields ==
  ASSUME MarketTypeOK, NEW h \in Handlers
  PROVE  /\ call[h].pc \in {"offer", "withdraw", "accept"} => call[h].offer \in Offers
         /\ call[h].pc = "edit" => call[h].task \in Tasks /\ call[h].seen \in Row
         /\ call[h].pc \in {"cancelOffers", "cancel", "complete"} =>
              /\ call[h].task \in Tasks
              /\ call[h] = [pc |-> call[h].pc, task |-> call[h].task]
         /\ call[h].pc \in {"close", "profile"} =>
              /\ call[h].task \in Tasks /\ call[h].tasker \in Taskers \union {Nobody}
              /\ call[h].due \in Due
              /\ call[h] = [pc |-> call[h].pc, task |-> call[h].task,
                            tasker |-> call[h].tasker, due |-> call[h].due]
         /\ call[h].pc = "count" =>
              /\ call[h].tasker \in Taskers /\ call[h].due \in Due /\ call[h].read \in Nat
              /\ call[h].late \in BOOLEAN
<1>1. call[h] \in Locals
  BY DEF MarketTypeOK
<1> QED
  BY <1>1 DEF Locals, NoCall

\* A handler whose mine become another record of Locals, and no profile of nobody.
LEMMA CallStored ==
  ASSUME MarketTyped, NEW h \in Handlers, NEW mine \in Locals,
         mine.pc = "profile" => mine.tasker # Nobody,
         call' = [call EXCEPT ![h] = mine]
  PROVE  call' \in [Handlers -> Locals] /\ ProfileOf'
  BY DEF MarketTyped, MarketTypeOK, ProfileOf

LEMMA ReturnStored ==
  ASSUME MarketTyped, NEW h \in Handlers, Return(h)
  PROVE  call' \in [Handlers -> Locals] /\ ProfileOf'
<1>1. NoCall \in Locals /\ NoCall.pc # "profile"
  BY DEF Locals, NoCall
<1> QED
  BY <1>1, CallStored DEF Return

LEMMA OnwardStored ==
  ASSUME MarketTyped, NEW h \in Handlers, call[h].pc \in {"close", "count"}, Onward(h)
  PROVE  call' \in [Handlers -> Locals] /\ ProfileOf'
<1>1. CASE Return(h)
  BY <1>1, ReturnStored
<1>2. ASSUME NEW row \in call[h].due,
             call' = [call EXCEPT ![h] = Closing(row.task, row.tasker, @.due \ {row})]
      PROVE  call' \in [Handlers -> Locals] /\ ProfileOf'
  <2>1. call[h].due \in Due
    BY CallFields DEF MarketTyped
  <2>2. row.task \in Tasks /\ row.tasker \in Taskers \union {Nobody} /\ call[h].due \ {row} \in Due
    BY <2>1 DEF Due
  <2> DEFINE next == Closing(row.task, row.tasker, call[h].due \ {row})
  <2>3. next \in Locals /\ next.pc # "profile"
    BY <2>2 DEF Closing, Locals
  <2>4. call' = [call EXCEPT ![h] = next]
    BY <1>2
  <2> QED
    BY <2>3, <2>4, CallStored
<1> QED
  BY <1>1, <1>2 DEF Onward

LEMMA MarketTypeInit == MarketInit => MarketTyped
<1> SUFFICES ASSUME MarketInit PROVE MarketTyped
  OBVIOUS
<1>1. Posted \in Row /\ NoCall \in Locals /\ NoCall.pc # "profile"
  BY DEF Posted, Row, TaskStatuses, NoCall, Locals
<1> QED
  BY <1>1 DEF MarketInit, MarketTyped, MarketTypeOK, ProfileOf, OfferStatuses

LEMMA BeginTypes ==
  ASSUME MarketTyped, NEW c \in Calls, NEW mine \in Locals, mine.pc # "profile", Begin(c, mine)
  PROVE  MarketTyped'
<1>1. c \in Handlers
  BY DEF Handlers
<1>2. call' \in [Handlers -> Locals] /\ ProfileOf'
  BY <1>1, CallStored DEF Begin
<1> QED
  BY <1>2 DEF MarketTyped, MarketTypeOK, Begin

LEMMA RequestTypes ==
  ASSUME MarketTyped, NEW c \in Calls,
         \/ \E o \in Offers : BeginOffer(c, o) \/ BeginWithdraw(c, o) \/ BeginAccept(c, o)
         \/ \E t \in Tasks : BeginEdit(c, t) \/ BeginCancel(c, t)
                               \/ BeginComplete(c, t) \/ BeginConfirm(c, t)
  PROVE  MarketTyped'
<1>1. ASSUME NEW o \in Offers, BeginOffer(c, o) \/ BeginWithdraw(c, o) \/ BeginAccept(c, o)
      PROVE MarketTyped'
  <2>1. \A place \in {"offer", "withdraw", "accept"} :
          [pc |-> place, offer |-> o] \in Locals /\ [pc |-> place, offer |-> o].pc # "profile"
    BY DEF Locals
  <2> QED
    BY <1>1, <2>1, BeginTypes DEF BeginOffer, BeginWithdraw, BeginAccept
<1>2. ASSUME NEW t \in Tasks, BeginEdit(c, t) PROVE MarketTyped'
  <2>1. task[t] \in Row
    BY DEF MarketTyped, MarketTypeOK
  <2> DEFINE next == [pc |-> "edit", task |-> t, seen |-> task[t]]
  <2>2. next \in Locals /\ next.pc # "profile"
    BY <2>1 DEF Locals
  <2> QED
    BY <1>2, <2>2, BeginTypes DEF BeginEdit
<1>3. ASSUME NEW t \in Tasks, BeginCancel(c, t) \/ BeginComplete(c, t) PROVE MarketTyped'
  <2>1. \A place \in {"cancelOffers", "complete"} :
          [pc |-> place, task |-> t] \in Locals /\ [pc |-> place, task |-> t].pc # "profile"
    BY DEF Locals
  <2> QED
    BY <1>3, <2>1, BeginTypes DEF BeginCancel, BeginComplete
<1>4. ASSUME NEW t \in Tasks, BeginConfirm(c, t) PROVE MarketTyped'
  <2>1. task[t].tasker \in Taskers \union {Nobody}
    BY DEF MarketTyped, MarketTypeOK, Row
  <2> DEFINE next == Closing(t, task[t].tasker, {})
  <2>2. next \in Locals /\ next.pc # "profile"
    BY <2>1 DEF Locals, Closing, Due
  <2> QED
    BY <1>4, <2>2, BeginTypes DEF BeginConfirm
<1> QED
  BY <1>1, <1>2, <1>3, <1>4

LEMMA FindDueTypes == MarketTyped /\ FindDue => MarketTyped'
<1> SUFFICES ASSUME MarketTyped, FindDue PROVE MarketTyped'
  OBVIOUS
<1> DEFINE due == {t \in Tasks : task[t].status = "completed" /\ task[t].aged}
           dueRows == {[task |-> t, tasker |-> task[t].tasker] : t \in due}
<1>1. PICK row \in dueRows :
        call' = [call EXCEPT ![hourly] = Closing(row.task, row.tasker, dueRows \ {row})]
  BY DEF FindDue
<1>2. \A t \in due : t \in Tasks /\ task[t].tasker \in Taskers \union {Nobody}
  BY DEF MarketTyped, MarketTypeOK, Row
<1>3. dueRows \subseteq [task: Tasks, tasker: Taskers \union {Nobody}]
  BY <1>2
<1> HIDE DEF dueRows, due
<1> DEFINE next == Closing(row.task, row.tasker, dueRows \ {row})
<1>4. next \in Locals /\ next.pc # "profile"
  <2>1. row.task \in Tasks /\ row.tasker \in Taskers \union {Nobody} /\ dueRows \ {row} \in Due
    BY <1>3 DEF Due
  <2> QED
    BY <2>1 DEF Closing, Locals
<1>5. hourly \in Handlers
  BY DEF Handlers
<1> HIDE DEF next
<1>6. call' \in [Handlers -> Locals] /\ ProfileOf'
  BY <1>1, <1>4, <1>5, CallStored DEF next
<1> QED
  BY <1>6 DEF MarketTyped, MarketTypeOK, FindDue, Rest

LEMMA CallStepTypes == ASSUME MarketTyped, NEW c \in Calls, CallStep(c) PROVE MarketTyped'
<1>1. c \in Handlers
  BY DEF Handlers
<1>2. CASE MakeOffer(c) \/ WithdrawOffer(c)
  <2>1. call' \in [Handlers -> Locals] /\ ProfileOf'
    BY <1>1, <1>2, ReturnStored DEF MakeOffer, WithdrawOffer
  <2>2. offer' \in [Offers -> OfferStatuses]
    BY <1>2 DEF MakeOffer, WithdrawOffer, MarketTyped, MarketTypeOK, OfferStatuses
  <2> QED
    BY <1>2, <2>1, <2>2 DEF MakeOffer, WithdrawOffer, MarketTyped, MarketTypeOK, Rest
<1>3. CASE AcceptOffer(c)
  <2>1. call' \in [Handlers -> Locals] /\ ProfileOf'
    BY <1>1, <1>3, ReturnStored DEF AcceptOffer
  <2>2. call[c].offer \in Offers
    BY <1>1, <1>3, CallFields DEF AcceptOffer, MarketTyped
  <2>3. \A o \in Offers : OfferFor[o] \in Tasks /\ OfferBy[o] \in Taskers
    BY MarketAssumption
  <2>4. ASSUME NEW o \in Offers
        PROVE  Assigned(OfferFor[o], o) \in Row /\ Settled(OfferFor[o], o) \in [Offers -> OfferStatuses]
    <3>1. task[OfferFor[o]] \in Row
      BY <2>3 DEF MarketTyped, MarketTypeOK
    <3>2. Assigned(OfferFor[o], o) \in Row
      BY <2>3, <3>1 DEF Assigned, Row, TaskStatuses
    <3> QED
      BY <3>2 DEF Settled, MarketTyped, MarketTypeOK, OfferStatuses
  <2>5. task' \in [Tasks -> Row] /\ offer' \in [Offers -> OfferStatuses]
    BY <1>3, <2>2, <2>3, <2>4 DEF AcceptOffer, MarketTyped, MarketTypeOK
  <2> QED
    BY <1>3, <2>1, <2>5 DEF AcceptOffer, MarketTyped, MarketTypeOK, Rest
<1>4. CASE SaveEdit(c)
  <2>1. call' \in [Handlers -> Locals] /\ ProfileOf'
    BY <1>1, <1>4, ReturnStored DEF SaveEdit
  <2>2. call[c].task \in Tasks /\ call[c].seen \in Row
    BY <1>1, <1>4, CallFields DEF SaveEdit, MarketTyped
  <2>3. task' \in [Tasks -> Row]
    BY <1>4, <2>2 DEF SaveEdit, MarketTyped, MarketTypeOK
  <2> QED
    BY <1>4, <2>1, <2>3 DEF SaveEdit, MarketTyped, MarketTypeOK, Rest
<1>5. CASE CancelOffers(c)
  <2> DEFINE next == [pc |-> "cancel", task |-> call[c].task]
  <2>1. call[c].task \in Tasks /\ call[c] = [pc |-> "cancelOffers", task |-> call[c].task]
    BY <1>1, <1>5, CallFields DEF CancelOffers, MarketTyped
  <2>2. next \in Locals /\ next.pc # "profile"
    BY <2>1 DEF Locals
  <2>3. [call[c] EXCEPT !.pc = "cancel"] = next
    BY <2>1
  <2>4. call' = [call EXCEPT ![c] = next]
    BY <1>5, <2>3 DEF CancelOffers
  <2>5. call' \in [Handlers -> Locals] /\ ProfileOf'
    BY <1>1, <2>2, <2>4, CallStored
  <2>6. offer' \in [Offers -> OfferStatuses]
    BY <1>5 DEF CancelOffers, MarketTyped, MarketTypeOK, OfferStatuses
  <2> QED
    BY <1>5, <2>5, <2>6 DEF CancelOffers, MarketTyped, MarketTypeOK, Rest
<1>6. CASE CancelTask(c) \/ MarkComplete(c)
  <2>1. call' \in [Handlers -> Locals] /\ ProfileOf'
    BY <1>1, <1>6, ReturnStored DEF CancelTask, MarkComplete
  <2>2. task' \in [Tasks -> Row]
    <3>1. task \in [Tasks -> Row]
      BY DEF MarketTyped, MarketTypeOK
    <3>2. CASE CancelTask(c)
      <4>1. \A t \in Tasks, s \in TaskStatuses : [task[t] EXCEPT !.status = s] \in Row
        BY <3>1 DEF Row
      <4>2. \A t \in Tasks : (IF task[t].status = "gone" THEN "gone" ELSE "cancelled") \in TaskStatuses
        BY DEF TaskStatuses
      <4> QED
        BY <3>1, <3>2, <4>1, <4>2 DEF CancelTask, SetStatus
    <3>3. CASE MarkComplete(c)
      <4>1. \A t \in Tasks : [task[t] EXCEPT !.status = "completed", !.aged = FALSE] \in Row
        BY <3>1 DEF Row, TaskStatuses
      <4> QED
        BY <3>1, <3>3, <4>1 DEF MarkComplete
    <3> QED
      BY <1>6, <3>2, <3>3
  <2> QED
    BY <1>6, <2>1, <2>2 DEF CancelTask, MarkComplete, MarketTyped, MarketTypeOK, Rest
<1> QED
  BY <1>2, <1>3, <1>4, <1>5, <1>6 DEF CallStep

LEMMA CloseTaskTypes == ASSUME MarketTyped, NEW h \in Handlers, CloseTask(h) PROVE MarketTyped'
<1> DEFINE next == [pc |-> "profile", task |-> call[h].task, tasker |-> call[h].tasker,
                    due |-> call[h].due]
<1>1. /\ call[h].task \in Tasks /\ call[h].tasker \in Taskers \union {Nobody}
      /\ call[h].due \in Due
      /\ call[h] = [pc |-> "close", task |-> call[h].task, tasker |-> call[h].tasker,
                    due |-> call[h].due]
  BY CallFields DEF CloseTask, MarketTyped
<1>2. next \in Locals
  BY <1>1 DEF Locals
<1>3. [call[h] EXCEPT !.pc = "profile"] = next
  BY <1>1
<1>4. call' \in [Handlers -> Locals] /\ ProfileOf'
  <2>1. CASE Onward(h)
    BY <2>1, OnwardStored DEF CloseTask
  <2>2. CASE call[h].tasker # Nobody /\ call' = [call EXCEPT ![h].pc = "profile"]
    <3>1. call' = [call EXCEPT ![h] = next] /\ next.tasker # Nobody
      BY <1>3, <2>2
    <3> QED
      BY <1>2, <3>1, CallStored
  <2> QED
    BY <2>1, <2>2 DEF CloseTask
<1>5. task' \in [Tasks -> Row] /\ closings' \in [Taskers -> Nat] /\ uncounted' \subseteq Taskers
  BY DEF CloseTask, Missed, SetStatus, MarketTyped, MarketTypeOK, Row, TaskStatuses
<1> QED
  BY <1>4, <1>5 DEF CloseTask, MarketTyped, MarketTypeOK

LEMMA ProfileTypes ==
  ASSUME MarketTyped, NEW h \in Handlers, ReadProfile(h) \/ CountClosing(h) PROVE MarketTyped'
<1>1. CASE ReadProfile(h)
  <2> DEFINE u == call[h].tasker
             next == [pc |-> "count", tasker |-> u, due |-> call[h].due,
                      read |-> done[u], late |-> u \in left]
  <2>1. u \in Taskers /\ call[h].due \in Due
    BY <1>1, CallFields DEF ReadProfile, MarketTyped, ProfileOf
  <2>2. next \in Locals /\ next.pc # "profile"
    BY <2>1 DEF Locals, MarketTyped, MarketTypeOK
  <2>3. call' = [call EXCEPT ![h] = next]
    BY <1>1 DEF ReadProfile
  <2> HIDE DEF next
  <2>4. call' \in [Handlers -> Locals] /\ ProfileOf'
    BY <2>2, <2>3, CallStored
  <2> QED
    BY <1>1, <2>4 DEF ReadProfile, MarketTyped, MarketTypeOK, Rest
<1>2. CASE CountClosing(h)
  <2>1. call[h].tasker \in Taskers /\ call[h].read \in Nat
    BY <1>2, CallFields DEF CountClosing, MarketTyped
  <2>2. call' \in [Handlers -> Locals] /\ ProfileOf'
    BY <1>2, OnwardStored DEF CountClosing
  <2>3. done' \in [Taskers -> Nat]
    BY <1>2, <2>1 DEF CountClosing, MarketTyped, MarketTypeOK
  <2> QED
    BY <1>2, <2>2, <2>3 DEF CountClosing, MarketTyped, MarketTypeOK
<1> QED
  BY <1>1, <1>2

LEMMA OtherTypes ==
  ASSUME MarketTyped,
         \/ \E t \in Tasks : GrowOld(t) \/ DeletePoster(t)
         \/ \E u \in Taskers : DeleteTasker(u)
  PROVE  MarketTyped'
<1>1. Posted \in Row
  BY DEF Posted, Row, TaskStatuses
<1>2. ASSUME NEW t \in Tasks, GrowOld(t) \/ DeletePoster(t) PROVE MarketTyped'
  <2>1. task' \in [Tasks -> Row] /\ offer' \in [Offers -> OfferStatuses]
    <3>1. CASE GrowOld(t)
      BY <3>1 DEF GrowOld, MarketTyped, MarketTypeOK, Row
    <3>2. CASE DeletePoster(t)
      <4>1. [Posted EXCEPT !.status = "gone"] \in Row
        BY DEF Posted, Row, TaskStatuses
      <4> QED
        BY <3>2, <4>1 DEF DeletePoster, MarketTyped, MarketTypeOK, OfferStatuses
    <3> QED
      BY <1>2, <3>1, <3>2
  <2> QED
    BY <1>2, <2>1 DEF GrowOld, DeletePoster, MarketTyped, MarketTypeOK, ProfileOf, Rest
<1>3. ASSUME NEW u \in Taskers, DeleteTasker(u) PROVE MarketTyped'
  <2>1. task' \in [Tasks -> Row] /\ offer' \in [Offers -> OfferStatuses]
    BY <1>1, <1>3 DEF DeleteTasker, MarketTyped, MarketTypeOK, Row, TaskStatuses, OfferStatuses
  <2> QED
    BY <1>3, <2>1 DEF DeleteTasker, MarketTyped, MarketTypeOK, ProfileOf
<1> QED
  BY <1>2, <1>3

LEMMA MarketTypeStep == MarketTyped /\ [MarketNext]_marketVars => MarketTyped'
<1> SUFFICES ASSUME MarketTyped, [MarketNext]_marketVars PROVE MarketTyped'
  OBVIOUS
<1>1. CASE UNCHANGED marketVars
  BY <1>1 DEF marketVars, MarketTyped, MarketTypeOK, ProfileOf
<1>2. ASSUME NEW c \in Calls,
        \/ \E o \in Offers : BeginOffer(c, o) \/ BeginWithdraw(c, o) \/ BeginAccept(c, o)
        \/ \E t \in Tasks : BeginEdit(c, t) \/ BeginCancel(c, t)
                              \/ BeginComplete(c, t) \/ BeginConfirm(c, t)
        \/ CallStep(c)
      PROVE MarketTyped'
  BY <1>2, RequestTypes, CallStepTypes
<1>3. ASSUME NEW h \in Handlers, HandlerStep(h) PROVE MarketTyped'
  BY <1>3, CloseTaskTypes, ProfileTypes DEF HandlerStep
<1>4. ASSUME NEW h \in Handlers, Fail(h) PROVE MarketTyped'
  BY <1>4, ReturnStored DEF Fail, MarketTyped, MarketTypeOK
<1>5. CASE FindDue
  BY <1>5, FindDueTypes
<1>6. CASE \/ \E t \in Tasks : GrowOld(t) \/ DeletePoster(t)
           \/ \E u \in Taskers : DeleteTasker(u)
  BY <1>6, OtherTypes
<1> QED
  BY <1>1, <1>2, <1>3, <1>4, <1>5, <1>6 DEF MarketNext

\* The dueRows and the mine of the handlers have their types.
THEOREM MarketTypes == MarketSpec => []MarketTyped
  BY MarketTypeInit, MarketTypeStep, PTL DEF MarketSpec

-----------------------------------------------------------------------------
(* Who is hired.                                                           *)

LEMMA HiredInit == MarketInit => Hired
  BY MarketAssumption DEF MarketInit, Posted, Hired

\* The one step that hires.
LEMMA AcceptHires ==
  ASSUME MarketTyped, Hired, NEW c \in Calls, AcceptOffer(c) PROVE Hired' /\ HiredForGood
<1> DEFINE o == call[c].offer
           t == OfferFor[o]
<1>1. o \in Offers /\ t \in Tasks /\ c \in Handlers
  <2>1. c \in Handlers
    BY DEF Handlers
  <2> QED
    BY <2>1, CallFields, MarketAssumption DEF AcceptOffer, MarketTyped
<1>2. CASE ~StillOpen(t)
  BY <1>2 DEF AcceptOffer, Hired, HiredForGood
<1>3. CASE StillOpen(t)
  <2>1. task' = [task EXCEPT ![t] = Assigned(t, o)] /\ offer' = Settled(t, o)
    BY <1>3 DEF AcceptOffer
  <2>2. task[t].status = "open" /\ task[t].offer = Nobody
    BY <1>1, <1>3 DEF StillOpen, Hired
  <2>3. task \in [Tasks -> Row] /\ o # Nobody
    BY <1>1, MarketAssumption DEF MarketTyped, MarketTypeOK
  <2>4. /\ task'[t].status = "assigned" /\ task'[t].offer = o /\ task'[t].tasker = OfferBy[o]
        /\ \A s \in Tasks \ {t} : task'[s] = task[s]
    BY <1>1, <2>1, <2>3 DEF Assigned, Row
  <2>5. \A p \in Offers : offer'[p] = "accepted" => p = o \/ offer[p] = "accepted"
    BY <2>1 DEF Settled
  <2>6. \A p \in Offers : offer[p] = "accepted" => OfferFor[p] # t
    BY <2>2, MarketAssumption DEF Hired
  <2>7. \A p \in Offers : OfferFor[p] \in Tasks
    BY MarketAssumption
  <2> HIDE DEF o, t
  <2>8. Hired'
    BY <1>1, <2>2, <2>3, <2>4, <2>5, <2>6, <2>7 DEF Hired, t
  <2>9. HiredForGood
    BY <1>1, <2>2, <2>4 DEF HiredForGood
  <2> QED
    BY <2>8, <2>9
<1> QED
  BY <1>2, <1>3

\* A step that leaves every assignment alone, opens no task and accepts no offer.
LEMMA KeepsHired ==
  ASSUME Hired,
         \A s \in Tasks : /\ task'[s].offer = task[s].offer /\ task'[s].tasker = task[s].tasker
                          /\ task'[s].status = "open" => task[s].status = "open",
         \A p \in Offers : offer'[p] = "accepted" => offer[p] = "accepted"
  PROVE  Hired' /\ HiredForGood
<1>1. \A p \in Offers : OfferFor[p] \in Tasks
  BY MarketAssumption
<1> QED
  BY <1>1 DEF Hired, HiredForGood

LEMMA CallHires ==
  ASSUME MarketTyped, Hired, ~EditsOverlap, NEW c \in Calls, CallStep(c)
  PROVE  Hired' /\ HiredForGood
<1>1. task \in [Tasks -> Row] /\ offer \in [Offers -> OfferStatuses]
  BY DEF MarketTyped, MarketTypeOK
<1>2. CASE AcceptOffer(c)
  BY <1>2, AcceptHires
<1>3. CASE MakeOffer(c) \/ WithdrawOffer(c) \/ CancelOffers(c)
  <2>1. /\ task' = task
        /\ \A p \in Offers : offer'[p] = "accepted" => offer[p] = "accepted"
    BY <1>1, <1>3 DEF MakeOffer, WithdrawOffer, CancelOffers
  <2> QED
    BY <2>1, KeepsHired
<1>4. CASE CancelTask(c) \/ MarkComplete(c)
  <2>1. /\ offer' = offer
        /\ \A s \in Tasks : /\ task'[s].offer = task[s].offer /\ task'[s].tasker = task[s].tasker
                            /\ task'[s].status = "open" => task[s].status = "open"
    <3>1. CASE CancelTask(c)
      BY <1>1, <3>1 DEF CancelTask, SetStatus, Row
    <3>2. CASE MarkComplete(c)
      <4>1. \A t \in Tasks : LET r == [task[t] EXCEPT !.status = "completed", !.aged = FALSE]
                             IN  r.offer = task[t].offer /\ r.tasker = task[t].tasker
                                   /\ r.status = "completed"
        BY <1>1 DEF Row
      <4>2. \A s \in Tasks : task'[s] \in
              {task[s], [task[s] EXCEPT !.status = "completed", !.aged = FALSE]}
        BY <1>1, <3>2 DEF MarkComplete
      <4> QED
        BY <3>2, <4>1, <4>2 DEF MarkComplete
    <3> QED
      BY <1>4, <3>1, <3>2
  <2> QED
    BY <2>1, KeepsHired
<1>5. CASE SaveEdit(c)
  <2>1. task' = task /\ offer' = offer
    BY <1>1, <1>5 DEF SaveEdit
  <2> QED
    BY <2>1, KeepsHired
<1> QED
  BY <1>2, <1>3, <1>4, <1>5 DEF CallStep

LEMMA CloseHires ==
  ASSUME MarketTyped, Hired, NEW h \in Handlers, HandlerStep(h) PROVE Hired' /\ HiredForGood
<1>1. task \in [Tasks -> Row]
  BY DEF MarketTyped, MarketTypeOK
<1>2. /\ offer' = offer
      /\ \A s \in Tasks : /\ task'[s].offer = task[s].offer /\ task'[s].tasker = task[s].tasker
                          /\ task'[s].status = "open" => task[s].status = "open"
  BY <1>1 DEF HandlerStep, CloseTask, ReadProfile, CountClosing, SetStatus, Row
<1> QED
  BY <1>2, KeepsHired

LEMMA DeleteHires ==
  ASSUME MarketTyped, Hired,
         \/ \E t \in Tasks : DeletePoster(t)
         \/ \E u \in Taskers : DeleteTasker(u)
  PROVE  Hired' /\ HiredForGood
<1>1. /\ task \in [Tasks -> Row]
      /\ \A p \in Offers : OfferFor[p] \in Tasks /\ OfferBy[p] \in Taskers /\ p # Nobody
  BY MarketAssumption DEF MarketTyped, MarketTypeOK
<1>2. ASSUME NEW t \in Tasks, DeletePoster(t) PROVE Hired' /\ HiredForGood
  <2>1. /\ task'[t] = [Posted EXCEPT !.status = "gone"]
        /\ \A s \in Tasks \ {t} : task'[s] = task[s]
        /\ \A p \in Offers : offer'[p] = IF OfferFor[p] = t THEN "none" ELSE offer[p]
    BY <1>1, <1>2 DEF DeletePoster
  <2>2. task'[t].offer = Nobody /\ task'[t].status = "gone"
    BY <2>1 DEF Posted
  <2>3. HiredForGood
    BY <2>1, <2>2 DEF HiredForGood
  <2>4. /\ \A s \in Tasks : task'[s].status = "open" =>
             task'[s].offer = Nobody /\ task'[s].tasker = Nobody
        /\ \A s \in Tasks : task'[s].offer # Nobody => s # t
        /\ \A p \in Offers : offer'[p] = "accepted" => OfferFor[p] # t /\ offer[p] = "accepted"
    BY <2>1, <2>2 DEF Hired
  <2>5. Hired'
    BY <1>1, <2>1, <2>4 DEF Hired
  <2> QED
    BY <2>3, <2>5
<1>3. ASSUME NEW u \in Taskers, DeleteTasker(u) PROVE Hired' /\ HiredForGood
  <2>1. /\ \A s \in Tasks : s \in WorkOf(u) =>
             task'[s].offer = Nobody /\ task'[s].tasker = Nobody
        /\ \A s \in Tasks : s \notin WorkOf(u) => task'[s] = task[s]
        /\ \A p \in Offers : offer'[p] = IF OfferBy[p] = u THEN "none" ELSE offer[p]
        /\ u \in left'
    BY <1>3 DEF DeleteTasker, Posted
  <2>2. \A s \in Tasks : s \in WorkOf(u) => task[s].tasker = u
    BY DEF WorkOf
  <2>3. \A p \in Offers : offer[p] = "accepted" /\ OfferBy[p] # u => OfferFor[p] \notin WorkOf(u)
    BY <1>1, <2>2 DEF Hired
  <2>4. HiredForGood
    BY <2>1, <2>2 DEF Hired, HiredForGood
  <2>5. Hired'
    BY <1>1, <2>1, <2>3 DEF Hired
  <2> QED
    BY <2>4, <2>5
<1> QED
  BY <1>2, <1>3

LEMMA HiredStep ==
  ASSUME MarketTyped, Hired, ~EditsOverlap, [MarketNext]_marketVars
  PROVE  Hired' /\ HiredForGood
<1>1. CASE /\ UNCHANGED <<task, offer>>
  BY <1>1, KeepsHired
<1>2. ASSUME NEW t \in Tasks, GrowOld(t) PROVE Hired' /\ HiredForGood
  <2>1. /\ offer' = offer
        /\ \A s \in Tasks : /\ task'[s].offer = task[s].offer /\ task'[s].tasker = task[s].tasker
                            /\ task'[s].status = "open" => task[s].status = "open"
    BY <1>2 DEF GrowOld, MarketTyped, MarketTypeOK, Row
  <2> QED
    BY <2>1, KeepsHired
<1>3. ASSUME NEW c \in Calls, CallStep(c) PROVE Hired' /\ HiredForGood
  BY <1>3, CallHires
<1>4. ASSUME NEW h \in Handlers, HandlerStep(h) PROVE Hired' /\ HiredForGood
  BY <1>4, CloseHires
<1>5. CASE \/ \E t \in Tasks : DeletePoster(t)
           \/ \E u \in Taskers : DeleteTasker(u)
  BY <1>5, DeleteHires
<1> QED
  BY <1>1, <1>2, <1>3, <1>4, <1>5
  DEF MarketNext, marketVars, FindDue, Fail, Begin, BeginOffer, BeginWithdraw, BeginAccept,
      BeginEdit, BeginCancel, BeginComplete, BeginConfirm

\* Two offers for a task are never both accepted, and an accepted offer is the one
\* that was hired, whatever requests race (acceptOffer, tasks.service.ts).
THEOREM MarketAccepted == ~EditsOverlap => (MarketSpec => []AcceptedIsHired)
<1> SUFFICES ASSUME ~EditsOverlap PROVE MarketSpec => []AcceptedIsHired
  OBVIOUS
<1>1. MarketTyped /\ Hired /\ [MarketNext]_marketVars => Hired'
  BY HiredStep
<1>2. Hired => AcceptedIsHired
  BY MarketAssumption DEF Hired, AcceptedIsHired
<1> QED
  BY <1>1, <1>2, HiredInit, MarketTypes, PTL DEF MarketSpec

\* An assignment ends only with the account of the tasker or of the poster.
THEOREM MarketHireKept == ~EditsOverlap => (MarketSpec => HireKept)
<1> SUFFICES ASSUME ~EditsOverlap PROVE MarketSpec => HireKept
  OBVIOUS
<1>1. MarketTyped /\ Hired /\ [MarketNext]_marketVars => Hired' /\ HiredForGood
  BY HiredStep
<1> QED
  BY <1>1, HiredInit, MarketTypes, PTL DEF MarketSpec, HireKept

-----------------------------------------------------------------------------
(* Credit. A closing counts for whoever is hired, and closeTask credits    *)
(* whom it read: the two are one person as long as his account is there,   *)
(* because nobody is hired in the place of somebody who is. A closing that *)
(* is not counted yet is a handler on its way to the profile.              *)

\* Who was read as the tasker of a task is its tasker still, or is gone, or the task is.
ReadRight(t, u) == u \in Taskers \ left => task[t].tasker = u \/ task[t].status = "gone"

\* So is everybody a closing was begun for, or waits for in the hourly job's list.
ReadsRight ==
  \A h \in Handlers :
    /\ call[h].pc = "close" => ReadRight(call[h].task, call[h].tasker)
    /\ call[h].pc \in {"close", "profile", "count"} =>
         \A row \in call[h].due : ReadRight(row.task, row.tasker)

LEMMA ReadsInit == MarketInit => ReadsRight
  BY DEF MarketInit, NoCall, ReadsRight

\* A task gets another tasker only when it has none, and loses one only to a deletion.
LEMMA TaskerKept ==
  ASSUME MarketTyped, Hired, ~EditsOverlap, [MarketNext]_marketVars, NEW t \in Tasks
  PROVE  /\ left \subseteq left' /\ (task[t].status = "gone" => task'[t].status = "gone")
         /\ \/ task'[t].tasker = task[t].tasker
            \/ task[t].tasker \in left' \union {Nobody}
            \/ task'[t].status = "gone"
<1>1. task \in [Tasks -> Row] /\ Calls \subseteq Handlers
  BY DEF MarketTyped, MarketTypeOK, Handlers
<1>2. CASE UNCHANGED <<task, left>>
  BY <1>2
<1>3. ASSUME NEW c \in Calls, AcceptOffer(c)
      PROVE  /\ left' = left /\ (task[t].status = "gone" => task'[t].status = "gone")
             /\ task'[t].tasker = task[t].tasker \/ task[t].tasker = Nobody
  <2> DEFINE s == OfferFor[call[c].offer]
  <2>1. left' = left /\ (task' = task \/ (StillOpen(s) /\ task' = [task EXCEPT ![s] = Assigned(s, call[c].offer)]))
    BY <1>3 DEF AcceptOffer, Rest
  <2>2. s = t => (StillOpen(s) => task[t].tasker = Nobody /\ task[t].status # "gone")
    BY DEF StillOpen, Hired
  <2> HIDE DEF s
  <2> QED
    BY <1>1, <2>1, <2>2
<1>4. ASSUME NEW c \in Calls, CallStep(c), ~AcceptOffer(c)
      PROVE  /\ left' = left /\ (task[t].status = "gone" => task'[t].status = "gone")
             /\ task'[t].tasker = task[t].tasker
  <2>1. left' = left
    BY <1>4 DEF CallStep, MakeOffer, WithdrawOffer, SaveEdit, CancelOffers, CancelTask, MarkComplete, Rest
  <2>2. CASE MakeOffer(c) \/ WithdrawOffer(c) \/ CancelOffers(c) \/ SaveEdit(c)
    BY <1>1, <2>1, <2>2 DEF MakeOffer, WithdrawOffer, CancelOffers, SaveEdit
  <2>3. CASE CancelTask(c)
    BY <1>1, <2>1, <2>3 DEF CancelTask, SetStatus, Row
  <2>4. CASE MarkComplete(c)
    <3>1. task'[t] \in {task[t], [task[t] EXCEPT !.status = "completed", !.aged = FALSE]}
            /\ (task[t].status = "gone" => task'[t] = task[t])
      BY <1>1, <2>4 DEF MarkComplete
    <3>2. [task[t] EXCEPT !.status = "completed", !.aged = FALSE].tasker = task[t].tasker
      BY <1>1 DEF Row
    <3> QED
      BY <2>1, <3>1, <3>2
  <2> QED
    BY <1>4, <2>2, <2>3, <2>4 DEF CallStep
<1>5. ASSUME NEW h \in Handlers, HandlerStep(h)
      PROVE  /\ left' = left /\ (task[t].status = "gone" => task'[t].status = "gone")
             /\ task'[t].tasker = task[t].tasker
  BY <1>1, <1>5 DEF HandlerStep, CloseTask, ReadProfile, CountClosing, SetStatus, Row, Rest
<1>6. ASSUME NEW s \in Tasks, GrowOld(s) \/ DeletePoster(s)
      PROVE  /\ left' = left /\ (task[t].status = "gone" => task'[t].status = "gone")
             /\ task'[t].tasker = task[t].tasker \/ task'[t].status = "gone"
  <2>1. CASE GrowOld(s)
    BY <1>1, <2>1 DEF GrowOld, Row, Rest
  <2>2. CASE DeletePoster(s)
    <3>1. task' = [task EXCEPT ![s] = [Posted EXCEPT !.status = "gone"]] /\ left' = left
      BY <2>2 DEF DeletePoster, Rest
    <3>2. [Posted EXCEPT !.status = "gone"].status = "gone"
      BY DEF Posted
    <3> QED
      BY <1>1, <3>1, <3>2
  <2> QED
    BY <1>6, <2>1, <2>2
<1>7. ASSUME NEW u \in Taskers, DeleteTasker(u)
      PROVE  /\ left \subseteq left' /\ (task[t].status = "gone" => task'[t].status = "gone")
             /\ task'[t].tasker = task[t].tasker \/ task[t].tasker \in left'
  <2>1. u \in left' /\ left \subseteq left' /\ (t \notin WorkOf(u) => task'[t] = task[t])
    BY <1>7 DEF DeleteTasker
  <2>2. t \in WorkOf(u) => task[t].tasker = u /\ task[t].status # "gone"
    BY DEF WorkOf, Closable
  <2> QED
    BY <2>1, <2>2
<1> QED
  BY <1>2, <1>3, <1>4, <1>5, <1>6, <1>7
  DEF MarketNext, marketVars, FindDue, Fail, Rest, Begin, BeginOffer, BeginWithdraw, BeginAccept,
      BeginEdit, BeginCancel, BeginComplete, BeginConfirm

LEMMA RightKept ==
  ASSUME MarketTyped, Hired, ~EditsOverlap, [MarketNext]_marketVars,
         NEW t \in Tasks, NEW u, ReadRight(t, u)
  PROVE  ReadRight(t, u)'
  BY TaskerKept, MarketAssumption DEF ReadRight

LEMMA ReadsStep ==
  ASSUME MarketTyped, Hired, ~EditsOverlap, ReadsRight, [MarketNext]_marketVars
  PROVE  ReadsRight'
<1>1. /\ call \in [Handlers -> Locals] /\ Calls \subseteq Handlers /\ hourly \in Handlers
      /\ \A t \in Tasks : ReadRight(t, task[t].tasker)
  BY DEF MarketTyped, MarketTypeOK, Handlers, ReadRight
\* What a handler holds is right if it is what it held, or was just read.
<1> DEFINE RowsOf(mine) ==
             (IF mine.pc = "close" THEN {[task |-> mine.task, tasker |-> mine.tasker]} ELSE {})
               \union (IF mine.pc \in {"close", "profile", "count"} THEN mine.due ELSE {})
           FreshRows == {[task |-> t, tasker |-> task[t].tasker] : t \in Tasks}
<1>2. ReadsRight <=> \A h \in Handlers : \A row \in RowsOf(call[h]) : ReadRight(row.task, row.tasker)
  BY DEF ReadsRight
<1> DEFINE RightThen(t, u) == u \in Taskers \ left' => task'[t].tasker = u \/ task'[t].status = "gone"
<1>3. ReadsRight' <=> \A h \in Handlers : \A row \in RowsOf(call'[h]) : RightThen(row.task, row.tasker)
  <2>1. ReadsRight' <=>
          \A h \in Handlers :
            /\ call'[h].pc = "close" => RightThen(call'[h].task, call'[h].tasker)
            /\ call'[h].pc \in {"close", "profile", "count"} =>
                 \A row \in call'[h].due : RightThen(row.task, row.tasker)
    BY DEF ReadsRight, ReadRight
  <2> HIDE DEF RightThen
  <2>2. ASSUME NEW mine
        PROVE  (/\ mine.pc = "close" => RightThen(mine.task, mine.tasker)
                /\ mine.pc \in {"close", "profile", "count"} =>
                     \A row \in mine.due : RightThen(row.task, row.tasker))
               <=> \A row \in RowsOf(mine) : RightThen(row.task, row.tasker)
    <3>1. CASE mine.pc = "close"
      <4> DEFINE first == [task |-> mine.task, tasker |-> mine.tasker]
      <4>1. /\ \A row : row \in RowsOf(mine) <=> row = first \/ row \in mine.due
            /\ first.task = mine.task /\ first.tasker = mine.tasker
        BY <3>1
      <4> HIDE DEF RowsOf, first
      <4>2. RightThen(mine.task, mine.tasker) <=> RightThen(first.task, first.tasker)
        BY <4>1
      <4> QED
        BY <3>1, <4>1, <4>2
    <3>2. CASE mine.pc # "close"
      BY <3>2
    <3> QED
      BY <3>1, <3>2
  <2> HIDE DEF RowsOf
  <2> QED
    BY <2>1, <2>2
<1>0. \A t \in Tasks : \A u : ReadRight(t, u) => RightThen(t, u)
  <2> SUFFICES ASSUME NEW t \in Tasks, NEW u, ReadRight(t, u) PROVE RightThen(t, u)
    OBVIOUS
  <2>1. ReadRight(t, u)'
    BY RightKept
  <2> QED
    BY <2>1 DEF ReadRight
<1> HIDE DEF RightThen
<1>4. \A h \in Handlers : \A row \in RowsOf(call[h]) : row.task \in Tasks
  <2> SUFFICES ASSUME NEW h \in Handlers, NEW row \in RowsOf(call[h]) PROVE row.task \in Tasks
    OBVIOUS
  <2>1. call[h].pc = "close" => call[h].task \in Tasks
    BY CallFields DEF MarketTyped
  <2>2. call[h].pc \in {"close", "profile", "count"} => call[h].due \in Due
    BY CallFields DEF MarketTyped
  <2> QED
    BY <2>1, <2>2 DEF Due
<1>5. ASSUME NEW h \in Handlers, \A g \in Handlers \ {h} : call'[g] = call[g],
             RowsOf(call'[h]) \subseteq RowsOf(call[h]) \union FreshRows
      PROVE  ReadsRight'
  <2> SUFFICES ASSUME NEW g \in Handlers, NEW row \in RowsOf(call'[g])
               PROVE  RightThen(row.task, row.tasker)
    BY <1>3
  <2>1. row.task \in Tasks /\ ReadRight(row.task, row.tasker)
    <3>1. CASE row \in RowsOf(call[g])
      BY <1>2, <1>4, <3>1
    <3>2. CASE row \in FreshRows
      BY <1>1, <3>2
    <3> HIDE DEF RowsOf, FreshRows
    <3> QED
      BY <1>5, <3>1, <3>2
  <2> QED
    BY <1>0, <2>1
<1>6. ASSUME UNCHANGED call PROVE ReadsRight'
  BY <1>0, <1>2, <1>3, <1>4, <1>6
<1>7. ASSUME NEW h \in Handlers, Return(h) PROVE ReadsRight'
  BY <1>1, <1>5, <1>7 DEF Return, NoCall
<1>8. ASSUME NEW h \in Handlers, call[h].pc \in {"close", "count"}, Onward(h) PROVE ReadsRight'
  <2>1. ASSUME NEW row \in call[h].due,
               call' = [call EXCEPT ![h] = Closing(row.task, row.tasker, @.due \ {row})]
        PROVE  ReadsRight'
    <3>1. call[h].due \in Due
      BY <1>8, CallFields DEF MarketTyped
    <3>2. row = [task |-> row.task, tasker |-> row.tasker]
      BY <3>1 DEF Due
    <3>3. RowsOf(call'[h]) \subseteq RowsOf(call[h]) /\ \A g \in Handlers \ {h} : call'[g] = call[g]
      BY <1>1, <1>8, <2>1, <3>2 DEF Closing
    <3> QED
      BY <1>5, <3>3
  <2> QED
    BY <1>7, <1>8, <2>1 DEF Onward
<1>9. ASSUME NEW c \in Calls,
        \/ \E o \in Offers : BeginOffer(c, o) \/ BeginWithdraw(c, o) \/ BeginAccept(c, o)
        \/ \E t \in Tasks : BeginEdit(c, t) \/ BeginCancel(c, t)
                              \/ BeginComplete(c, t) \/ BeginConfirm(c, t)
      PROVE ReadsRight'
  <2>1. /\ RowsOf(call'[c]) \subseteq FreshRows /\ \A g \in Handlers \ {c} : call'[g] = call[g]
        /\ c \in Handlers
    BY <1>1, <1>9
    DEF Begin, BeginOffer, BeginWithdraw, BeginAccept, BeginEdit, BeginCancel, BeginComplete,
        BeginConfirm, Closing
  <2> QED
    BY <1>5, <2>1
<1>10. ASSUME NEW c \in Calls, CallStep(c) PROVE ReadsRight'
  <2>1. CASE CancelOffers(c)
    <3>1. call[c].pc = "cancelOffers" /\ call[c] = [pc |-> call[c].pc, task |-> call[c].task]
      BY <1>1, <2>1, CallFields DEF CancelOffers, MarketTyped
    <3>2. RowsOf(call'[c]) = {} /\ \A g \in Handlers \ {c} : call'[g] = call[g]
      BY <1>1, <2>1, <3>1 DEF CancelOffers
    <3> QED
      BY <1>1, <1>5, <3>2
  <2>2. CASE ~CancelOffers(c)
    BY <1>1, <1>7, <1>10, <2>2
    DEF CallStep, MakeOffer, WithdrawOffer, AcceptOffer, SaveEdit, CancelTask, MarkComplete
  <2> QED
    BY <2>1, <2>2
<1>11. ASSUME NEW h \in Handlers, HandlerStep(h) PROVE ReadsRight'
  <2>1. call[h].pc \in {"close", "profile"} =>
          call[h] = [pc |-> call[h].pc, task |-> call[h].task, tasker |-> call[h].tasker,
                     due |-> call[h].due]
    BY CallFields DEF MarketTyped
  <2>2. CASE call' = [call EXCEPT ![h].pc = "profile"] /\ call[h].pc = "close"
    <3>1. RowsOf(call'[h]) \subseteq RowsOf(call[h]) /\ \A g \in Handlers \ {h} : call'[g] = call[g]
      BY <1>1, <2>1, <2>2
    <3> QED
      BY <1>5, <3>1
  <2>3. CASE ReadProfile(h)
    <3>1. RowsOf(call'[h]) \subseteq RowsOf(call[h]) /\ \A g \in Handlers \ {h} : call'[g] = call[g]
      BY <1>1, <2>3 DEF ReadProfile
    <3> QED
      BY <1>5, <3>1
  <2> QED
    BY <1>8, <1>11, <2>2, <2>3 DEF HandlerStep, CloseTask, CountClosing
<1>12. CASE FindDue
  <2> DEFINE due == {t \in Tasks : task[t].status = "completed" /\ task[t].aged}
             dueRows == {[task |-> t, tasker |-> task[t].tasker] : t \in due}
  <2>1. PICK row \in dueRows :
          call' = [call EXCEPT ![hourly] = Closing(row.task, row.tasker, dueRows \ {row})]
    BY <1>12 DEF FindDue
  <2>2. dueRows \subseteq FreshRows /\ row = [task |-> row.task, tasker |-> row.tasker]
    OBVIOUS
  <2> HIDE DEF dueRows, FreshRows
  <2>3. RowsOf(call'[hourly]) \subseteq FreshRows /\ \A g \in Handlers \ {hourly} : call'[g] = call[g]
    BY <1>1, <2>1, <2>2 DEF Closing
  <2> QED
    BY <1>1, <1>5, <2>3
<1>13. CASE \/ \E t \in Tasks : GrowOld(t) \/ DeletePoster(t)
            \/ \E u \in Taskers : DeleteTasker(u)
  BY <1>6, <1>13 DEF GrowOld, DeletePoster, DeleteTasker
<1>14. ASSUME NEW h \in Handlers, Fail(h) PROVE ReadsRight'
  BY <1>7, <1>14 DEF Fail
<1> QED
  BY <1>6, <1>9, <1>10, <1>11, <1>12, <1>13, <1>14 DEF MarketNext, marketVars

-----------------------------------------------------------------------------

\* What those that count for u know of his profile.
ReadOK(u) ==
  \A h \in Counting(u) : call[h].pc = "count" =>
    /\ ~call[h].late
    /\ call[h].read + Cardinality(Counting(u)) <= closings[u]
    /\ u \notin uncounted => call[h].read = done[u]

\* Counted and on the way are no more than were closed, and when no count was in
\* danger they are as many.
CreditOK(u) ==
  u \notin left =>
    /\ done[u] + Cardinality(Counting(u)) <= closings[u]
    /\ u \notin uncounted => /\ Cardinality(Counting(u)) <= 1
                             /\ done[u] + Cardinality(Counting(u)) = closings[u]
    /\ ReadOK(u)

Credit == \A u \in Taskers : CreditOK(u)

LEMMA CountingFinite ==
  \A u : IsFiniteSet(Counting(u)) /\ Cardinality(Counting(u)) \in Nat
<1>1. IsFiniteSet(Calls \union {hourly})
  BY FS_AddElement, MarketAssumption
<1>2. \A u : IsFiniteSet(Counting(u))
  BY <1>1, FS_Subset DEF Counting, Handlers
<1> QED
  BY <1>2, FS_CardinalityType

LEMMA CreditInit == MarketInit => Credit
<1> SUFFICES ASSUME MarketInit PROVE Credit
  OBVIOUS
<1>1. \A u : Counting(u) = {}
  BY DEF MarketInit, NoCall, Counting
<1>2. \A u : Cardinality(Counting(u)) = 0
  BY <1>1, FS_EmptySet
<1> QED
  BY <1>1, <1>2 DEF MarketInit, Credit, CreditOK, ReadOK

\* The types of what counts for u.
LEMMA CountTypes ==
  ASSUME MarketTyped, NEW u \in Taskers
  PROVE  /\ done[u] \in Nat /\ closings[u] \in Nat
         /\ \A h \in Counting(u) : call[h].pc = "count" => call[h].read \in Nat
<1>1. \A h \in Counting(u) : h \in Handlers
  BY DEF Counting
<1> QED
  BY <1>1, CallFields DEF MarketTyped, MarketTypeOK

\* A step in which nobody joins those that count for u, and u's closings or
\* counters change only when it puts a count in danger.
LEMMA KeepsCredit ==
  ASSUME MarketTyped, MarketTyped', NEW u \in Taskers, CreditOK(u),
         left \subseteq left', uncounted \subseteq uncounted',
         u \notin left' =>
           /\ done'[u] = done[u] /\ closings'[u] >= closings[u]
           /\ Counting(u)' \subseteq Counting(u)
           /\ \A h \in Counting(u)' : call'[h] = call[h]
           /\ u \in uncounted' \/ (Counting(u)' = Counting(u) /\ closings'[u] = closings[u])
  PROVE  CreditOK(u)'
<1> DEFINE n == Cardinality(Counting(u))
           m == Cardinality(Counting(u)')
<1>1. done[u] \in Nat /\ closings[u] \in Nat /\ closings'[u] \in Nat
      /\ \A h \in Counting(u) : call[h].pc = "count" => call[h].read \in Nat
  BY CountTypes DEF MarketTyped, MarketTypeOK
<1>2. u \notin left' => n \in Nat /\ m \in Nat /\ m <= n /\ (Counting(u)' = Counting(u) => m = n)
  BY CountingFinite, FS_Subset, FS_CardinalityType
<1> HIDE DEF n, m
<1>3. u \notin left' =>
        /\ done[u] + n <= closings[u]
        /\ u \notin uncounted => n <= 1 /\ done[u] + n = closings[u]
        /\ \A h \in Counting(u) : call[h].pc = "count" =>
             /\ ~call[h].late /\ call[h].read + n <= closings[u]
             /\ u \notin uncounted => call[h].read = done[u]
  BY DEF n, CreditOK, ReadOK
<1>4. u \notin left' =>
        /\ done'[u] + m <= closings'[u]
        /\ u \notin uncounted' => m <= 1 /\ done'[u] + m = closings'[u]
        /\ \A h \in Counting(u)' : call'[h].pc = "count" =>
             /\ ~call'[h].late /\ call'[h].read + m <= closings'[u]
             /\ u \notin uncounted' => call'[h].read = done'[u]
  BY <1>1, <1>2, <1>3
<1> QED
  BY <1>4 DEF m, CreditOK, ReadOK

\* A step that leaves the profiles and the closings alone, and in which nobody
\* begins or ends to count.
LEMMA IdleCredit ==
  ASSUME MarketTyped, MarketTyped', Credit, NEW h \in Handlers,
         UNCHANGED <<done, left, closings>>, uncounted \subseteq uncounted',
         \A g \in Handlers \ {h} : call'[g] = call[g],
         call'[h].pc \notin {"profile", "count"},
         \A u \in Taskers : h \in Counting(u) => u \in uncounted'
  PROVE  Credit'
<1> SUFFICES ASSUME NEW u \in Taskers PROVE CreditOK(u)'
  BY DEF Credit
<1>1. Counting(u)' = Counting(u) \ {h} /\ \A g \in Counting(u)' : call'[g] = call[g]
  BY DEF Counting
<1>2. u \in uncounted' \/ Counting(u)' = Counting(u)
  BY <1>1
<1>3. closings[u] \in Nat
  BY CountTypes
<1> QED
  BY <1>1, <1>2, <1>3, KeepsCredit DEF Credit

\* A closing adds one to the closings of whoever is hired, and one that counts for
\* whom it read: the same person, if he is still there.
LEMMA CloseCredit ==
  ASSUME MarketTyped, MarketTyped', Credit, ReadsRight, NEW h \in Handlers, CloseTask(h)
  PROVE  Credit'
<1>0. PICK u \in Taskers \union {Nobody}, t \in Tasks : u = call[h].tasker /\ t = call[h].task
  BY CallFields DEF CloseTask, MarketTyped
<1>1. /\ call[h].pc = "close" /\ call \in [Handlers -> Locals] /\ Nobody \notin Taskers
      /\ call[h] = [pc |-> "close", task |-> t, tasker |-> u, due |-> call[h].due]
  BY <1>0, CallFields, MarketAssumption DEF CloseTask, MarketTyped, MarketTypeOK
<1>2. /\ UNCHANGED <<done, left>> /\ uncounted \subseteq uncounted'
      /\ \A g \in Handlers \ {h} : call'[g] = call[g]
  BY <1>1 DEF CloseTask, Onward, Return
<1>3. /\ call'[h].pc \in {"profile", "count"} => u # Nobody /\ Closable(t)
      /\ call'[h].pc # "count"
      /\ call'[h].pc = "profile" => call'[h].tasker = u
  BY <1>0, <1>1 DEF CloseTask, Onward, Return, NoCall, Closing
<1>5. ASSUME NEW v \in Taskers, v # u \/ ~Closable(t) PROVE CreditOK(v)'
  <2>1. Counting(v)' = Counting(v) /\ \A g \in Counting(v) : call'[g] = call[g]
    BY <1>0, <1>1, <1>2, <1>3, <1>5 DEF Counting
  <2>2. closings'[v] >= closings[v] /\ (closings'[v] = closings[v] \/ v \in uncounted')
    BY <1>0, <1>5, CountTypes DEF CloseTask, Missed
  <2> QED
    BY <1>2, <2>1, <2>2, KeepsCredit DEF Credit
<1>6. ASSUME u \in Taskers, u \in left PROVE CreditOK(u)'
  BY <1>2, <1>6 DEF CreditOK
<1>7. ASSUME u \in Taskers, u \notin left, Closable(t) PROVE CreditOK(u)'
  <2>1. task[t].tasker = u /\ task[t].status # "closed"
    BY <1>0, <1>1, <1>7 DEF ReadsRight, ReadRight, Closable
  <2>2. /\ closings'[u] = closings[u] + 1 /\ call'[h].pc = "profile" /\ call'[h].tasker = u
        /\ u \notin uncounted' => u \notin uncounted /\ Counting(u) = {}
    <3>1. closings \in [Taskers -> Nat]
      BY DEF MarketTyped, MarketTypeOK
    <3>2. call' = [call EXCEPT ![h].pc = "profile"] /\ uncounted' = uncounted \union Missed(t, u)
      BY <1>0, <1>1, <1>7 DEF CloseTask
    <3> QED
      BY <1>0, <1>1, <1>7, <2>1, <3>1, <3>2 DEF CloseTask, Missed
  <2>3. Counting(u)' = Counting(u) \union {h} /\ h \notin Counting(u)
    BY <1>1, <1>2, <2>2 DEF Counting
  <2> DEFINE n == Cardinality(Counting(u))
             m == Cardinality(Counting(u)')
  <2>4. n \in Nat /\ m = n + 1 /\ (Counting(u) = {} => n = 0)
    BY <2>3, CountingFinite, FS_AddElement, FS_EmptySet
  <2>5. /\ done[u] \in Nat /\ closings[u] \in Nat
        /\ \A g \in Counting(u) : call[g].pc = "count" => call[g].read \in Nat
    BY <1>7, CountTypes
  <2> HIDE DEF n, m
  <2>6. /\ done[u] + n <= closings[u]
        /\ u \notin uncounted => done[u] + n = closings[u]
        /\ \A g \in Counting(u) : call[g].pc = "count" =>
             ~call[g].late /\ call[g].read + n <= closings[u]
    BY <1>7 DEF n, Credit, CreditOK, ReadOK
  <2>7. \A g \in Counting(u)' : call'[g].pc = "count" => g \in Counting(u) /\ call'[g] = call[g]
    <3>1. Counting(u) \subseteq Handlers
      BY DEF Counting
    <3> QED
      BY <1>2, <2>2, <2>3, <3>1
  <2>8. /\ done'[u] + m <= closings'[u]
        /\ u \notin uncounted' => m <= 1 /\ done'[u] + m = closings'[u]
        /\ \A g \in Counting(u)' : call'[g].pc = "count" =>
             /\ ~call'[g].late /\ call'[g].read + m <= closings'[u]
             /\ u \notin uncounted' => call'[g].read = done'[u]
    BY <1>2, <2>2, <2>4, <2>5, <2>6, <2>7
  <2> QED
    BY <2>8 DEF m, CreditOK, ReadOK
<1> QED
  BY <1>5, <1>6, <1>7 DEF Credit

LEMMA ReadCredit ==
  ASSUME MarketTyped, MarketTyped', Credit, NEW h \in Handlers, ReadProfile(h) PROVE Credit'
<1>0. PICK u \in Taskers : u = call[h].tasker
  BY CallFields DEF ReadProfile, MarketTyped, ProfileOf
<1>1. call[h].pc = "profile" /\ call \in [Handlers -> Locals]
  BY DEF ReadProfile, MarketTyped, MarketTypeOK
<1>2. /\ call'[h].pc = "count" /\ call'[h].tasker = u /\ call'[h].read = done[u]
      /\ call'[h].late <=> u \in left
      /\ \A g \in Handlers \ {h} : call'[g] = call[g]
      /\ UNCHANGED <<done, left, closings, uncounted>>
  BY <1>0, <1>1 DEF ReadProfile, Rest
<1>3. h \in Counting(u) /\ \A v : Counting(v)' = Counting(v)
  BY <1>0, <1>1, <1>2 DEF Counting
<1>4. ASSUME NEW v \in Taskers, v # u PROVE CreditOK(v)'
  <2>1. \A g \in Counting(v) : g # h /\ g \in Handlers
    BY <1>0, <1>4 DEF Counting
  <2>2. closings[v] \in Nat
    BY CountTypes
  <2> QED
    BY <1>2, <1>3, <2>1, <2>2, KeepsCredit DEF Credit
<1>5. CreditOK(u)'
  <2> DEFINE n == Cardinality(Counting(u))
  <2>1. Cardinality(Counting(u)') = n /\ n \in Nat /\ done[u] \in Nat /\ closings[u] \in Nat
    BY <1>3, CountingFinite, CountTypes
  <2> HIDE DEF n
  <2>2. u \notin left =>
          /\ done[u] + n <= closings[u]
          /\ u \notin uncounted => n <= 1 /\ done[u] + n = closings[u]
          /\ \A g \in Counting(u) : call[g].pc = "count" =>
               /\ ~call[g].late /\ call[g].read + n <= closings[u]
               /\ u \notin uncounted => call[g].read = done[u]
    BY DEF n, Credit, CreditOK, ReadOK
  <2>3. \A g \in Counting(u) : g # h => call'[g] = call[g]
    BY <1>2 DEF Counting
  <2>4. u \notin left' => ReadOK(u)'
    BY <1>2, <1>3, <2>1, <2>2, <2>3 DEF ReadOK
  <2> QED
    BY <1>2, <2>1, <2>2, <2>4 DEF CreditOK
<1> QED
  BY <1>4, <1>5 DEF Credit

\* The count is one more than was read, and the one that counted is done.
LEMMA CountCredit ==
  ASSUME MarketTyped, MarketTyped', Credit, NEW h \in Handlers, CountClosing(h) PROVE Credit'
<1>0. PICK u \in Taskers : u = call[h].tasker
  BY CallFields DEF CountClosing, MarketTyped
<1>1. /\ call[h].pc = "count" /\ call[h].late \in BOOLEAN
      /\ call \in [Handlers -> Locals] /\ done \in [Taskers -> Nat]
  BY CallFields DEF CountClosing, MarketTyped, MarketTypeOK
<1>2. /\ call'[h].pc \notin {"profile", "count"}
      /\ \A g \in Handlers \ {h} : call'[g] = call[g]
      /\ UNCHANGED <<left, closings, uncounted>>
  BY <1>1 DEF CountClosing, Onward, Return, NoCall, Closing
<1>3. /\ u \notin left /\ ~call[h].late => done'[u] = call[h].read + 1
      /\ \A v \in Taskers \ {u} : done'[v] = done[v]
  BY <1>0, <1>1 DEF CountClosing
<1>4. ASSUME NEW v \in Taskers, v # u PROVE CreditOK(v)'
  <2>1. Counting(v)' = Counting(v) /\ \A g \in Counting(v) : call'[g] = call[g]
    BY <1>0, <1>2, <1>4 DEF Counting
  <2>2. closings[v] \in Nat
    BY CountTypes
  <2> QED
    BY <1>2, <1>3, <1>4, <2>1, <2>2, KeepsCredit DEF Credit
<1>5. ASSUME u \notin left PROVE CreditOK(u)'
  <2>1. Counting(u)' = Counting(u) \ {h} /\ h \in Counting(u) /\ \A g \in Counting(u)' : call'[g] = call[g]
    BY <1>0, <1>1, <1>2 DEF Counting
  <2> DEFINE n == Cardinality(Counting(u))
             m == Cardinality(Counting(u)')
  <2>2. n \in Nat /\ m \in Nat /\ m = n - 1
    BY <2>1, CountingFinite, FS_RemoveElement, FS_CardinalityType
  <2>3. m = 0 => Counting(u)' = {}
    BY <2>1, CountingFinite, FS_Subset, FS_EmptySet
  <2>4. /\ done[u] \in Nat /\ closings[u] \in Nat
        /\ \A g \in Counting(u) : call[g].pc = "count" => call[g].read \in Nat
    BY CountTypes
  <2> HIDE DEF n, m
  <2>5. /\ u \notin uncounted => n <= 1 /\ done[u] + n = closings[u]
        /\ \A g \in Counting(u) : call[g].pc = "count" =>
             /\ ~call[g].late /\ call[g].read + n <= closings[u]
             /\ u \notin uncounted => call[g].read = done[u]
    BY <1>5 DEF n, Credit, CreditOK, ReadOK
  <2>6. done'[u] = call[h].read + 1 /\ call[h].read \in Nat /\ call[h].read + n <= closings[u]
        /\ (u \notin uncounted => call[h].read = done[u])
    BY <1>1, <1>3, <1>5, <2>1, <2>4, <2>5
  <2>7. done'[u] + m <= closings'[u]
    BY <1>2, <2>2, <2>4, <2>6
  <2>8. u \notin uncounted' => m = 0 /\ done'[u] + m = closings'[u]
    BY <1>2, <2>2, <2>4, <2>5, <2>6
  <2>9. \A g \in Counting(u)' : call'[g].pc = "count" =>
          /\ ~call'[g].late /\ call'[g].read + m <= closings'[u]
          /\ u \notin uncounted' => call'[g].read = done'[u]
    BY <1>2, <2>1, <2>2, <2>3, <2>4, <2>5, <2>8
  <2> QED
    BY <2>7, <2>8, <2>9 DEF m, CreditOK, ReadOK
<1>6. ASSUME u \in left PROVE CreditOK(u)'
  BY <1>2, <1>6 DEF CreditOK
<1> QED
  BY <1>4, <1>5, <1>6 DEF Credit

LEMMA DeleteCredit ==
  ASSUME MarketTyped, MarketTyped', Credit, NEW w \in Taskers, DeleteTasker(w) PROVE Credit'
<1>1. /\ \A v \in Taskers \ {w} : done'[v] = done[v]
      /\ left' = left \union {w} /\ UNCHANGED <<call, closings, uncounted>>
  BY DEF DeleteTasker, MarketTyped, MarketTypeOK
<1> SUFFICES ASSUME NEW v \in Taskers PROVE CreditOK(v)'
  BY DEF Credit
<1>2. Counting(v)' = Counting(v) /\ closings[v] \in Nat
  BY <1>1, CountTypes DEF Counting
<1> QED
  BY <1>1, <1>2, KeepsCredit DEF Credit

LEMMA CreditStep ==
  ASSUME MarketTyped, MarketTyped', ReadsRight, Credit, [MarketNext]_marketVars PROVE Credit'
<1>1. call \in [Handlers -> Locals] /\ Calls \subseteq Handlers /\ hourly \in Handlers
  BY DEF MarketTyped, MarketTypeOK, Handlers
<1>2. ASSUME UNCHANGED <<call, done, left, closings, uncounted>> PROVE Credit'
  <2> SUFFICES ASSUME NEW u \in Taskers PROVE CreditOK(u)'
    BY DEF Credit
  <2>1. Counting(u)' = Counting(u) /\ closings[u] \in Nat
    BY <1>2, CountTypes DEF Counting
  <2> QED
    BY <1>2, <2>1, KeepsCredit DEF Credit
<1>3. ASSUME NEW h \in Handlers, UNCHANGED <<done, left, closings, uncounted>>,
             \A g \in Handlers \ {h} : call'[g] = call[g],
             call[h].pc \notin {"profile", "count"}, call'[h].pc \notin {"profile", "count"}
      PROVE Credit'
  <2>1. \A u \in Taskers : h \notin Counting(u)
    BY <1>3 DEF Counting
  <2> QED
    BY <1>3, <2>1, IdleCredit
<1>4. ASSUME NEW c \in Calls,
        \/ \E o \in Offers : BeginOffer(c, o) \/ BeginWithdraw(c, o) \/ BeginAccept(c, o)
        \/ \E t \in Tasks : BeginEdit(c, t) \/ BeginCancel(c, t)
                              \/ BeginComplete(c, t) \/ BeginConfirm(c, t)
      PROVE Credit'
  <2>1. /\ UNCHANGED <<done, left, closings, uncounted>>
        /\ \A g \in Handlers \ {c} : call'[g] = call[g]
        /\ call[c].pc \notin {"profile", "count"} /\ call'[c].pc \notin {"profile", "count"}
    BY <1>1, <1>4
    DEF Begin, BeginOffer, BeginWithdraw, BeginAccept, BeginEdit, BeginCancel, BeginComplete,
        BeginConfirm, Closing, NoCall
  <2> QED
    BY <1>1, <1>3, <2>1
<1>5. ASSUME NEW c \in Calls, CallStep(c) PROVE Credit'
  <2>1. /\ UNCHANGED <<done, left, closings, uncounted>>
        /\ \A g \in Handlers \ {c} : call'[g] = call[g]
        /\ call[c].pc \notin {"profile", "count"} /\ call'[c].pc \notin {"profile", "count"}
    <3>1. CASE CancelOffers(c)
      <4>1. call[c].pc = "cancelOffers" /\ call[c] = [pc |-> call[c].pc, task |-> call[c].task]
        BY <1>1, <3>1, CallFields DEF CancelOffers, MarketTyped
      <4> QED
        BY <1>1, <3>1, <4>1 DEF CancelOffers, Rest
    <3>2. CASE ~CancelOffers(c)
      BY <1>1, <1>5, <3>2
      DEF CallStep, MakeOffer, WithdrawOffer, AcceptOffer, SaveEdit, CancelTask, MarkComplete,
          Return, NoCall, Rest
    <3> QED
      BY <3>1, <3>2
  <2> QED
    BY <1>1, <1>3, <2>1
<1>6. ASSUME NEW h \in Handlers, Fail(h) PROVE Credit'
  <2>1. /\ UNCHANGED <<done, left, closings>> /\ \A g \in Handlers \ {h} : call'[g] = call[g]
        /\ call'[h].pc \notin {"profile", "count"}
        /\ uncounted \subseteq uncounted' /\ \A u \in Taskers : h \in Counting(u) => u \in uncounted'
    BY <1>1, <1>6 DEF Fail, Return, NoCall
  <2> QED
    BY <2>1, IdleCredit
<1>7. CASE FindDue
  <2>1. /\ UNCHANGED <<done, left, closings, uncounted>>
        /\ \A g \in Handlers \ {hourly} : call'[g] = call[g]
        /\ call[hourly].pc \notin {"profile", "count"}
        /\ call'[hourly].pc \notin {"profile", "count"}
    BY <1>1, <1>7 DEF FindDue, Closing, NoCall, Rest
  <2> QED
    BY <1>1, <1>3, <2>1
<1>8. ASSUME NEW h \in Handlers, HandlerStep(h) PROVE Credit'
  BY <1>8, CloseCredit, ReadCredit, CountCredit DEF HandlerStep
<1>9. CASE \E t \in Tasks : GrowOld(t) \/ DeletePoster(t)
  BY <1>2, <1>9 DEF GrowOld, DeletePoster, Rest
<1>10. CASE \E u \in Taskers : DeleteTasker(u)
  BY <1>10, DeleteCredit
<1> QED
  BY <1>2, <1>4, <1>5, <1>6, <1>7, <1>8, <1>9, <1>10 DEF MarketNext, marketVars

\* Whoever keeps his account is credited with no more finished tasks than were closed
\* while he was hired for them, and with every one of them when no handler died on
\* the way or counted for him at the same time: by the poster, by the hourly job, or
\* by both at a time (closeTask); while edits do not overlap other writes of their
\* task, which could put somebody else in his place.
THEOREM MarketCreditedOnce == ~EditsOverlap => (MarketSpec => []CreditedOnce)
<1> SUFFICES ASSUME ~EditsOverlap PROVE MarketSpec => []CreditedOnce
  OBVIOUS
<1>1. MarketTyped /\ Hired /\ [MarketNext]_marketVars => Hired'
  BY HiredStep
<1>2. MarketTyped /\ Hired /\ ReadsRight /\ [MarketNext]_marketVars => ReadsRight'
  BY ReadsStep
<1>3. MarketTyped /\ MarketTyped' /\ ReadsRight /\ Credit /\ [MarketNext]_marketVars => Credit'
  BY CreditStep
<1>4. MarketTyped /\ Credit => CreditedOnce
  <2> SUFFICES ASSUME MarketTyped, Credit, NEW u \in Taskers \ left
               PROVE  /\ done[u] <= closings[u]
                      /\ u \notin uncounted /\ Counting(u) = {} => done[u] = closings[u]
    BY DEF CreditedOnce
  <2>1. /\ done[u] + Cardinality(Counting(u)) <= closings[u]
        /\ u \notin uncounted => done[u] + Cardinality(Counting(u)) = closings[u]
    BY DEF Credit, CreditOK
  <2>2. /\ Cardinality(Counting(u)) \in Nat /\ done[u] \in Nat /\ closings[u] \in Nat
        /\ Counting(u) = {} => Cardinality(Counting(u)) = 0
    BY CountingFinite, CountTypes, FS_EmptySet
  <2> QED
    BY <2>1, <2>2
<1> QED
  BY <1>1, <1>2, <1>3, <1>4, HiredInit, ReadsInit, CreditInit, MarketTypes, PTL DEF MarketSpec

-----------------------------------------------------------------------------
(* The outreach sequence.                                                  *)

-----------------------------------------------------------------------------
(* Types.                                                                  *)

\* What the mine refer to exists, and who is not done has steps to go.
Refers ==
  /\ \A p \in Leads : lead[p].status \in {"new", "active"} => lead[p].step \in Steps
  /\ \A a \in Agents :
       /\ agent[a].pc \in {"claim", "send", "record", "advance"} => agent[a].mail \in Saved
       /\ agent[a].pc = "draft" => agent[a].key \in jobs

OutreachTyped == OutreachTypeOK /\ Refers

LEMMA LocalFields ==
  ASSUME OutreachTypeOK, NEW a \in Agents
  PROVE  /\ agent[a] \in Local
         /\ agent[a].pc = "due" => agent[a].lead \in Leads /\ agent[a].step \in Steps
         /\ agent[a].pc = "draft" => agent[a].key \in Keys
         /\ agent[a].pc \in {"claim", "send", "record", "advance"} =>
              /\ agent[a].mail \in MailIds
              /\ agent[a] = [pc |-> agent[a].pc, mail |-> agent[a].mail]
<1>1. agent[a] \in Local
  BY DEF OutreachTypeOK
<1> QED
  BY <1>1 DEF Local, Idle

\* An invocation whose mine become another record of Local.
LEMMA AgentStored ==
  ASSUME OutreachTyped, NEW a \in Agents, NEW mine \in Local, agent' = [agent EXCEPT ![a] = mine],
         Saved \subseteq Saved', jobs \subseteq jobs',
         mine.pc \in {"claim", "send", "record", "advance"} => mine.mail \in Saved,
         mine.pc = "draft" => mine.key \in jobs
  PROVE  /\ agent' \in [Agents -> Local]
         /\ \A b \in Agents :
              /\ agent'[b].pc \in {"claim", "send", "record", "advance"} => agent'[b].mail \in Saved'
              /\ agent'[b].pc = "draft" => agent'[b].key \in jobs'
<1>1. agent \in [Agents -> Local]
  BY DEF OutreachTyped, OutreachTypeOK
<1>2. agent'[a] = mine /\ \A b \in Agents \ {a} : agent'[b] = agent[b]
  BY <1>1
<1> QED
  BY <1>1, <1>2 DEF OutreachTyped, Refers

LEMMA IdleStored ==
  ASSUME OutreachTyped, NEW a \in Agents, agent' = [agent EXCEPT ![a] = Idle],
         Saved \subseteq Saved', jobs \subseteq jobs'
  PROVE  /\ agent' \in [Agents -> Local]
         /\ \A b \in Agents :
              /\ agent'[b].pc \in {"claim", "send", "record", "advance"} => agent'[b].mail \in Saved'
              /\ agent'[b].pc = "draft" => agent'[b].key \in jobs'
<1>1. Idle \in Local /\ Idle.pc \notin {"claim", "send", "record", "advance", "draft"}
  BY DEF Idle, Local
<1> QED
  BY <1>1, AgentStored

\* Emails whose rows change and that are no fewer and no more.
LEMMA MailsStored ==
  ASSUME OutreachTypeOK, NEW ids, NEW i \in Saved, NEW standing \in {"sent", "failed"}
  PROVE  /\ DOMAIN CancelMails(ids) = Saved /\ DOMAIN IfSending(i, standing) = Saved
         /\ \A j \in Saved : CancelMails(ids)[j] \in MailRow /\ IfSending(i, standing)[j] \in MailRow
  BY DEF OutreachTypeOK, CancelMails, IfSending, MailRow, Saved

LEMMA CancelStored ==
  ASSUME OutreachTypeOK, NEW ids
  PROVE  /\ DOMAIN CancelMails(ids) = Saved
         /\ \A j \in Saved : CancelMails(ids)[j] \in MailRow
  BY DEF OutreachTypeOK, CancelMails, MailRow, Saved

LeadStatuses == {"new", "active", "replied", "opted_out", "stopped", "completed"}

\* A prospect whose date changes, or its standing, keeps its step.
LEMMA DueStored ==
  ASSUME OutreachTypeOK, NEW p \in Leads, NEW d \in {"none", "later", "now"},
         lead' = [lead EXCEPT ![p].due = d]
  PROVE  /\ lead' \in [Leads -> LeadRow]
         /\ \A q \in Leads : lead'[q].status = lead[q].status /\ lead'[q].step = lead[q].step
<1>1. lead \in [Leads -> LeadRow]
  BY DEF OutreachTypeOK
<1> QED
  BY <1>1 DEF LeadRow

LEMMA StatusStored ==
  ASSUME OutreachTypeOK, NEW p \in Leads, NEW s \in LeadStatuses,
         lead' = [lead EXCEPT ![p].status = s]
  PROVE  /\ lead' \in [Leads -> LeadRow]
         /\ \A q \in Leads : lead'[q].status = (IF q = p THEN s ELSE lead[q].status)
                             /\ lead'[q].step = lead[q].step
<1>1. lead \in [Leads -> LeadRow]
  BY DEF OutreachTypeOK
<1> QED
  BY <1>1 DEF LeadRow, LeadStatuses

LEMMA EndStored ==
  ASSUME OutreachTypeOK, NEW p \in Leads, NEW s \in LeadStatuses, lead' = Ended(p, s)
  PROVE  /\ lead' \in [Leads -> LeadRow]
         /\ \A q \in Leads : lead'[q].status = (IF q = p THEN s ELSE lead[q].status)
                             /\ lead'[q].step = lead[q].step
<1>1. lead \in [Leads -> LeadRow]
  BY DEF OutreachTypeOK
<1> QED
  BY <1>1 DEF LeadRow, LeadStatuses, Ended

LEMMA OutreachTypeInit == OutreachInit => OutreachTyped
<1> SUFFICES ASSUME OutreachInit PROVE OutreachTyped
  OBVIOUS
<1>1. Saved = {} /\ Cardinality(Saved) = 0
  BY FS_EmptySet DEF OutreachInit, Saved
<1>2. 0 \in Steps /\ 0 \in 0..MaxFollowUps + 1
  BY OutreachAssumption DEF Steps
<1>3. Idle \in Local /\ Idle.pc = "idle"
  BY DEF Idle, Local
<1> QED
  BY <1>1, <1>2, <1>3 DEF OutreachInit, OutreachTyped, OutreachTypeOK, Refers, LeadRow

USE DEF Rows, Queue, Outside, Told

LEMMA ScheduleTypes ==
  ASSUME OutreachTyped, NEW a \in Agents, (\E p \in Leads : ReadDue(a, p)) \/ Schedule(a)
  PROVE  OutreachTyped'
<1>1. ASSUME NEW p \in Leads, ReadDue(a, p) PROVE OutreachTyped'
  <2> DEFINE next == [pc |-> "due", lead |-> p, step |-> lead[p].step]
  <2>1. next \in Local /\ next.pc \notin {"claim", "send", "record", "advance", "draft"}
    BY <1>1 DEF ReadDue, OutreachTyped, Refers, Local
  <2>2. agent' = [agent EXCEPT ![a] = next] /\ Saved' = Saved /\ jobs' = jobs
    BY <1>1 DEF ReadDue, Saved
  <2> HIDE DEF next
  <2> QED
    BY <1>1, <2>1, <2>2, AgentStored DEF ReadDue, OutreachTyped, OutreachTypeOK, Refers, Saved
<1>2. CASE Schedule(a)
  <2>1. agent[a].lead \in Leads /\ agent[a].step \in Steps
    BY <1>2, LocalFields DEF Schedule, OutreachTyped
  <2>2. [lead |-> agent[a].lead, step |-> agent[a].step, after |-> 0] \in Keys
    BY <2>1, OutreachAssumption DEF Keys
  <2>3. jobs \subseteq jobs' /\ jobs' \subseteq Keys /\ Saved' = Saved
    BY <1>2, <2>2 DEF Schedule, OutreachTyped, OutreachTypeOK, Saved
  <2>4. lead' \in [Leads -> LeadRow]
        /\ \A p \in Leads : lead'[p].status = lead[p].status /\ lead'[p].step = lead[p].step
    <3>1. lead' = lead \/ lead' = [lead EXCEPT ![agent[a].lead].due = "none"]
      BY <1>2 DEF Schedule
    <3>2. CASE lead' = [lead EXCEPT ![agent[a].lead].due = "none"]
      BY <2>1, <3>2, DueStored DEF OutreachTyped
    <3>3. CASE lead' = lead
      BY <3>3 DEF OutreachTyped, OutreachTypeOK
    <3> QED
      BY <3>1, <3>2, <3>3
  <2> QED
    BY <1>2, <2>3, <2>4, IdleStored DEF Schedule, OutreachTyped, OutreachTypeOK, Refers, Saved
<1> QED
  BY <1>1, <1>2

LEMMA BeginDraftTypes ==
  ASSUME OutreachTyped, NEW a \in Agents, NEW k \in jobs, BeginDraft(a, k) PROVE OutreachTyped'
<1> DEFINE next == [pc |-> "draft", key |-> k]
<1>1. next \in Local /\ next.pc = "draft" /\ next.key \in jobs
  BY DEF OutreachTyped, OutreachTypeOK, Local
<1>2. Saved' = Saved /\ UNCHANGED <<lead, mail, jobs, optedOut, arrived, dropped>>
  BY DEF BeginDraft, Saved
<1> HIDE DEF next
<1>3. /\ agent' \in [Agents -> Local]
      /\ \A b \in Agents :
           /\ agent'[b].pc \in {"claim", "send", "record", "advance"} => agent'[b].mail \in Saved
           /\ agent'[b].pc = "draft" => agent'[b].key \in jobs
  <2>1. CASE agent' = agent
    BY <2>1 DEF OutreachTyped, OutreachTypeOK, Refers
  <2>2. CASE agent' = [agent EXCEPT ![a] = next]
    BY <1>1, <1>2, <2>2, AgentStored
  <2> QED
    BY <2>1, <2>2 DEF BeginDraft, next
<1>4. ended' \subseteq jobs /\ losses' \in Nat
  BY DEF BeginDraft, OutreachTyped, OutreachTypeOK
<1> QED
  BY <1>2, <1>3, <1>4 DEF OutreachTyped, OutreachTypeOK, Refers

\* The draft that is saved is the next email, of a key that has none.
LEMMA SavedNext ==
  ASSUME OutreachTyped, NEW k \in Keys, ~Drafted(k), Cardinality(Saved) < MaxMails,
         mail' = SavedMail(k)
  PROVE  \E n \in MailIds :
           /\ n \notin Saved /\ Saved' = Saved \union {n}
           /\ mail'[n] = [key |-> k, status |-> "waiting", else |-> FALSE]
           /\ \A i \in Saved : mail'[i] = mail[i]
           /\ Saved' = 1..Cardinality(Saved') /\ Saved' \subseteq MailIds
<1> DEFINE n == Cardinality(Saved) + 1
<1>1. IsFiniteSet(Saved) /\ Cardinality(Saved) \in Nat /\ Saved = 1..Cardinality(Saved)
  <2>1. IsFiniteSet(MailIds)
    BY FS_Interval, OutreachAssumption DEF MailIds
  <2> QED
    BY <2>1, FS_Subset, FS_CardinalityType DEF OutreachTyped, OutreachTypeOK
<1>2. n \in MailIds /\ n \notin Saved
  BY <1>1, OutreachAssumption DEF MailIds
<1>3. mail' = [i \in Saved \union {n} |->
                 IF i \in Saved THEN mail[i] ELSE [key |-> k, status |-> "waiting", else |-> FALSE]]
  BY DEF SavedMail
<1>4. Saved' = Saved \union {n}
  BY <1>3 DEF Saved
<1>5. Cardinality(Saved') = n
  BY <1>1, <1>2, <1>4, FS_AddElement
<1>6. Saved' = 1..n
  BY <1>1, <1>4
<1> QED
  BY <1>2, <1>3, <1>4, <1>5, <1>6 DEF OutreachTyped, OutreachTypeOK

LEMMA SaveDraftTypes ==
  ASSUME OutreachTyped, NEW a \in Agents, SaveDraft(a) PROVE OutreachTyped'
<1>1. agent[a].key \in Keys /\ agent[a].key \in jobs
  BY LocalFields DEF SaveDraft, OutreachTyped, Refers
<1>2. /\ Saved \subseteq Saved' /\ Saved' = 1..Cardinality(Saved') /\ Saved' \subseteq MailIds
      /\ \A i \in Saved' : mail'[i] \in MailRow
  <2>1. CASE Drafted(agent[a].key)
    BY <2>1 DEF SaveDraft, SavedMail, OutreachTyped, OutreachTypeOK, Saved
  <2>2. CASE ~Drafted(agent[a].key)
    <3>1. PICK n \in MailIds :
            /\ Saved' = Saved \union {n}
            /\ mail'[n] = [key |-> agent[a].key, status |-> "waiting", else |-> FALSE]
            /\ \A i \in Saved : mail'[i] = mail[i]
            /\ Saved' = 1..Cardinality(Saved') /\ Saved' \subseteq MailIds
      BY <1>1, <2>2, SavedNext DEF SaveDraft
    <3>2. mail'[n] \in MailRow
      BY <1>1, <3>1 DEF MailRow, Open
    <3> QED
      BY <3>1, <3>2 DEF OutreachTyped, OutreachTypeOK
  <2> QED
    BY <2>1, <2>2
<1>3. ended' \subseteq jobs /\ jobs' = jobs
  BY <1>1 DEF SaveDraft, EndJob, OutreachTyped, OutreachTypeOK
<1>4. /\ agent' \in [Agents -> Local]
      /\ \A b \in Agents :
           /\ agent'[b].pc \in {"claim", "send", "record", "advance"} => agent'[b].mail \in Saved'
           /\ agent'[b].pc = "draft" => agent'[b].key \in jobs'
  BY <1>2, <1>3, IdleStored DEF SaveDraft
<1> QED
  BY <1>2, <1>3, <1>4 DEF SaveDraft, OutreachTyped, OutreachTypeOK, Refers

LEMMA EndDraftTypes ==
  ASSUME OutreachTyped, NEW a \in Agents, RefuseDraft(a) \/ PutOff(a) PROVE OutreachTyped'
<1>1. /\ agent' \in [Agents -> Local]
      /\ \A b \in Agents :
           /\ agent'[b].pc \in {"claim", "send", "record", "advance"} => agent'[b].mail \in Saved'
           /\ agent'[b].pc = "draft" => agent'[b].key \in jobs'
      /\ Saved' = Saved
  BY IdleStored DEF RefuseDraft, PutOff, Saved
<1>2. CASE RefuseDraft(a)
  <2>1. agent[a].key \in jobs /\ agent[a].key \in Keys
    BY <1>2, LocalFields DEF RefuseDraft, OutreachTyped, Refers
  <2>2. ended' \subseteq jobs
    BY <1>2, <2>1 DEF RefuseDraft, EndJob, OutreachTyped, OutreachTypeOK
  <2>3. /\ lead' \in [Leads -> LeadRow]
        /\ \A p \in Leads : lead'[p].status \in {lead[p].status, "stopped"}
                            /\ lead'[p].step = lead[p].step
    <3>1. PICK p \in Leads : p = agent[a].key.lead
      BY <2>1 DEF Keys
    <3>2. lead' = [lead EXCEPT ![p].status = "stopped"]
      BY <1>2, <3>1 DEF RefuseDraft
    <3>3. "stopped" \in LeadStatuses /\ OutreachTypeOK
      BY DEF LeadStatuses, OutreachTyped
    <3>4. /\ lead' \in [Leads -> LeadRow]
          /\ \A q \in Leads : lead'[q].status = (IF q = p THEN "stopped" ELSE lead[q].status)
                              /\ lead'[q].step = lead[q].step
      BY <3>2, <3>3, StatusStored
    <3> QED
      BY <3>4
  <2> QED
    BY <1>1, <1>2, <2>2, <2>3 DEF RefuseDraft, OutreachTyped, OutreachTypeOK, Refers
<1>3. CASE PutOff(a)
  BY <1>1, <1>3 DEF PutOff, OutreachTyped, OutreachTypeOK, Refers
<1> QED
  BY <1>2, <1>3

\* Steps in which only emails change, by their standing.
LEMMA MailTypes ==
  ASSUME OutreachTyped, Saved' = Saved, \A i \in Saved : mail'[i] \in MailRow,
         UNCHANGED <<lead, jobs, ended, optedOut, dropped, losses>>,
         arrived' \subseteq Saved,
         agent' \in [Agents -> Local],
         \A b \in Agents :
           /\ agent'[b].pc \in {"claim", "send", "record", "advance"} => agent'[b].mail \in Saved
           /\ agent'[b].pc = "draft" => agent'[b].key \in jobs
  PROVE  OutreachTyped'
  BY DEF OutreachTyped, OutreachTypeOK, Refers, LeadStatuses

\* The email an invocation is at goes on to another line of the code.
LEMMA MovedStored ==
  ASSUME OutreachTyped, NEW a \in Agents, NEW place \in {"send", "record", "advance"},
         agent[a].pc \in {"claim", "send", "record"},
         agent' = [agent EXCEPT ![a] = [@ EXCEPT !.pc = place]],
         Saved \subseteq Saved', jobs \subseteq jobs'
  PROVE  /\ agent' \in [Agents -> Local]
         /\ \A b \in Agents :
              /\ agent'[b].pc \in {"claim", "send", "record", "advance"} => agent'[b].mail \in Saved'
              /\ agent'[b].pc = "draft" => agent'[b].key \in jobs'
<1> DEFINE next == [pc |-> place, mail |-> agent[a].mail]
<1>1. /\ agent[a].mail \in MailIds /\ agent[a].mail \in Saved
      /\ agent[a] = [pc |-> agent[a].pc, mail |-> agent[a].mail]
  BY LocalFields DEF OutreachTyped, Refers
<1>2. next \in Local /\ next.pc # "draft" /\ next.mail \in Saved
  BY <1>1 DEF Local
<1>3. [agent[a] EXCEPT !.pc = place] = next
  BY <1>1
<1>4. agent' = [agent EXCEPT ![a] = next]
  BY <1>3
<1> HIDE DEF next
<1> QED
  BY <1>2, <1>4, AgentStored

LEMMA CheckTypes ==
  ASSUME OutreachTyped, NEW a \in Agents, NEW i \in MailIds, CheckMail(a, i) \/ SweepFound(a, i)
  PROVE  OutreachTyped'
<1>1. i \in Saved
  BY DEF CheckMail, SweepFound, Stuck
<1>2. ASSUME NEW place \in {"claim", "record"}, agent' = [agent EXCEPT ![a] = [pc |-> place, mail |-> i]],
             mail' = mail, UNCHANGED <<lead, Queue, Outside, Told>>
      PROVE OutreachTyped'
  <2> DEFINE next == [pc |-> place, mail |-> i]
  <2>1. next \in Local /\ next.pc # "draft" /\ next.mail \in Saved
    BY <1>1 DEF Local
  <2>2. agent' = [agent EXCEPT ![a] = next] /\ Saved' = Saved /\ jobs' = jobs
    BY <1>2 DEF Saved
  <2> HIDE DEF next
  <2>3. /\ agent' \in [Agents -> Local]
        /\ \A b \in Agents :
             /\ agent'[b].pc \in {"claim", "send", "record", "advance"} => agent'[b].mail \in Saved
             /\ agent'[b].pc = "draft" => agent'[b].key \in jobs
    BY <2>1, <2>2, AgentStored
  <2> QED
    BY <1>2, <2>2, <2>3, MailTypes DEF OutreachTyped, OutreachTypeOK
<1>3. CASE mail' = CancelMails({i}) /\ UNCHANGED <<agent, lead, Queue, Outside, Told>>
  <2>1. Saved' = Saved /\ \A j \in Saved : mail'[j] \in MailRow
    BY <1>3, CancelStored DEF OutreachTyped, Saved
  <2> QED
    BY <1>3, <2>1, MailTypes DEF OutreachTyped, OutreachTypeOK, Refers
<1> QED
  BY <1>2, <1>3 DEF CheckMail, SweepFound

LEMMA ClaimTypes == ASSUME OutreachTyped, NEW a \in Agents, ClaimMail(a) PROVE OutreachTyped'
<1>1. agent[a].mail \in Saved
  BY DEF ClaimMail, OutreachTyped, Refers
<1>2. CASE mail[agent[a].mail].status = "approved"
  <2>1. mail' = [mail EXCEPT ![agent[a].mail].status = "sending"]
        /\ agent' = [agent EXCEPT ![a] = [@ EXCEPT !.pc = "send"]]
    BY <1>2 DEF ClaimMail
  <2>2. Saved' = Saved /\ \A j \in Saved : mail'[j] \in MailRow
    BY <1>1, <2>1 DEF OutreachTyped, OutreachTypeOK, Saved, MailRow
  <2> QED
    BY <2>1, <2>2, MovedStored, MailTypes DEF ClaimMail, OutreachTyped, OutreachTypeOK
<1>3. CASE mail[agent[a].mail].status # "approved"
  <2>1. mail' = mail /\ agent' = [agent EXCEPT ![a] = Idle] /\ Saved' = Saved
    BY <1>3 DEF ClaimMail, Saved
  <2> QED
    BY <2>1, IdleStored, MailTypes DEF ClaimMail, OutreachTyped, OutreachTypeOK
<1> QED
  BY <1>2, <1>3

LEMMA IfSendingStored ==
  ASSUME OutreachTypeOK, NEW i \in Saved, NEW standing \in {"sent", "failed"},
         mail' = IfSending(i, standing)
  PROVE  Saved' = Saved /\ \A j \in Saved : mail'[j] \in MailRow
  BY DEF OutreachTypeOK, IfSending, MailRow, Saved

LEMMA SendTypes ==
  ASSUME OutreachTyped, NEW a \in Agents, Accepted(a) \/ Refused(a) \/ RecordSent(a) PROVE OutreachTyped'
<1>1. agent[a].mail \in Saved
  BY DEF Accepted, Refused, RecordSent, OutreachTyped, Refers
<1>2. CASE Accepted(a)
  <2>1. Saved' = Saved /\ mail' = mail /\ agent' = [agent EXCEPT ![a] = [@ EXCEPT !.pc = "record"]]
    BY <1>2 DEF Accepted, Saved
  <2> QED
    BY <1>1, <1>2, <2>1, MovedStored, MailTypes DEF Accepted, OutreachTyped, OutreachTypeOK
<1>3. CASE Refused(a)
  <2>1. Saved' = Saved /\ \A j \in Saved : mail'[j] \in MailRow
    BY <1>1, <1>3, IfSendingStored DEF Refused, OutreachTyped
  <2> QED
    BY <1>1, <1>3, <2>1, IdleStored, MailTypes DEF Refused, OutreachTyped, OutreachTypeOK
<1>4. CASE RecordSent(a)
  <2>1. Saved' = Saved /\ \A j \in Saved : mail'[j] \in MailRow
    <3>1. CASE mail' = mail
      BY <3>1 DEF OutreachTyped, OutreachTypeOK, Saved
    <3>2. CASE mail' = IfSending(agent[a].mail, "sent")
      BY <1>1, <3>2, IfSendingStored DEF OutreachTyped
    <3> QED
      BY <1>4, <3>1, <3>2 DEF RecordSent
  <2>2. \/ agent' = [agent EXCEPT ![a] = [@ EXCEPT !.pc = "advance"]]
        \/ agent' = [agent EXCEPT ![a] = Idle]
    BY <1>4 DEF RecordSent
  <2>3. /\ agent' \in [Agents -> Local]
        /\ \A b \in Agents :
             /\ agent'[b].pc \in {"claim", "send", "record", "advance"} => agent'[b].mail \in Saved'
             /\ agent'[b].pc = "draft" => agent'[b].key \in jobs'
    <3>1. CASE agent' = [agent EXCEPT ![a] = Idle]
      BY <1>4, <2>1, <3>1, IdleStored DEF RecordSent
    <3>2. CASE agent' = [agent EXCEPT ![a] = [@ EXCEPT !.pc = "advance"]]
      BY <1>4, <2>1, <3>2, MovedStored DEF RecordSent
    <3> QED
      BY <2>2, <3>1, <3>2
  <2> QED
    BY <1>4, <2>1, <2>3, MailTypes DEF RecordSent, OutreachTyped, OutreachTypeOK
<1> QED
  BY <1>2, <1>3, <1>4

LEMMA AdvanceTypes == ASSUME OutreachTyped, NEW a \in Agents, AdvanceSequence(a) PROVE OutreachTyped'
<1> DEFINE k == mail[agent[a].mail].key
<1>1. k \in Keys
  BY DEF AdvanceSequence, OutreachTyped, Refers, OutreachTypeOK, MailRow
<1>2. k.lead \in Leads /\ k.step \in Steps
  BY <1>1 DEF Keys
<1>3. lead \in [Leads -> LeadRow]
  BY DEF OutreachTyped, OutreachTypeOK
<1>4. lead' = Advanced(k.lead, k.step)
  BY DEF AdvanceSequence
<1> HIDE DEF k
<1>5. /\ lead' \in [Leads -> LeadRow]
      /\ \A p \in Leads : lead'[p].status \in {"new", "active"} => lead'[p].step \in Steps
  <2>1. CASE lead' = lead
    BY <2>1, <1>3 DEF OutreachTyped, Refers
  <2>2. CASE k.step < MaxFollowUps
             /\ lead' = [lead EXCEPT ![k.lead] =
                           [status |-> "active", step |-> k.step + 1, due |-> "later"]]
    BY <1>2, <1>3, <2>2, OutreachAssumption DEF LeadRow, Steps, OutreachTyped, Refers
  <2>3. CASE lead' = [lead EXCEPT ![k.lead] =
                        [status |-> "completed", step |-> k.step + 1, due |-> "none"]]
    BY <1>2, <1>3, <2>3, OutreachAssumption DEF LeadRow, Steps, OutreachTyped, Refers
  <2> QED
    BY <1>4, <2>1, <2>2, <2>3 DEF Advanced
<1>6. Saved' = Saved /\ UNCHANGED <<mail, jobs, ended, optedOut, arrived, losses, dropped>>
  BY DEF AdvanceSequence, Saved
<1>7. /\ agent' \in [Agents -> Local]
      /\ \A b \in Agents :
           /\ agent'[b].pc \in {"claim", "send", "record", "advance"} => agent'[b].mail \in Saved'
           /\ agent'[b].pc = "draft" => agent'[b].key \in jobs'
  BY <1>6, IdleStored DEF AdvanceSequence
<1> QED
  BY <1>5, <1>6, <1>7 DEF OutreachTyped, OutreachTypeOK, Refers

LEMMA DieTypes == ASSUME OutreachTyped, NEW a \in Agents, Die(a) PROVE OutreachTyped'
<1>1. Saved' = Saved /\ UNCHANGED <<lead, mail, jobs, ended, optedOut, arrived>> /\ losses' \in Nat
  BY DEF Die, Saved, OutreachTyped, OutreachTypeOK
<1>2. dropped' \subseteq Leads
  <2>1. CASE agent[a].pc = "advance"
    <3>1. mail[agent[a].mail].key.lead \in Leads
      BY <2>1 DEF OutreachTyped, Refers, OutreachTypeOK, MailRow, Keys
    <3> QED
      BY <3>1 DEF Die, OutreachTyped, OutreachTypeOK
  <2>2. CASE agent[a].pc # "advance"
    BY <2>2 DEF Die, OutreachTyped, OutreachTypeOK
  <2> QED
    BY <2>1, <2>2
<1>3. /\ agent' \in [Agents -> Local]
      /\ \A b \in Agents :
           /\ agent'[b].pc \in {"claim", "send", "record", "advance"} => agent'[b].mail \in Saved'
           /\ agent'[b].pc = "draft" => agent'[b].key \in jobs'
  BY <1>1, IdleStored DEF Die
<1> QED
  BY <1>1, <1>2, <1>3 DEF OutreachTyped, OutreachTypeOK, Refers

\* People, the gap, and the prospect itself: rows change, and jobs are added.
LEMMA PeopleTypes ==
  ASSUME OutreachTyped, Saved' = Saved, \A i \in Saved : mail'[i] \in MailRow,
         lead' \in [Leads -> LeadRow],
         \A p \in Leads : /\ lead'[p].step = lead[p].step
                          /\ lead'[p].status \in {"new", "active"} =>
                               lead[p].status \in {"new", "active"},
         jobs \subseteq jobs', jobs' \subseteq Keys, UNCHANGED <<ended, agent, arrived, losses>>,
         optedOut' \subseteq Leads \union {"else"}, dropped' \subseteq Leads
  PROVE  OutreachTyped'
  BY DEF OutreachTyped, OutreachTypeOK, Refers

LEMMA SweepFailTypes == ASSUME OutreachTyped, NEW i \in MailIds, SweepFail(i) PROVE OutreachTyped'
<1>1. i \in Saved
  BY DEF SweepFail, Stuck
<1>2. Saved' = Saved /\ \A j \in Saved : mail'[j] \in MailRow
  BY <1>1, IfSendingStored DEF SweepFail, OutreachTyped
<1> QED
  BY <1>2, MailTypes DEF SweepFail, OutreachTyped, OutreachTypeOK, Refers

LEMMA ReviewTypes == ASSUME OutreachTyped, NEW i \in MailIds, Review(i) PROVE OutreachTyped'
<1>1. i \in Saved
  BY DEF Review
<1>2. Saved' = Saved /\ \A j \in Saved : mail'[j] \in MailRow
  BY <1>1 DEF Review, OutreachTyped, OutreachTypeOK, Saved, MailRow, Open
<1> QED
  BY <1>2, MailTypes DEF Review, OutreachTyped, OutreachTypeOK, Refers

\* Who an email was for leaves the sequence, if still in it.
LEMMA StoppedStored ==
  ASSUME OutreachTyped, NEW i \in Saved, lead' = StoppedOf(i)
  PROVE  /\ lead' \in [Leads -> LeadRow]
         /\ \A q \in Leads : /\ lead'[q].step = lead[q].step
                             /\ \/ lead'[q].status = lead[q].status
                                \/ lead[q].status = "active" /\ lead'[q].status = "stopped"
<1>1. PICK p \in Leads : p = mail[i].key.lead
  BY DEF OutreachTyped, OutreachTypeOK, MailRow, Keys
<1>2. CASE lead[p].status # "active"
  <2>1. lead' = lead
    BY <1>1, <1>2 DEF StoppedOf
  <2> QED
    BY <2>1 DEF OutreachTyped, OutreachTypeOK
<1>3. CASE lead[p].status = "active"
  <2>1. lead' = Ended(p, "stopped") /\ "stopped" \in LeadStatuses /\ OutreachTypeOK
    BY <1>1, <1>3 DEF StoppedOf, LeadStatuses, OutreachTyped
  <2>2. /\ lead' \in [Leads -> LeadRow]
        /\ \A q \in Leads : lead'[q].status = (IF q = p THEN "stopped" ELSE lead[q].status)
                            /\ lead'[q].step = lead[q].step
    BY <2>1, EndStored
  <2> QED
    BY <1>3, <2>2
<1> QED
  BY <1>2, <1>3

LEMMA RejectTypes ==
  ASSUME OutreachTyped, NEW i \in MailIds, Cancel(i) \/ \E redraft \in BOOLEAN : Reject(i, redraft)
  PROVE  OutreachTyped'
<1>1. i \in Saved /\ mail' = CancelMails({i}) /\ UNCHANGED <<ended, agent, Outside, Told>>
  BY DEF Cancel, Reject
<1>2. Saved' = Saved /\ \A j \in Saved : mail'[j] \in MailRow
  BY <1>1, CancelStored DEF OutreachTyped, Saved
<1>3. CASE lead' = StoppedOf(i) /\ jobs' = jobs
  BY <1>1, <1>2, <1>3, StoppedStored, PeopleTypes DEF OutreachTyped, OutreachTypeOK
<1>4. CASE lead' = lead /\ jobs' = jobs \union {RedraftJob(i)}
  <2>1. RedraftJob(i) \in Keys
    <3>1. mail[i].key \in Keys /\ i \in 0..MaxMails
      BY <1>1, OutreachAssumption DEF OutreachTyped, OutreachTypeOK, MailRow, MailIds
    <3> QED
      BY <3>1 DEF RedraftJob, Keys
  <2> QED
    BY <1>1, <1>2, <1>4, <2>1, PeopleTypes DEF OutreachTyped, OutreachTypeOK
<1> QED
  BY <1>3, <1>4 DEF Cancel, Reject

\* A prospect that is started keeps its step.
LEMMA StartLead ==
  ASSUME OutreachTyped, NEW p \in Leads, Start(p)
  PROVE  /\ lead' \in [Leads -> LeadRow]
         /\ \A q \in Leads : /\ lead'[q].step = lead[q].step
                             /\ lead'[q].status \in {"new", "active"} =>
                                  lead[q].status \in {"new", "active"}
<1>1. lead \in [Leads -> LeadRow] /\ lead[p].status = "new"
  BY DEF OutreachTyped, OutreachTypeOK, Start
<1>2. ASSUME NEW r \in LeadRow
      PROVE /\ [r EXCEPT !.status = "active", !.due = "now"] \in LeadRow
            /\ [r EXCEPT !.status = "active", !.due = "now"].step = r.step
  BY DEF LeadRow
<1>3. lead' = [lead EXCEPT ![p] = [lead[p] EXCEPT !.status = "active", !.due = "now"]]
  BY <1>1 DEF Start
<1> DEFINE row == [lead[p] EXCEPT !.status = "active", !.due = "now"]
<1>4. row \in LeadRow /\ row.step = lead[p].step /\ lead' = [lead EXCEPT ![p] = row]
  BY <1>1, <1>2, <1>3
<1> HIDE DEF row
<1>5. lead'[p] = row /\ \A q \in Leads \ {p} : lead'[q] = lead[q]
  BY <1>1, <1>4
<1> QED
  BY <1>1, <1>4, <1>5

LEMMA GapTypes ==
  ASSUME OutreachTyped, NEW p \in Leads, GapEnds(p) \/ Start(p) PROVE OutreachTyped'
<1>1. Saved' = Saved /\ UNCHANGED <<mail, Queue, agent, Outside, Told>>
  BY DEF GapEnds, Start, Saved
<1>2. CASE GapEnds(p)
  <2>1. /\ lead' \in [Leads -> LeadRow]
        /\ \A q \in Leads : lead'[q].status = lead[q].status /\ lead'[q].step = lead[q].step
    BY <1>2, DueStored DEF GapEnds, OutreachTyped
  <2> QED
    BY <1>1, <2>1, PeopleTypes DEF OutreachTyped, OutreachTypeOK
<1>3. CASE Start(p)
  <2>1. /\ lead' \in [Leads -> LeadRow]
        /\ \A q \in Leads : /\ lead'[q].step = lead[q].step
                            /\ lead'[q].status \in {"new", "active"} =>
                                 lead[q].status \in {"new", "active"}
    BY <1>3, StartLead
  <2> QED
    BY <1>1, <2>1, PeopleTypes DEF OutreachTyped, OutreachTypeOK
<1> QED
  BY <1>2, <1>3

\* What Leaves and Suppress do to the prospect.
LEMMA LeavesLead ==
  ASSUME OutreachTyped, NEW p \in Leads, Leaves(p)
  PROVE  /\ lead' \in [Leads -> LeadRow]
         /\ \A q \in Leads :
              /\ lead'[q].step = lead[q].step
              /\ \/ lead'[q].status = lead[q].status
                 \/ lead[q].status \in {"new", "active"} /\ lead'[q].status \in {"replied", "stopped"}
                 \/ lead'[q].status = "stopped"
<1>1. PICK s \in LeadStatuses :
        /\ lead' = Ended(p, s)
        /\ \/ lead[p].status \in {"new", "active"} /\ s \in {"replied", "stopped"}
           \/ s = "stopped"
  BY DEF Leaves, LeadStatuses
<1>2. /\ lead' \in [Leads -> LeadRow]
      /\ \A q \in Leads : lead'[q].status = (IF q = p THEN s ELSE lead[q].status)
                          /\ lead'[q].step = lead[q].step
  BY <1>1, EndStored DEF OutreachTyped
<1> QED
  BY <1>1, <1>2

LEMMA SuppressLead ==
  ASSUME OutreachTyped, NEW x \in Leads \union {"else"}, Suppress(x)
  PROVE  /\ lead' \in [Leads -> LeadRow]
         /\ \A q \in Leads :
              /\ lead'[q].step = lead[q].step
              /\ \/ lead'[q].status = lead[q].status
                 \/ lead[q].status \in {"new", "active"} /\ lead'[q].status = "opted_out"
<1>1. CASE x \in Leads /\ lead[x].status \in {"new", "active"}
  <2>1. lead' = Ended(x, "opted_out") /\ "opted_out" \in LeadStatuses /\ x \in Leads
    BY <1>1 DEF Suppress, LeadStatuses
  <2>2. /\ lead' \in [Leads -> LeadRow]
        /\ \A q \in Leads : lead'[q].status = (IF q = x THEN "opted_out" ELSE lead[q].status)
                            /\ lead'[q].step = lead[q].step
    BY <2>1, EndStored DEF OutreachTyped
  <2> QED
    BY <1>1, <2>2
<1>2. CASE ~(x \in Leads /\ lead[x].status \in {"new", "active"})
  BY <1>2 DEF Suppress, OutreachTyped, OutreachTypeOK
<1> QED
  BY <1>1, <1>2

LEMMA LeavesTypes == ASSUME OutreachTyped, NEW p \in Leads, Leaves(p) PROVE OutreachTyped'
<1>1. mail' = CancelMails(MailsOf(p)) \/ mail' = mail
  BY DEF Leaves
<1>2. Saved' = Saved /\ \A j \in Saved : mail'[j] \in MailRow
  BY <1>1, CancelStored DEF OutreachTyped, OutreachTypeOK, Saved
<1>3. UNCHANGED <<Queue, agent, Outside, Told>>
  BY DEF Leaves
<1> QED
  BY <1>2, <1>3, LeavesLead, PeopleTypes DEF OutreachTyped, OutreachTypeOK

LEMMA SuppressTypes ==
  ASSUME OutreachTyped, NEW x \in Leads \union {"else"}, Suppress(x) PROVE OutreachTyped'
<1> DEFINE ids == {i \in Saved : AddressOf(i) = x}
<1>1. mail' = CancelMails(ids)
  BY DEF Suppress
<1> HIDE DEF ids
<1>2. Saved' = Saved /\ \A j \in Saved : mail'[j] \in MailRow
  BY <1>1, CancelStored DEF OutreachTyped, Saved
<1>3. /\ UNCHANGED <<Queue, agent, arrived, losses>>
      /\ optedOut' \subseteq Leads \union {"else"} /\ dropped' \subseteq Leads
  BY DEF Suppress, OutreachTyped, OutreachTypeOK, MailRow, Keys
<1> QED
  BY <1>2, <1>3, SuppressLead, PeopleTypes DEF OutreachTyped, OutreachTypeOK

LEMMA OutreachTypeStep == OutreachTyped /\ [OutreachNext]_outreachVars => OutreachTyped'
<1> SUFFICES ASSUME OutreachTyped, [OutreachNext]_outreachVars PROVE OutreachTyped'
  OBVIOUS
<1>1. CASE UNCHANGED outreachVars
  BY <1>1 DEF outreachVars, OutreachTyped, OutreachTypeOK, Refers, Saved
<1>2. ASSUME NEW a \in Agents, AgentStep(a) PROVE OutreachTyped'
  <2>1. CASE (\E p \in Leads : ReadDue(a, p)) \/ Schedule(a)
    BY <2>1, ScheduleTypes
  <2>2. CASE \E k \in jobs : BeginDraft(a, k)
    BY <2>2, BeginDraftTypes
  <2>3. CASE SaveDraft(a) \/ RefuseDraft(a) \/ PutOff(a)
    BY <2>3, SaveDraftTypes, EndDraftTypes
  <2>4. CASE \E i \in MailIds : CheckMail(a, i) \/ SweepFound(a, i)
    BY <2>4, CheckTypes
  <2>5. CASE ClaimMail(a) \/ Accepted(a) \/ Refused(a) \/ RecordSent(a)
    BY <2>5, ClaimTypes, SendTypes
  <2>6. CASE AdvanceSequence(a) \/ Die(a)
    BY <2>6, AdvanceTypes, DieTypes
  <2> QED
    BY <1>2, <2>1, <2>2, <2>3, <2>4, <2>5, <2>6 DEF AgentStep
<1>3. ASSUME NEW i \in MailIds,
             SweepFail(i) \/ Review(i) \/ Cancel(i) \/ \E redraft \in BOOLEAN : Reject(i, redraft)
      PROVE OutreachTyped'
  BY <1>3, SweepFailTypes, ReviewTypes, RejectTypes
<1>4. ASSUME NEW p \in Leads, GapEnds(p) \/ Start(p) \/ Leaves(p) PROVE OutreachTyped'
  BY <1>4, GapTypes, LeavesTypes
<1>5. ASSUME NEW x \in Leads \union {"else"}, Suppress(x) PROVE OutreachTyped'
  BY <1>5, SuppressTypes
<1> QED
  BY <1>1, <1>2, <1>3, <1>4, <1>5 DEF OutreachNext

\* The rows, the jobs and the mine have their types.
THEOREM OutreachTypes == OutreachSpec => []OutreachTyped
  BY OutreachTypeInit, OutreachTypeStep, PTL DEF OutreachSpec

-----------------------------------------------------------------------------
(* A sequence that ended.                                                  *)

StaysEnded ==
  \A p \in Leads : lead[p].status \notin {"new", "active"} =>
    lead'[p].status \in {lead[p].status, "stopped"}

\* A job, a draft or a worker that comes back late never makes a prospect active
\* again (advanceSequence, refuseDraft, schedule).
LEMMA AgentStaysEnded == ASSUME OutreachTyped, NEW a \in Agents, AgentStep(a) PROVE StaysEnded
<1>1. CASE lead' = lead
  BY <1>1 DEF StaysEnded
<1>2. CASE Schedule(a)
  <2>1. CASE lead' = [lead EXCEPT ![agent[a].lead].due = "none"]
    <3>1. PICK p \in Leads : p = agent[a].lead
      BY <1>2, LocalFields DEF Schedule, OutreachTyped
    <3> QED
      BY <2>1, <3>1, DueStored DEF StaysEnded, OutreachTyped
  <2> QED
    BY <1>1, <1>2, <2>1 DEF Schedule
<1>3. CASE RefuseDraft(a)
  <2>1. PICK p \in Leads : p = agent[a].key.lead
    BY <1>3, LocalFields DEF RefuseDraft, OutreachTyped, Keys
  <2>2. lead' = [lead EXCEPT ![p].status = "stopped"] /\ "stopped" \in LeadStatuses
    BY <1>3, <2>1 DEF RefuseDraft, LeadStatuses
  <2>3. \A q \in Leads : lead'[q].status = (IF q = p THEN "stopped" ELSE lead[q].status)
    BY <2>2, StatusStored DEF OutreachTyped
  <2> QED
    BY <2>3 DEF StaysEnded
<1>4. CASE AdvanceSequence(a)
  <2> DEFINE k == mail[agent[a].mail].key
  <2>1. lead' = Advanced(k.lead, k.step) /\ lead \in [Leads -> LeadRow]
    BY <1>4 DEF AdvanceSequence, OutreachTyped, OutreachTypeOK
  <2>2. \A q \in Leads : lead[q].status # "active" => lead'[q] = lead[q]
    BY <2>1 DEF Advanced
  <2> QED
    BY <2>2 DEF StaysEnded
<1> QED
  BY <1>1, <1>2, <1>3, <1>4
  DEF AgentStep, ReadDue, BeginDraft, SaveDraft, PutOff, CheckMail, SweepFound, ClaimMail,
      Accepted, Refused, RecordSent, Die

LEMMA StaysEndedStep == OutreachTyped /\ [OutreachNext]_outreachVars => StaysEnded
<1> SUFFICES ASSUME OutreachTyped, [OutreachNext]_outreachVars PROVE StaysEnded
  OBVIOUS
<1>1. CASE lead' = lead
  BY <1>1 DEF StaysEnded
<1>2. ASSUME NEW a \in Agents, AgentStep(a) PROVE StaysEnded
  BY <1>2, AgentStaysEnded
<1>3. ASSUME NEW i \in MailIds, Cancel(i) \/ \E redraft \in BOOLEAN : Reject(i, redraft)
      PROVE StaysEnded
  <2>1. CASE lead' = StoppedOf(i) /\ i \in Saved
    BY <2>1, StoppedStored DEF StaysEnded
  <2> QED
    BY <1>1, <1>3, <2>1 DEF Cancel, Reject
<1>4. ASSUME NEW p \in Leads, GapEnds(p) PROVE StaysEnded
  BY <1>4, DueStored DEF GapEnds, StaysEnded, OutreachTyped
<1>5. ASSUME NEW p \in Leads, Start(p) PROVE StaysEnded
  BY <1>5 DEF Start, StaysEnded, OutreachTyped, OutreachTypeOK
<1>6. ASSUME NEW p \in Leads, Leaves(p) PROVE StaysEnded
  BY <1>6, LeavesLead DEF StaysEnded
<1>7. ASSUME NEW x \in Leads \union {"else"}, Suppress(x) PROVE StaysEnded
  BY <1>7, SuppressLead DEF StaysEnded
<1> QED
  BY <1>1, <1>2, <1>3, <1>4, <1>5, <1>6, <1>7
  DEF OutreachNext, SweepFail, Review, outreachVars

\* A sequence that ended stays ended, whoever comes back late.
THEOREM OutreachEndsForGood == OutreachSpec => EndsForGood
  BY OutreachTypes, StaysEndedStep, PTL DEF OutreachSpec, EndsForGood, StaysEnded

-----------------------------------------------------------------------------
(* One thing open at a time for each step of a prospect.                   *)

SameStep(k, l) == k.lead = l.lead /\ k.step = l.step
FirstDraft(k) == [lead |-> k.lead, step |-> k.step, after |-> 0]

OneOpen ==
  /\ \A i \in Saved : mail[i].key \in jobs
  /\ \A k \in jobs : k.after # 0 => /\ k.after \in Saved /\ mail[k.after].status = "off"
                                    /\ SameStep(mail[k.after].key, k)
  /\ \A k \in jobs : FirstDraft(k) \in jobs
  /\ \A i, j \in Saved : SameStep(mail[i].key, mail[j].key) =>
       i = j \/ mail[i].status = "off" \/ mail[j].status = "off"
  /\ \A k, l \in jobs : ~Drafted(k) /\ ~Drafted(l) /\ SameStep(k, l) => k = l
  /\ \A k \in jobs, i \in Saved :
       ~Drafted(k) /\ SameStep(k, mail[i].key) => mail[i].status = "off"

\* Emails keep their keys, and those that are cancelled or sent stay so.
RowsKeep ==
  /\ Saved \subseteq Saved'
  /\ \A i \in Saved : /\ mail'[i].key = mail[i].key
                      /\ mail[i].status = "off" => mail'[i].status = "off"
                      /\ mail[i].status = "sent" => mail'[i].status = "sent"

\* What changes of the emails' statuses when nothing is drafted or queued.
LEMMA StatusKeepsOpen ==
  ASSUME OneOpen, RowsKeep, Saved' = Saved, jobs' = jobs PROVE OneOpen'
<1>1. \A k : Drafted(k)' <=> Drafted(k)
  BY DEF Drafted, RowsKeep
<1> QED
  BY <1>1 DEF OneOpen, RowsKeep, SameStep, FirstDraft

LEMMA CancelKeeps ==
  ASSUME NEW ids, mail' = CancelMails(ids) PROVE RowsKeep /\ Saved' = Saved
  BY DEF CancelMails, RowsKeep, Saved, Open

LEMMA ScheduleOpens ==
  ASSUME OutreachTyped, OneOpen, NEW a \in Agents, Schedule(a) PROVE OneOpen' /\ RowsKeep
<1>1. mail' = mail /\ Saved' = Saved /\ RowsKeep
  BY DEF Schedule, Saved, RowsKeep
<1>2. CASE jobs' = jobs
  BY <1>1, <1>2, StatusKeepsOpen
<1>3. CASE jobs' # jobs
  <2> DEFINE k == [lead |-> agent[a].lead, step |-> agent[a].step, after |-> 0]
  <2>1. jobs' = jobs \union {k} /\ k \notin jobs
    BY <1>3 DEF Schedule
  <2>2. k.after = 0 /\ FirstDraft(k) = k
    BY DEF FirstDraft
  <2> HIDE DEF k
  <2>3. \A l \in jobs : ~SameStep(k, l) /\ ~SameStep(l, k)
    <3> SUFFICES ASSUME NEW l \in jobs, l.lead = k.lead, l.step = k.step PROVE FALSE
      BY DEF SameStep
    <3>1. FirstDraft(l) = FirstDraft(k) /\ FirstDraft(l) \in jobs
      BY DEF FirstDraft, OneOpen
    <3> QED
      BY <2>1, <2>2, <3>1
  <2>4. \A i \in Saved : mail[i].key \in jobs
    BY DEF OneOpen
  <2>5. \A l : Drafted(l)' <=> Drafted(l)
    BY <1>1 DEF Drafted
  <2>6. SameStep(k, k)
    BY DEF SameStep
  <2> QED
    BY <1>1, <2>1, <2>2, <2>3, <2>4, <2>5 DEF OneOpen
<1> QED
  BY <1>1, <1>2, <1>3

LEMMA RedraftOpens ==
  ASSUME OutreachTyped, OneOpen, NEW i \in MailIds, Reject(i, TRUE) PROVE OneOpen' /\ RowsKeep
<1> DEFINE k == RedraftJob(i)
<1>1. /\ i \in Saved /\ mail[i].status = "waiting" /\ mail' = CancelMails({i})
      /\ jobs' = jobs \union {k}
  BY DEF Reject
<1>2. RowsKeep /\ Saved' = Saved
  BY <1>1, CancelKeeps
<1>3. mail'[i].status = "off"
  BY <1>1 DEF CancelMails, Open, OutreachTyped, OutreachTypeOK, MailRow
<1>4. mail[i].key \in Keys /\ i # 0
  BY <1>1 DEF OutreachTyped, OutreachTypeOK, MailRow, MailIds
<1>5. k.after = i /\ SameStep(mail[i].key, k) /\ SameStep(k, mail[i].key)
      /\ FirstDraft(k) = FirstDraft(mail[i].key)
  BY <1>4 DEF RedraftJob, Keys, SameStep, FirstDraft
<1> HIDE DEF k
<1>6. k \notin jobs /\ ~Drafted(k)
  BY <1>1, <1>4, <1>5 DEF OneOpen, Drafted
<1>7. \A l : Drafted(l)' <=> Drafted(l)
  BY <1>2 DEF Drafted, RowsKeep
<1>8. \A l \in jobs : SameStep(l, k) \/ SameStep(k, l) => Drafted(l)
  BY <1>1, <1>5 DEF OneOpen, SameStep
<1>9. ASSUME NEW j \in Saved, SameStep(k, mail[j].key) PROVE mail'[j].status = "off"
  <2>1. SameStep(mail[i].key, mail[j].key)
    BY <1>5, <1>9 DEF SameStep
  <2>2. i = j \/ mail[i].status = "off" \/ mail[j].status = "off"
    BY <1>1, <2>1 DEF OneOpen
  <2> QED
    BY <1>1, <1>2, <1>3, <2>2 DEF RowsKeep
<1>10. mail[i].key \in jobs /\ FirstDraft(k) \in jobs
  BY <1>1, <1>5 DEF OneOpen
<1>11. /\ \A j \in Saved' : mail'[j].key \in jobs'
       /\ \A l \in jobs' : l.after # 0 => /\ l.after \in Saved' /\ mail'[l.after].status = "off"
                                          /\ SameStep(mail'[l.after].key, l)
       /\ \A l \in jobs' : FirstDraft(l) \in jobs'
  <2>1. \A j \in Saved' : mail'[j].key \in jobs'
    BY <1>1, <1>2 DEF OneOpen, RowsKeep
  <2>2. ASSUME NEW l \in jobs', l.after # 0
        PROVE /\ l.after \in Saved' /\ mail'[l.after].status = "off"
              /\ SameStep(mail'[l.after].key, l)
    <3>1. CASE l = k
      BY <1>1, <1>2, <1>3, <1>5, <3>1 DEF RowsKeep
    <3>2. CASE l \in jobs
      <4>1. l.after \in Saved /\ mail[l.after].status = "off" /\ SameStep(mail[l.after].key, l)
        BY <2>2, <3>2 DEF OneOpen
      <4> QED
        BY <1>2, <4>1 DEF RowsKeep
    <3> QED
      BY <1>1, <2>2, <3>1, <3>2
  <2>3. \A l \in jobs' : FirstDraft(l) \in jobs'
    BY <1>1, <1>10 DEF OneOpen
  <2> QED
    BY <2>1, <2>2, <2>3
<1>12. \A j, m \in Saved' : SameStep(mail'[j].key, mail'[m].key) =>
         j = m \/ mail'[j].status = "off" \/ mail'[m].status = "off"
  BY <1>2 DEF OneOpen, RowsKeep
<1>13. \A l, m \in jobs' : ~Drafted(l)' /\ ~Drafted(m)' /\ SameStep(l, m) => l = m
  BY <1>1, <1>7, <1>8 DEF OneOpen
<1>14. \A l \in jobs', j \in Saved' :
         ~Drafted(l)' /\ SameStep(l, mail'[j].key) => mail'[j].status = "off"
  BY <1>1, <1>2, <1>7, <1>9 DEF OneOpen, RowsKeep
<1> QED
  BY <1>2, <1>11, <1>12, <1>13, <1>14 DEF OneOpen, SameStep, FirstDraft

LEMMA DraftOpens ==
  ASSUME OutreachTyped, OneOpen, NEW a \in Agents, SaveDraft(a) PROVE OneOpen' /\ RowsKeep
<1> DEFINE k == agent[a].key
<1>1. k \in Keys /\ k \in jobs /\ jobs' = jobs
  BY LocalFields DEF SaveDraft, OutreachTyped, Refers
<1>2. CASE Drafted(k)
  <2>1. mail' = mail /\ Saved' = Saved /\ RowsKeep
    BY <1>2 DEF SaveDraft, SavedMail, Saved, RowsKeep
  <2> QED
    BY <1>1, <2>1, StatusKeepsOpen
<1>3. CASE ~Drafted(k)
  <2>1. Cardinality(Saved) < MaxMails /\ mail' = SavedMail(k)
    BY DEF SaveDraft
  <2> HIDE DEF k
  <2>2. PICK n \in MailIds :
          /\ n \notin Saved /\ Saved' = Saved \union {n}
          /\ mail'[n] = [key |-> k, status |-> "waiting", else |-> FALSE]
          /\ \A i \in Saved : mail'[i] = mail[i]
    BY <1>1, <1>3, <2>1, SavedNext
  <2>3. RowsKeep /\ mail'[n].key = k
    BY <2>2 DEF RowsKeep
  <2>4. \A l : Drafted(l)' <=> Drafted(l) \/ l = k
    BY <2>2, <2>3 DEF Drafted
  <2>5. \A i \in Saved : SameStep(k, mail[i].key) \/ SameStep(mail[i].key, k) => mail[i].status = "off"
    BY <1>1, <1>3 DEF OneOpen, SameStep
  <2>6. \A l \in jobs : l # k /\ (SameStep(k, l) \/ SameStep(l, k)) => Drafted(l)
    BY <1>1, <1>3 DEF OneOpen, SameStep
  <2>7. /\ \A i \in Saved' : mail'[i].key \in jobs'
        /\ \A l \in jobs' : l.after # 0 => /\ l.after \in Saved' /\ mail'[l.after].status = "off"
                                           /\ SameStep(mail'[l.after].key, l)
        /\ \A l \in jobs' : FirstDraft(l) \in jobs'
    BY <1>1, <2>2, <2>3 DEF OneOpen
  <2>8. \A i, j \in Saved' : SameStep(mail'[i].key, mail'[j].key) =>
          i = j \/ mail'[i].status = "off" \/ mail'[j].status = "off"
    BY <2>2, <2>3, <2>5 DEF OneOpen
  <2>9. \A l, m \in jobs' : ~Drafted(l)' /\ ~Drafted(m)' /\ SameStep(l, m) => l = m
    BY <1>1, <2>4 DEF OneOpen
  <2>10. \A l \in jobs', i \in Saved' :
           ~Drafted(l)' /\ SameStep(l, mail'[i].key) => mail'[i].status = "off"
    BY <1>1, <2>2, <2>3, <2>4, <2>6 DEF OneOpen
  <2> QED
    BY <2>3, <2>7, <2>8, <2>9, <2>10 DEF OneOpen, SameStep, FirstDraft
<1> QED
  BY <1>2, <1>3

\* The steps that only change the statuses of emails.
LEMMA ClaimKeeps ==
  ASSUME OutreachTyped, NEW i \in Saved, mail[i].status = "approved",
         mail' = [mail EXCEPT ![i].status = "sending"]
  PROVE  RowsKeep /\ Saved' = Saved
  BY DEF RowsKeep, Saved, OutreachTyped, OutreachTypeOK, MailRow

LEMMA SentKeeps ==
  ASSUME OutreachTyped, NEW i \in Saved, mail' = IfSending(i, "sent")
  PROVE  RowsKeep /\ Saved' = Saved
  BY DEF RowsKeep, Saved, IfSending, OutreachTyped, OutreachTypeOK, MailRow

LEMMA FailedKeeps ==
  ASSUME OutreachTyped, NEW i \in Saved, mail' = IfSending(i, "failed")
  PROVE  RowsKeep /\ Saved' = Saved
  BY DEF RowsKeep, Saved, IfSending, OutreachTyped, OutreachTypeOK, MailRow

LEMMA OpenStep ==
  ASSUME OutreachTyped, OneOpen, [OutreachNext]_outreachVars PROVE OneOpen' /\ RowsKeep
<1>1. CASE mail' = mail /\ jobs' = jobs
  <2>1. RowsKeep /\ Saved' = Saved
    BY <1>1 DEF RowsKeep, Saved
  <2> QED
    BY <1>1, <2>1, StatusKeepsOpen
<1>2. ASSUME RowsKeep, Saved' = Saved, jobs' = jobs PROVE OneOpen' /\ RowsKeep
  BY <1>2, StatusKeepsOpen
<1>3. ASSUME NEW ids, mail' = CancelMails(ids), jobs' = jobs PROVE OneOpen' /\ RowsKeep
  BY <1>2, <1>3, CancelKeeps
<1>4. ASSUME NEW a \in Agents, AgentStep(a) PROVE OneOpen' /\ RowsKeep
  <2>1. CASE Schedule(a) \/ SaveDraft(a)
    BY <2>1, ScheduleOpens, DraftOpens
  <2>2. CASE ClaimMail(a) \/ Refused(a) \/ RecordSent(a)
    <3>1. PICK i \in Saved : i = agent[a].mail
      BY <2>2 DEF ClaimMail, Refused, RecordSent, OutreachTyped, Refers
    <3>2. jobs' = jobs
      BY <2>2 DEF ClaimMail, Refused, RecordSent
    <3>3. CASE ClaimMail(a)
      <4>1. \/ mail' = mail
            \/ mail[i].status = "approved" /\ mail' = [mail EXCEPT ![i].status = "sending"]
        BY <3>1, <3>3 DEF ClaimMail
      <4>2. CASE mail[i].status = "approved" /\ mail' = [mail EXCEPT ![i].status = "sending"]
        BY <1>2, <3>2, <4>2, ClaimKeeps
      <4> QED
        BY <1>1, <3>2, <4>1, <4>2
    <3>4. CASE Refused(a) \/ RecordSent(a)
      <4>1. mail' = mail \/ mail' = IfSending(i, "sent") \/ mail' = IfSending(i, "failed")
        BY <3>1, <3>4 DEF Refused, RecordSent
      <4>2. CASE mail' = IfSending(i, "sent")
        BY <1>2, <3>2, <4>2, SentKeeps
      <4>3. CASE mail' = IfSending(i, "failed")
        BY <1>2, <3>2, <4>3, FailedKeeps
      <4> QED
        BY <1>1, <3>2, <4>1, <4>2, <4>3
    <3> QED
      BY <2>2, <3>3, <3>4
  <2>3. ASSUME NEW i \in MailIds, CheckMail(a, i) PROVE OneOpen' /\ RowsKeep
    BY <1>1, <1>3, <2>3 DEF CheckMail
  <2> QED
    BY <1>1, <1>4, <2>1, <2>2, <2>3
    DEF AgentStep, ReadDue, BeginDraft, RefuseDraft, PutOff, SweepFound, Accepted,
        AdvanceSequence, Die
<1>5. ASSUME NEW i \in MailIds, SweepFail(i) PROVE OneOpen' /\ RowsKeep
  <2>1. i \in Saved /\ mail' = IfSending(i, "failed") /\ jobs' = jobs
    BY <1>5 DEF SweepFail, Stuck
  <2>2. RowsKeep /\ Saved' = Saved
    BY <2>1, FailedKeeps
  <2> QED
    BY <1>2, <2>1, <2>2
<1>6. ASSUME NEW i \in MailIds, Review(i) PROVE OneOpen' /\ RowsKeep
  <2>1. RowsKeep /\ Saved' = Saved
    BY <1>6 DEF Review, RowsKeep, Saved, Open, OutreachTyped, OutreachTypeOK, MailRow
  <2> QED
    BY <1>2, <1>6, <2>1 DEF Review
<1>7. ASSUME NEW i \in MailIds, Cancel(i) \/ \E redraft \in BOOLEAN : Reject(i, redraft)
      PROVE OneOpen' /\ RowsKeep
  <2>1. CASE Reject(i, TRUE)
    BY <2>1, RedraftOpens
  <2>2. CASE Cancel(i) \/ Reject(i, FALSE)
    BY <1>3, <2>2 DEF Cancel, Reject
  <2> QED
    BY <1>7, <2>1, <2>2
<1>8. ASSUME NEW p \in Leads, Leaves(p) PROVE OneOpen' /\ RowsKeep
  BY <1>1, <1>3, <1>8 DEF Leaves
<1>9. ASSUME NEW x \in Leads \union {"else"}, Suppress(x) PROVE OneOpen' /\ RowsKeep
  BY <1>3, <1>9 DEF Suppress
<1> QED
  BY <1>1, <1>4, <1>5, <1>6, <1>7, <1>8, <1>9 DEF OutreachNext, GapEnds, Start, outreachVars

-----------------------------------------------------------------------------
(* Whose email it is to settle, when the sweep comes in time.              *)

Holds(a) == agent[a].pc \in {"send", "record"}

Senders ==
  /\ \A a \in Agents : Holds(a) => mail[agent[a].mail].status = "sending"
  /\ \A a, b \in Agents : Holds(a) /\ Holds(b) /\ agent[a].mail = agent[b].mail => a = b
  /\ \A a \in Agents : agent[a].pc = "advance" => mail[agent[a].mail].status = "sent"

\* An invocation that is or becomes something else than a sender, while the emails
\* that others hold or have recorded stay as they are.
LEMMA SendersKept ==
  ASSUME OutreachTyped, Senders, NEW a \in Agents, NEW mine, agent' = [agent EXCEPT ![a] = mine],
         mine.pc \notin {"send", "record", "advance"},
         \A b \in Agents \ {a} :
           agent[b].pc \in {"send", "record", "advance"} =>
             mail'[agent[b].mail].status = mail[agent[b].mail].status
  PROVE  Senders'
<1>1. agent'[a] = mine /\ \A b \in Agents \ {a} : agent'[b] = agent[b]
  BY DEF OutreachTyped, OutreachTypeOK
<1> QED
  BY <1>1 DEF Senders, Holds

\* The invocations that stand still, and emails of which none in sending changes.
LEMMA SendersStay ==
  ASSUME OutreachTyped, Senders, agent' = agent,
         \A i \in Saved : mail[i].status \in {"sending", "sent"} => mail'[i].status = mail[i].status
  PROVE  Senders'
<1>1. \A b \in Agents : agent[b].pc \in {"send", "record", "advance"} =>
        mail'[agent[b].mail].status = mail[agent[b].mail].status
  BY DEF OutreachTyped, Refers, Senders, Holds
<1> QED
  BY <1>1 DEF Senders, Holds

\* Cancelling leaves what is being sent, and what was.
LEMMA CancelLeaves ==
  ASSUME NEW ids, mail' = CancelMails(ids)
  PROVE  \A i \in Saved : mail[i].status \in {"sending", "sent"} => mail'[i].status = mail[i].status
  BY DEF CancelMails, Open

\* A draft adds an email and leaves the others alone.
LEMMA DraftLeaves ==
  ASSUME OutreachTyped, NEW a \in Agents, SaveDraft(a)
  PROVE  \A i \in Saved : mail'[i] = mail[i]
  BY DEF SaveDraft, SavedMail

LEMMA DrafterSenders ==
  ASSUME OutreachTyped, Senders, NEW a \in Agents,
         \/ \E p \in Leads : ReadDue(a, p)
         \/ \E k \in jobs : BeginDraft(a, k)
         \/ Schedule(a) \/ SaveDraft(a) \/ RefuseDraft(a) \/ PutOff(a)
         \/ AdvanceSequence(a) \/ Die(a)
  PROVE  Senders'
<1>1. \A i \in Saved : mail'[i] = mail[i]
  BY DraftLeaves DEF ReadDue, BeginDraft, Schedule, RefuseDraft, PutOff, AdvanceSequence, Die
<1>2. \A b \in Agents : agent[b].pc \in {"send", "record", "advance"} =>
        mail'[agent[b].mail].status = mail[agent[b].mail].status
  BY <1>1 DEF OutreachTyped, Refers
<1>3. CASE agent' = agent
  BY <1>1, <1>3, SendersStay
<1>4. CASE agent' # agent
  <2>1. PICK mine : /\ agent' = [agent EXCEPT ![a] = mine]
                      /\ mine.pc \notin {"send", "record", "advance"}
    BY <1>4 DEF ReadDue, BeginDraft, Schedule, SaveDraft, RefuseDraft, PutOff, AdvanceSequence, Die, Idle
  <2> QED
    BY <1>2, <2>1, SendersKept
<1> QED
  BY <1>3, <1>4

LEMMA CheckSenders ==
  ASSUME OutreachTyped, Senders, ~Late, NEW a \in Agents, NEW i \in MailIds,
         CheckMail(a, i) \/ SweepFound(a, i)
  PROVE  Senders'
<1>1. CASE CheckMail(a, i) /\ agent' = agent
  <2>1. mail' = mail \/ mail' = CancelMails({i})
    BY <1>1 DEF CheckMail
  <2> QED
    BY <1>1, <2>1, CancelLeaves, SendersStay
<1>2. CASE CheckMail(a, i) /\ agent' # agent
  <2>1. mail' = mail /\ agent' = [agent EXCEPT ![a] = [pc |-> "claim", mail |-> i]]
    BY <1>2 DEF CheckMail
  <2>2. [pc |-> "claim", mail |-> i].pc \notin {"send", "record", "advance"}
    OBVIOUS
  <2> QED
    BY <2>1, <2>2, SendersKept
<1>3. CASE SweepFound(a, i)
  <2>1. /\ mail' = mail /\ mail[i].status = "sending"
        /\ agent'[a] = [pc |-> "record", mail |-> i]
        /\ \A b \in Agents \ {a} : agent'[b] = agent[b] /\ (Holds(b) => agent[b].mail # i)
    BY <1>3 DEF SweepFound, Stuck, Holds, OutreachTyped, OutreachTypeOK
  <2> QED
    BY <2>1 DEF Senders, Holds
<1> QED
  BY <1>1, <1>2, <1>3

LEMMA ClaimSenders ==
  ASSUME OutreachTyped, Senders, NEW a \in Agents, ClaimMail(a) PROVE Senders'
<1>1. PICK i \in Saved : i = agent[a].mail
  BY DEF ClaimMail, OutreachTyped, Refers
<1>2. CASE mail[i].status # "approved"
  <2>1. mail' = mail /\ agent' = [agent EXCEPT ![a] = Idle]
    BY <1>1, <1>2 DEF ClaimMail
  <2>2. Idle.pc \notin {"send", "record", "advance"}
    BY DEF Idle
  <2> QED
    BY <2>1, <2>2, SendersKept
<1>3. CASE mail[i].status = "approved"
  <2>1. /\ mail' = [mail EXCEPT ![i].status = "sending"]
        /\ agent' = [agent EXCEPT ![a] = [@ EXCEPT !.pc = "send"]]
        /\ agent[a] = [pc |-> agent[a].pc, mail |-> agent[a].mail]
    BY <1>1, <1>3, LocalFields DEF ClaimMail, OutreachTyped
  <2>2. /\ agent'[a].pc = "send" /\ agent'[a].mail = i
        /\ \A b \in Agents \ {a} : agent'[b] = agent[b]
    BY <1>1, <2>1 DEF OutreachTyped, OutreachTypeOK
  <2>3. /\ mail'[i].status = "sending" /\ \A j \in Saved \ {i} : mail'[j] = mail[j]
    BY <2>1 DEF Saved, OutreachTyped, OutreachTypeOK, MailRow
  <2>4. \A b \in Agents : agent[b].pc \in {"send", "record", "advance"} =>
          agent[b].mail \in Saved \ {i}
    BY <1>3 DEF Senders, Holds, OutreachTyped, Refers
  <2> QED
    BY <2>2, <2>3, <2>4 DEF Senders, Holds
<1> QED
  BY <1>2, <1>3

\* The holder of an email settles it: nobody else holds it or has recorded it.
LEMMA SettleSenders ==
  ASSUME OutreachTyped, Senders, NEW a \in Agents, Accepted(a) \/ Refused(a) \/ RecordSent(a)
  PROVE  Senders'
<1>1. PICK i \in Saved : i = agent[a].mail
  BY DEF Accepted, Refused, RecordSent, OutreachTyped, Refers
<1>2. /\ mail[i].status = "sending" /\ agent[a] = [pc |-> agent[a].pc, mail |-> i]
      /\ \A b \in Agents \ {a} : agent[b].pc \in {"send", "record", "advance"} =>
           agent[b].mail \in Saved \ {i}
  BY <1>1, LocalFields DEF Accepted, Refused, RecordSent, Senders, Holds, OutreachTyped, Refers
<1>3. \A standing \in {"sent", "failed"} :
        /\ \A j \in Saved \ {i} : IfSending(i, standing)[j] = mail[j]
        /\ IfSending(i, standing)[i].status = standing
  BY <1>2 DEF IfSending, Saved, OutreachTyped, OutreachTypeOK, MailRow
<1>4. CASE Accepted(a)
  <2>1. mail' = mail /\ agent' = [agent EXCEPT ![a].pc = "record"]
    BY <1>4 DEF Accepted
  <2>2. agent'[a].pc = "record" /\ agent'[a].mail = i /\ \A b \in Agents \ {a} : agent'[b] = agent[b]
    BY <1>2, <2>1 DEF OutreachTyped, OutreachTypeOK
  <2> QED
    BY <1>2, <2>1, <2>2 DEF Senders, Holds
<1>5. CASE RecordSent(a) /\ mail' = IfSending(i, "sent") /\ agent' = [agent EXCEPT ![a].pc = "advance"]
  <2>1. agent'[a].pc = "advance" /\ agent'[a].mail = i /\ \A b \in Agents \ {a} : agent'[b] = agent[b]
    BY <1>2, <1>5 DEF OutreachTyped, OutreachTypeOK
  <2>2. mail'[i].status = "sent" /\ \A j \in Saved \ {i} : mail'[j] = mail[j]
    BY <1>3, <1>5
  <2> QED
    BY <1>2, <2>1, <2>2 DEF Senders, Holds
<1>6. CASE agent' = [agent EXCEPT ![a] = Idle] /\ (mail' = mail \/ mail' = IfSending(i, "failed"))
  <2>1. \A j \in Saved \ {i} : mail'[j] = mail[j]
    BY <1>3, <1>6
  <2>2. Idle.pc \notin {"send", "record", "advance"}
    BY DEF Idle
  <2> QED
    BY <1>2, <1>6, <2>1, <2>2, SendersKept
<1> QED
  BY <1>1, <1>4, <1>5, <1>6 DEF Refused, RecordSent

LEMMA SendersStep ==
  ASSUME OutreachTyped, Senders, ~Late, [OutreachNext]_outreachVars PROVE Senders'
<1>1. CASE mail' = mail /\ agent' = agent
  BY <1>1, SendersStay
<1>2. ASSUME NEW ids, mail' = CancelMails(ids), agent' = agent PROVE Senders'
  BY <1>2, CancelLeaves, SendersStay
<1>3. ASSUME NEW a \in Agents, AgentStep(a) PROVE Senders'
  BY <1>3, DrafterSenders, CheckSenders, ClaimSenders, SettleSenders DEF AgentStep
<1>4. ASSUME NEW i \in MailIds, SweepFail(i) PROVE Senders'
  <2>1. /\ i \in Saved /\ mail[i].status = "sending" /\ agent' = agent
        /\ mail' = IfSending(i, "failed") /\ \A a \in Agents : Holds(a) => agent[a].mail # i
    BY <1>4 DEF SweepFail, Stuck, Holds
  <2>2. \A j \in Saved \ {i} : mail'[j] = mail[j]
    BY <2>1 DEF IfSending, Saved, OutreachTyped, OutreachTypeOK, MailRow
  <2>3. \A b \in Agents : agent[b].pc \in {"send", "record", "advance"} =>
          agent[b].mail \in Saved \ {i}
    BY <2>1 DEF Senders, Holds, OutreachTyped, Refers
  <2> QED
    BY <2>1, <2>2, <2>3 DEF Senders, Holds
<1>5. ASSUME NEW i \in MailIds, Review(i) PROVE Senders'
  <2>1. agent' = agent /\ \A j \in Saved : mail[j].status \in {"sending", "sent"} =>
          mail'[j].status = mail[j].status
    BY <1>5 DEF Review, Open, Saved, OutreachTyped, OutreachTypeOK, MailRow
  <2> QED
    BY <2>1, SendersStay
<1>6. ASSUME NEW i \in MailIds, Cancel(i) \/ \E redraft \in BOOLEAN : Reject(i, redraft)
      PROVE Senders'
  BY <1>2, <1>6 DEF Cancel, Reject
<1>7. ASSUME NEW p \in Leads, Leaves(p) PROVE Senders'
  BY <1>1, <1>2, <1>7 DEF Leaves
<1>8. ASSUME NEW x \in Leads \union {"else"}, Suppress(x) PROVE Senders'
  BY <1>2, <1>8 DEF Suppress
<1> QED
  BY <1>1, <1>3, <1>4, <1>5, <1>6, <1>7, <1>8 DEF OutreachNext, GapEnds, Start, outreachVars

-----------------------------------------------------------------------------
(* The touches in order.                                                   *)

Sent(p, s) ==
  \E i \in Saved : mail[i].status = "sent" /\ mail[i].key.lead = p /\ mail[i].key.step = s

\* Whatever speaks of a follow-up comes after the touch that it follows.
Ordered ==
  /\ \A k \in jobs : k.step > 0 => Sent(k.lead, k.step - 1)
  /\ \A p \in Leads : lead[p].step > 0 => Sent(p, lead[p].step - 1)
  /\ \A a \in Agents : agent[a].pc = "due" /\ agent[a].step > 0 => Sent(agent[a].lead, agent[a].step - 1)

\* A touch that was sent stays sent.
LEMMA SentStays ==
  ASSUME RowsKeep, NEW p, NEW s, Sent(p, s) PROVE Sent(p, s)'
  BY DEF RowsKeep, Sent

\* Steps that queue nothing, take no prospect to its next step and read no row.
LEMMA OrderedKept ==
  ASSUME Ordered, RowsKeep, jobs' \subseteq jobs,
         \A p \in Leads : lead'[p].step = lead[p].step,
         \A b \in Agents : agent'[b] = agent[b] \/ agent'[b].pc # "due"
  PROVE  Ordered'
<1>1. \A p, s : Sent(p, s) => Sent(p, s)'
  BY SentStays
<1> QED
  BY <1>1 DEF Ordered

LEMMA ReadOrdered ==
  ASSUME OutreachTyped, Ordered, RowsKeep, NEW a \in Agents, NEW p \in Leads, ReadDue(a, p) PROVE Ordered'
<1>1. \A q, s : Sent(q, s) => Sent(q, s)'
  BY SentStays
<1>2. /\ agent'[a].lead = p /\ agent'[a].step = lead[p].step
      /\ \A b \in Agents \ {a} : agent'[b] = agent[b]
  BY DEF ReadDue, OutreachTyped, OutreachTypeOK
<1>3. lead' = lead /\ jobs' = jobs
  BY DEF ReadDue
<1> QED
  BY <1>1, <1>2, <1>3 DEF Ordered

LEMMA ScheduleOrdered ==
  ASSUME OutreachTyped, Ordered, RowsKeep, NEW a \in Agents, Schedule(a) PROVE Ordered'
<1>1. \A q, s : Sent(q, s) => Sent(q, s)'
  BY SentStays
<1>2. PICK p \in Leads, s \in Steps : p = agent[a].lead /\ s = agent[a].step
  BY LocalFields DEF Schedule, OutreachTyped
<1>3. s > 0 => Sent(p, s - 1)
  BY <1>2 DEF Ordered, Schedule
<1>4. \A k \in jobs' : k \in jobs \/ (k.lead = p /\ k.step = s)
  <2>1. jobs' = jobs \/ jobs' = jobs \union {[lead |-> p, step |-> s, after |-> 0]}
    BY <1>2 DEF Schedule
  <2> QED
    BY <2>1
<1>5. \A q \in Leads : lead'[q].step = lead[q].step
  <2>1. lead' = lead \/ lead' = [lead EXCEPT ![p].due = "none"]
    BY <1>2 DEF Schedule
  <2> QED
    BY <2>1, DueStored DEF OutreachTyped
<1>6. \A b \in Agents : agent'[b] = agent[b] \/ agent'[b].pc # "due"
  BY DEF Schedule, OutreachTyped, OutreachTypeOK, Idle
<1>7. \A k \in jobs' : k.step > 0 => Sent(k.lead, k.step - 1)'
  BY <1>1, <1>3, <1>4 DEF Ordered
<1> QED
  BY <1>1, <1>5, <1>6, <1>7 DEF Ordered

LEMMA AdvanceOrdered ==
  ASSUME OutreachTyped, Senders, Ordered, RowsKeep, NEW a \in Agents, AdvanceSequence(a) PROVE Ordered'
<1>1. \A q, s : Sent(q, s) => Sent(q, s)'
  BY SentStays
<1>2. PICK i \in Saved : i = agent[a].mail /\ mail[i].status = "sent"
  BY DEF AdvanceSequence, Senders, OutreachTyped, Refers
<1>3. PICK p \in Leads, s \in Steps : p = mail[i].key.lead /\ s = mail[i].key.step
  BY DEF OutreachTyped, OutreachTypeOK, MailRow, Keys
<1>4. Sent(p, s)
  BY <1>2, <1>3 DEF Sent
<1>5. lead' = Advanced(p, s) /\ jobs' = jobs
  BY <1>2, <1>3 DEF AdvanceSequence
<1>6. \A q \in Leads : lead'[q].step = lead[q].step \/ (q = p /\ lead'[q].step = s + 1)
  <2>1. lead \in [Leads -> LeadRow]
    BY DEF OutreachTyped, OutreachTypeOK
  <2> QED
    BY <1>5, <2>1 DEF Advanced
<1>7. \A b \in Agents : agent'[b] = agent[b] \/ agent'[b].pc # "due"
  BY DEF AdvanceSequence, OutreachTyped, OutreachTypeOK, Idle
<1>8. ASSUME NEW q \in Leads, (lead[q].step > 0)' PROVE Sent(q, lead[q].step - 1)'
  <2>1. CASE lead'[q].step = lead[q].step
    BY <1>1, <1>8, <2>1 DEF Ordered
  <2>2. CASE q = p /\ lead'[q].step = s + 1
    <3>1. Sent(p, s)'
      BY <1>1, <1>4
    <3>2. lead'[q].step - 1 = s
      BY <2>2, OutreachAssumption DEF Steps
    <3> QED
      BY <2>2, <3>1, <3>2
  <2> QED
    BY <1>6, <2>1, <2>2
<1> QED
  BY <1>1, <1>5, <1>7, <1>8 DEF Ordered

LEMMA RedraftOrdered ==
  ASSUME OutreachTyped, OneOpen, Ordered, RowsKeep, NEW i \in MailIds, Reject(i, TRUE) PROVE Ordered'
<1>1. \A q, s : Sent(q, s) => Sent(q, s)'
  BY SentStays
<1>2. lead' = lead /\ agent' = agent /\ jobs' = jobs \union {RedraftJob(i)} /\ mail[i].key \in jobs
  BY DEF Reject, OneOpen
<1>3. RedraftJob(i).lead = mail[i].key.lead /\ RedraftJob(i).step = mail[i].key.step
  BY DEF RedraftJob, Reject, OutreachTyped, OutreachTypeOK, MailRow, Keys
<1>4. \A k \in jobs' : k.step > 0 => Sent(k.lead, k.step - 1)'
  BY <1>1, <1>2, <1>3 DEF Ordered
<1> QED
  BY <1>1, <1>2, <1>4 DEF Ordered

\* The steps of the worker that leave the queue and every step number alone.
LEMMA AgentOrdered ==
  ASSUME OutreachTyped, Ordered, RowsKeep, NEW a \in Agents,
         \/ \E k \in jobs : BeginDraft(a, k)
         \/ SaveDraft(a) \/ RefuseDraft(a) \/ PutOff(a)
         \/ \E i \in MailIds : CheckMail(a, i) \/ SweepFound(a, i)
         \/ ClaimMail(a) \/ Accepted(a) \/ Refused(a) \/ RecordSent(a) \/ Die(a)
  PROVE  Ordered'
<1>1. jobs' = jobs
  BY DEF BeginDraft, SaveDraft, RefuseDraft, PutOff, CheckMail, SweepFound, ClaimMail, Accepted,
         Refused, RecordSent, Die
<1>2. \A p \in Leads : lead'[p].step = lead[p].step
  <2>1. CASE RefuseDraft(a)
    <3>1. PICK p \in Leads : p = agent[a].key.lead
      BY <2>1, LocalFields DEF RefuseDraft, OutreachTyped, Keys
    <3>2. lead' = [lead EXCEPT ![p].status = "stopped"] /\ "stopped" \in LeadStatuses
      BY <2>1, <3>1 DEF RefuseDraft, LeadStatuses
    <3> QED
      BY <3>2, StatusStored DEF OutreachTyped
  <2>2. CASE lead' = lead
    BY <2>2
  <2> QED
    BY <2>1, <2>2 DEF BeginDraft, SaveDraft, PutOff, CheckMail, SweepFound, ClaimMail, Accepted,
                      Refused, RecordSent, Die
<1>3. \A b \in Agents : agent'[b] = agent[b] \/ agent'[b].pc # "due"
  <2>1. agent' = agent \/ \E mine : agent' = [agent EXCEPT ![a] = mine] /\ mine.pc # "due"
    <3>1. CASE ClaimMail(a) \/ Accepted(a) \/ RecordSent(a)
      <4>1. agent[a] = [pc |-> agent[a].pc, mail |-> agent[a].mail]
        BY <3>1, LocalFields DEF ClaimMail, Accepted, RecordSent, OutreachTyped
      <4> QED
        BY <3>1, <4>1 DEF ClaimMail, Accepted, RecordSent, Idle, OutreachTyped, OutreachTypeOK
    <3> QED
      <4>1. CASE \E k \in jobs : BeginDraft(a, k)
        <5>1. \A k : [pc |-> "draft", key |-> k].pc # "due"
          OBVIOUS
        <5> QED
          BY <4>1, <5>1 DEF BeginDraft
      <4>2. CASE \E i \in MailIds : CheckMail(a, i) \/ SweepFound(a, i)
        <5>1. \A i : [pc |-> "claim", mail |-> i].pc # "due" /\ [pc |-> "record", mail |-> i].pc # "due"
          OBVIOUS
        <5> QED
          BY <4>2, <5>1 DEF CheckMail, SweepFound
      <4>3. CASE SaveDraft(a) \/ RefuseDraft(a) \/ PutOff(a) \/ Refused(a) \/ Die(a)
        <5>1. Idle.pc # "due" /\ agent' = [agent EXCEPT ![a] = Idle]
          BY <4>3 DEF SaveDraft, RefuseDraft, PutOff, Refused, Die, Idle
        <5> QED
          BY <5>1
      <4> QED
        BY <3>1, <4>1, <4>2, <4>3
  <2> QED
    BY <2>1 DEF OutreachTyped, OutreachTypeOK
<1> QED
  BY <1>1, <1>2, <1>3, OrderedKept

LEMMA OrderedStep ==
  ASSUME OutreachTyped, OneOpen, Senders, Ordered, [OutreachNext]_outreachVars PROVE Ordered'
<1>1. RowsKeep
  BY OpenStep
<1>2. ASSUME jobs' = jobs, agent' = agent, \A p \in Leads : lead'[p].step = lead[p].step
      PROVE Ordered'
  BY <1>1, <1>2, OrderedKept
<1>3. ASSUME NEW a \in Agents, AgentStep(a) PROVE Ordered'
  BY <1>1, <1>3, ReadOrdered, ScheduleOrdered, AdvanceOrdered, AgentOrdered DEF AgentStep
<1>4. ASSUME NEW i \in MailIds, Cancel(i) \/ Reject(i, FALSE) PROVE Ordered'
  <2>1. \A p \in Leads : lead'[p].step = lead[p].step
    BY <1>4, StoppedStored DEF Cancel, Reject
  <2> QED
    BY <1>2, <1>4, <2>1 DEF Cancel, Reject
<1>5. ASSUME NEW i \in MailIds, Reject(i, TRUE) PROVE Ordered'
  BY <1>1, <1>5, RedraftOrdered
<1>6. ASSUME NEW p \in Leads, GapEnds(p) \/ Start(p) PROVE Ordered'
  <2>1. \A q \in Leads : lead'[q].step = lead[q].step
    <3>1. CASE GapEnds(p)
      BY <3>1, DueStored DEF GapEnds, OutreachTyped
    <3> QED
      BY <1>6, <3>1, StartLead
  <2> QED
    BY <1>2, <1>6, <2>1 DEF GapEnds, Start
<1>7. ASSUME NEW p \in Leads, Leaves(p) PROVE Ordered'
  BY <1>2, <1>7, LeavesLead DEF Leaves
<1>8. ASSUME NEW x \in Leads \union {"else"}, Suppress(x) PROVE Ordered'
  BY <1>2, <1>8, SuppressLead DEF Suppress
<1> QED
  BY <1>2, <1>3, <1>4, <1>5, <1>6, <1>7, <1>8 DEF OutreachNext, SweepFail, Review, outreachVars

TouchInv == OutreachTyped /\ OneOpen /\ Senders /\ Ordered

LEMMA TouchInit == OutreachInit => TouchInv
<1> SUFFICES ASSUME OutreachInit PROVE TouchInv
  OBVIOUS
<1>1. Saved = {} /\ jobs = {} /\ \A a \in Agents : agent[a].pc = "idle"
  BY DEF OutreachInit, Saved, Idle
<1>2. \A p \in Leads : lead[p].step = 0
  BY DEF OutreachInit
<1> QED
  BY <1>1, <1>2, OutreachTypeInit DEF TouchInv, OneOpen, Senders, Holds, Ordered

LEMMA TouchStep == ASSUME ~Late PROVE TouchInv /\ [OutreachNext]_outreachVars => TouchInv'
  BY OutreachTypeStep, OpenStep, SendersStep, OrderedStep DEF TouchInv

LEMMA TouchImplies == TouchInv => TouchesInOrder
<1> SUFFICES ASSUME TouchInv, NEW p \in Leads
             PROVE /\ \A s \in Steps : Cardinality(SentFor(p, s)) <= 1
                   /\ \A i \in MailsOf(p) : mail[i].key.step > 0 => SentFor(p, mail[i].key.step - 1) # {}
  BY DEF TouchesInOrder
<1>1. ASSUME NEW s \in Steps PROVE Cardinality(SentFor(p, s)) <= 1
  <2>1. \A i, j \in SentFor(p, s) : i = j
    BY DEF SentFor, TouchInv, OneOpen, SameStep
  <2>2. CASE SentFor(p, s) = {}
    BY <2>2, FS_EmptySet
  <2>3. CASE SentFor(p, s) # {}
    <3>1. PICK i : i \in SentFor(p, s)
      BY <2>3
    <3>2. SentFor(p, s) = {i} /\ Cardinality({i}) = 1
      BY <2>1, <3>1, FS_Singleton
    <3> QED
      BY <3>2
  <2> QED
    BY <2>2, <2>3
<1>2. ASSUME NEW i \in MailsOf(p), mail[i].key.step > 0 PROVE SentFor(p, mail[i].key.step - 1) # {}
  <2>1. i \in Saved /\ mail[i].key \in jobs /\ mail[i].key.lead = p
    BY <1>2 DEF MailsOf, TouchInv, OneOpen
  <2>2. Sent(p, mail[i].key.step - 1)
    BY <1>2, <2>1 DEF TouchInv, Ordered
  <2> QED
    BY <2>2 DEF Sent, SentFor
<1> QED
  BY <1>1, <1>2

\* A prospect gets each touch once and in order, if the sweep waits for those who
\* still send.
THEOREM OutreachTouches == ~Late => (OutreachSpec => []TouchesInOrder)
<1> SUFFICES ASSUME ~Late PROVE OutreachSpec => []TouchesInOrder
  OBVIOUS
<1>1. TouchInv /\ [OutreachNext]_outreachVars => TouchInv'
  BY TouchStep
<1> QED
  BY <1>1, TouchInit, TouchImplies, PTL DEF OutreachSpec

-----------------------------------------------------------------------------
(* Nobody is forgotten.                                                    *)

\* No job is for a step that its prospect has not reached, and the touches of the
\* steps behind were sent.
Behind ==
  /\ \A k \in jobs : k.step <= lead[k.lead].step
  /\ \A p \in Leads, s \in Steps : s < lead[p].step => Sent(p, s)

\* Whoever recorded a touch is the one to plan the next; where nobody is left to,
\* the prospect was dropped.
Plans(a, i) == agent[a].pc = "advance" /\ agent[a].mail = i
Planning ==
  /\ \A a \in Agents, i \in Saved : Plans(a, i) => mail[i].key.step = lead[mail[i].key.lead].step
  /\ \A a, b \in Agents, i \in Saved : Plans(a, i) /\ Plans(b, i) => a = b
  /\ \A i \in Saved :
       (/\ mail[i].status = "sent"
        /\ mail[i].key.step = lead[mail[i].key.lead].step
        /\ lead[mail[i].key.lead].status = "active"
        /\ mail[i].key.lead \notin dropped)
       => \E a \in Agents : Plans(a, i)

\* A touch that is due has no job yet, and one being scheduled no approved email.
Unscheduled ==
  \A p \in Leads : lead[p].status = "active" /\ lead[p].due # "none" =>
    \A k \in jobs : k.lead = p => k.step # lead[p].step
Scheduling ==
  \A a \in Agents : agent[a].pc = "due" =>
    /\ agent[a].step = lead[agent[a].lead].step
    /\ \A i \in Saved :
         mail[i].key.lead = agent[a].lead /\ mail[i].key.step = agent[a].step =>
           mail[i].status \in {"waiting", "off"}

NewFresh == \A k \in jobs : lead[k.lead].status # "new"

\* A job of an active prospect's step ends with a draft.
DoneDrafted ==
  \A k \in ended : lead[k.lead].status = "active" /\ lead[k.lead].step = k.step => Drafted(k)

\* Who opted out is not active, and what is approved is for somebody who did not.
OptOut == \A p \in Leads \cap optedOut : lead[p].status \notin {"new", "active"}
Reachable == \A i \in Saved : mail[i].status = "approved" => AddressOf(i) \notin optedOut

\* What is ahead of a prospect, told by the drafts and not by which jobs are done.
Something(p) ==
  \/ lead[p].due # "none"
  \/ \E k \in jobs : k.lead = p /\ k.step = lead[p].step /\ ~Drafted(k)
  \/ \E i \in Saved : /\ mail[i].key.lead = p /\ mail[i].key.step = lead[p].step
                      /\ mail[i].status # "off"
SomethingAhead == \A p \in Leads \ dropped : lead[p].status = "active" => Something(p)

Kept == Behind /\ Unscheduled /\ Scheduling /\ NewFresh /\ DoneDrafted /\ SomethingAhead
ForgottenInv == TouchInv /\ Kept /\ Planning /\ OptOut /\ Reachable

LEMMA KeyTypes ==
  ASSUME OutreachTyped
  PROVE  /\ \A i \in Saved : mail[i].key.lead \in Leads /\ mail[i].key.step \in Steps
         /\ \A k \in jobs : k.lead \in Leads /\ k.step \in Steps
         /\ \A p \in Leads : lead[p].step \in Nat
  BY OutreachAssumption DEF OutreachTyped, OutreachTypeOK, MailRow, Keys, LeadRow, Steps

\* An email that is neither cancelled nor sent is for the step the prospect is at.
LEMMA AtStep ==
  ASSUME ForgottenInv, NEW i \in Saved, mail[i].status \notin {"off", "sent"}
  PROVE  mail[i].key.step = lead[mail[i].key.lead].step
<1>1. OutreachTyped /\ OneOpen /\ Behind
  BY DEF ForgottenInv, TouchInv, Kept
<1>2. PICK p \in Leads, s \in Steps : p = mail[i].key.lead /\ s = mail[i].key.step
  BY <1>1, KeyTypes
<1>3. s <= lead[p].step
  BY <1>1, <1>2 DEF OneOpen, Behind
<1>4. ~Sent(p, s)
  BY <1>1, <1>2 DEF OneOpen, SameStep, Sent
<1>5. s \in Nat /\ lead[p].step \in Nat
  BY <1>1, <1>2, KeyTypes, OutreachAssumption DEF Steps
<1> QED
  BY <1>1, <1>2, <1>3, <1>4, <1>5 DEF Behind

\* Prospects that keep their step, and of which none becomes active.
LeadsKeep ==
  \A p \in Leads : /\ lead'[p].step = lead[p].step
                   /\ lead'[p].status \in {"new", "active"} =>
                        lead'[p].status = lead[p].status
                   /\ lead'[p].status = "active" /\ lead[p].due # "none" => lead'[p].due # "none"
                   /\ lead'[p].status = "active" /\ lead'[p].due # "none" => lead[p].due # "none"

\* Steps that draft, queue, read and advance nothing, and cancel only what is left
\* of a prospect that is no longer active.
RowsQuiet ==
  /\ RowsKeep /\ Saved' = Saved /\ jobs' = jobs /\ dropped \subseteq dropped' /\ LeadsKeep
  /\ \A k \in ended' : \/ k \in ended \/ Drafted(k)
                       \/ lead'[k.lead].status # "active" \/ lead'[k.lead].step # k.step
  /\ \A a \in Agents : agent'[a].pc = "due" => agent'[a] = agent[a]
  /\ \A i \in Saved :
       /\ mail'[i].status = "off" => \/ mail[i].status = "off"
                                     \/ lead'[mail[i].key.lead].status # "active"
                                     \/ mail[i].key.lead \in dropped'
       /\ mail[i].status \in {"waiting", "off"} => \/ mail'[i].status \in {"waiting", "off"}
                                                   \/ \A a \in Agents : agent[a].pc # "due"
PlansQuiet ==
  /\ \A i \in Saved : mail'[i].status = "sent" => mail[i].status = "sent"
  /\ \A a \in Agents :
       /\ agent'[a].pc = "advance" => agent'[a] = agent[a]
       /\ agent[a].pc = "advance" => \/ agent'[a] = agent[a]
                                     \/ mail[agent[a].mail].key.lead \in dropped'
                                     \/ lead'[mail[agent[a].mail].key.lead].status # "active"

LEMMA RowsKept ==
  ASSUME ForgottenInv, RowsQuiet
  PROVE  Kept'
<1>1. OutreachTyped /\ OneOpen /\ Kept /\ RowsKeep
  BY DEF ForgottenInv, TouchInv, RowsQuiet
<1>2. \A k : Drafted(k)' <=> Drafted(k)
  BY DEF RowsQuiet, RowsKeep, Drafted
<1>3. \A p \in Leads : lead'[p].step = lead[p].step
  BY DEF RowsQuiet, LeadsKeep
<1>4. Behind'
  <2>1. \A p, s : Sent(p, s) => Sent(p, s)'
    BY <1>1, SentStays
  <2>2. jobs' = jobs
    BY DEF RowsQuiet
  <2> QED
    BY <1>1, <1>3, <2>1, <2>2, KeyTypes DEF Kept, Behind
<1>5. Unscheduled'
  BY <1>1 DEF Kept, Unscheduled, RowsQuiet, LeadsKeep
<1>6. Scheduling'
  <2> SUFFICES ASSUME NEW a \in Agents, agent'[a].pc = "due"
               PROVE  /\ agent'[a].step = lead'[agent'[a].lead].step
                      /\ \A i \in Saved' :
                           mail'[i].key.lead = agent'[a].lead /\ mail'[i].key.step = agent'[a].step =>
                             mail'[i].status \in {"waiting", "off"}
    BY DEF Scheduling
  <2>1. agent'[a] = agent[a] /\ agent[a].lead \in Leads
    BY <1>1, LocalFields DEF RowsQuiet, OutreachTyped
  <2>2. agent'[a].step = lead'[agent'[a].lead].step
    BY <1>1, <1>3, <2>1 DEF Kept, Scheduling
  <2> QED
    BY <1>1, <2>1, <2>2 DEF Kept, Scheduling, RowsQuiet, RowsKeep
<1>7. NewFresh'
  BY <1>1, KeyTypes DEF Kept, NewFresh, RowsQuiet, LeadsKeep
<1>8. DoneDrafted'
  <2>1. \A k \in ended : k.lead \in Leads
    BY <1>1, KeyTypes DEF OutreachTyped, OutreachTypeOK
  <2> QED
    BY <1>1, <1>2, <2>1 DEF Kept, DoneDrafted, RowsQuiet, LeadsKeep
<1>9. SomethingAhead'
  <2> SUFFICES ASSUME NEW p \in Leads, p \notin dropped', lead'[p].status = "active"
               PROVE  Something(p)'
    BY DEF SomethingAhead
  <2>1. Something(p)
    BY <1>1 DEF RowsQuiet, LeadsKeep, Kept, SomethingAhead
  <2>2. CASE lead[p].due # "none"
    BY <2>2 DEF Something, RowsQuiet, LeadsKeep
  <2>3. CASE \E k \in jobs : k.lead = p /\ k.step = lead[p].step /\ ~Drafted(k)
    BY <1>2, <1>3, <2>3 DEF Something, RowsQuiet
  <2>4. CASE \E i \in Saved : /\ mail[i].key.lead = p /\ mail[i].key.step = lead[p].step
                              /\ mail[i].status # "off"
    BY <1>3, <2>4 DEF Something, RowsQuiet, RowsKeep
  <2> QED
    BY <2>1, <2>2, <2>3, <2>4 DEF Something
<1> QED
  BY <1>4, <1>5, <1>6, <1>7, <1>8, <1>9 DEF Kept

LEMMA PlansKept ==
  ASSUME ForgottenInv, RowsKeep, Saved' = Saved, dropped \subseteq dropped', LeadsKeep, PlansQuiet
  PROVE  Planning'
<1>1. OutreachTyped /\ Planning
  BY DEF ForgottenInv, TouchInv
<1>2. \A i \in Saved : /\ mail'[i].key = mail[i].key /\ mail[i].key.lead \in Leads
                       /\ lead'[mail[i].key.lead].step = lead[mail[i].key.lead].step
  BY <1>1, KeyTypes DEF RowsKeep, LeadsKeep
<1>3. \A a \in Agents, i \in Saved : Plans(a, i)' => Plans(a, i)
  BY DEF Plans, PlansQuiet
<1>4. \A a \in Agents, i \in Saved' : Plans(a, i)' =>
        mail'[i].key.step = lead'[mail'[i].key.lead].step
  BY <1>1, <1>2, <1>3 DEF Planning
<1>5. \A a, b \in Agents, i \in Saved' : Plans(a, i)' /\ Plans(b, i)' => a = b
  BY <1>1, <1>3 DEF Planning
<1>6. ASSUME NEW i \in Saved', mail'[i].status = "sent",
             mail'[i].key.step = lead'[mail'[i].key.lead].step,
             lead'[mail'[i].key.lead].status = "active", mail'[i].key.lead \notin dropped'
      PROVE  \E a \in Agents : Plans(a, i)'
  <2>1. lead[mail[i].key.lead].status = "active" /\ mail[i].status = "sent"
    BY <1>2, <1>6 DEF LeadsKeep, PlansQuiet
  <2>2. PICK a \in Agents : Plans(a, i)
    BY <1>1, <1>2, <1>6, <2>1 DEF Planning
  <2> QED
    BY <1>2, <1>6, <2>2 DEF Plans, PlansQuiet
<1> QED
  BY <1>4, <1>5, <1>6 DEF Planning

\* The prospects' rows, where nobody is started and no touch is planned.
LEMMA SameLeads == ASSUME lead' = lead PROVE LeadsKeep
  BY DEF LeadsKeep

LEMMA EndedLeads ==
  ASSUME OutreachTyped, NEW p \in Leads, NEW s \in {"stopped", "replied", "opted_out"},
         lead' = Ended(p, s)
  PROVE  LeadsKeep /\ lead'[p].status # "active"
<1>1. lead \in [Leads -> LeadRow]
  BY DEF OutreachTyped, OutreachTypeOK
<1>2. lead'[p].status = s /\ lead'[p].step = lead[p].step /\ \A q \in Leads \ {p} : lead'[q] = lead[q]
  BY <1>1 DEF LeadRow, Ended
<1> QED
  BY <1>2 DEF LeadsKeep

LEMMA StoppedLeads ==
  ASSUME OutreachTyped, NEW i \in Saved, lead' = StoppedOf(i)
  PROVE  LeadsKeep /\ lead'[mail[i].key.lead].status # "active"
<1>1. PICK p \in Leads : p = mail[i].key.lead
  BY KeyTypes
<1>2. lead' = Ended(p, "stopped") \/ (lead' = lead /\ lead[p].status # "active")
  BY <1>1 DEF StoppedOf
<1> QED
  BY <1>1, <1>2, EndedLeads, SameLeads

\* Cancelling emails that nobody waits for any more.
LEMMA CancelQuiet ==
  ASSUME ForgottenInv, NEW ids, mail' = CancelMails(ids), UNCHANGED <<jobs, agent>>,
         ended' = ended, dropped \subseteq dropped', LeadsKeep,
         \A i \in Saved \cap ids : mail[i].status \in Open =>
           lead'[mail[i].key.lead].status # "active" \/ mail[i].key.lead \in dropped'
  PROVE  Kept' /\ Planning'
<1>1. RowsKeep /\ Saved' = Saved
  BY CancelKeeps
<1>2. \A i \in Saved : /\ mail'[i] = mail[i] \/ (i \in ids /\ mail[i].status \in Open)
                       /\ mail'[i] = mail[i] \/ mail'[i].status = "off"
  BY DEF CancelMails, Open, ForgottenInv, TouchInv, OutreachTyped, OutreachTypeOK, MailRow
<1>3. RowsQuiet
  BY <1>1, <1>2 DEF RowsQuiet
<1>4. PlansQuiet
  BY <1>2 DEF PlansQuiet
<1> QED
  BY <1>1, <1>3, <1>4, RowsKept, PlansKept

\* The rest of what the worker does to an email: it is claimed, or settled.
LEMMA MailQuiet ==
  ASSUME ForgottenInv, NEW i \in Saved, NEW standing \in {"approved", "sending", "failed"},
         mail' = mail \/ (mail[i].status \in {"approved", "sending"}
                          /\ mail' = [mail EXCEPT ![i].status = standing]),
         UNCHANGED <<lead, jobs, ended>>, dropped' = dropped,
         \A a \in Agents : \/ agent'[a] = agent[a]
                           \/ /\ agent'[a].pc \notin {"due", "advance"}
                              /\ agent[a].pc # "advance"
  PROVE  Kept' /\ Planning'
<1>1. Saved' = Saved
        /\ \A j \in Saved : /\ mail'[j].key = mail[j].key
                            /\ \/ mail'[j] = mail[j]
                               \/ mail[j].status \in {"approved", "sending"} /\ mail'[j].status = standing
  BY DEF ForgottenInv, TouchInv, OutreachTyped, OutreachTypeOK, MailRow, Saved
<1>2. RowsKeep /\ LeadsKeep
  BY <1>1, SameLeads DEF RowsKeep
<1>3. RowsQuiet
  BY <1>1, <1>2 DEF RowsQuiet
<1>4. PlansQuiet
  BY <1>1 DEF PlansQuiet
<1> QED
  BY <1>1, <1>2, <1>3, <1>4, RowsKept, PlansKept

\* Who is in the middle of something that is not the planning of a touch.
LEMMA OtherLocals ==
  ASSUME OutreachTyped, NEW a \in Agents, NEW mine, agent' = [agent EXCEPT ![a] = mine],
         mine.pc \notin {"due", "advance"}, agent[a].pc # "advance"
  PROVE  \A b \in Agents : \/ agent'[b] = agent[b]
                           \/ /\ agent'[b].pc \notin {"due", "advance"}
                              /\ agent[b].pc # "advance"
  BY DEF OutreachTyped, OutreachTypeOK

LEMMA SenderForgets ==
  ASSUME ForgottenInv, ~Late, NEW a \in Agents,
         \/ \E i \in MailIds : SweepFound(a, i)
         \/ ClaimMail(a) \/ Accepted(a) \/ Refused(a)
         \/ RecordSent(a) /\ agent' = [agent EXCEPT ![a] = Idle]
  PROVE  Kept' /\ Planning'
<1>1. OutreachTyped /\ Senders
  BY DEF ForgottenInv, TouchInv
<1>2. Idle.pc \notin {"due", "advance"}
  BY DEF Idle
<1>3. CASE \E i \in MailIds : SweepFound(a, i)
  <2>1. PICK i \in MailIds : SweepFound(a, i)
    BY <1>3
  <2>2. i \in Saved /\ mail' = mail /\ agent' = [agent EXCEPT ![a] = [pc |-> "record", mail |-> i]]
        /\ agent[a].pc # "advance" /\ UNCHANGED <<lead, jobs, ended>> /\ dropped' = dropped
    BY <2>1 DEF SweepFound, Stuck, Idle
  <2>3. [pc |-> "record", mail |-> i].pc \notin {"due", "advance"}
    OBVIOUS
  <2> QED
    BY <1>1, <2>2, <2>3, OtherLocals, MailQuiet
<1>4. CASE ClaimMail(a) \/ Accepted(a) \/ Refused(a) \/ (RecordSent(a) /\ agent' = [agent EXCEPT ![a] = Idle])
  <2>1. PICK i \in Saved : i = agent[a].mail
    BY <1>1, <1>4 DEF ClaimMail, Accepted, Refused, RecordSent, OutreachTyped, Refers
  <2>2. agent[a] = [pc |-> agent[a].pc, mail |-> i] /\ agent[a].pc # "advance"
    BY <1>1, <1>4, <2>1, LocalFields DEF ClaimMail, Accepted, Refused, RecordSent, OutreachTyped
  <2>3. UNCHANGED <<lead, jobs, ended>> /\ dropped' = dropped
    BY <1>4 DEF ClaimMail, Accepted, Refused, RecordSent
  <2>4. PICK mine : agent' = [agent EXCEPT ![a] = mine] /\ mine.pc \notin {"due", "advance"}
    <3>1. CASE ClaimMail(a)
      <4>1. [agent[a] EXCEPT !.pc = "send"].pc = "send"
        BY <2>2
      <4> QED
        BY <1>2, <3>1, <4>1 DEF ClaimMail
    <3>2. CASE Accepted(a)
      <4>1. [agent[a] EXCEPT !.pc = "record"].pc = "record"
        BY <2>2
      <4> QED
        BY <3>2, <4>1 DEF Accepted
    <3>3. CASE agent' = [agent EXCEPT ![a] = Idle]
      BY <1>2, <3>3
    <3> QED
      BY <1>4, <3>1, <3>2, <3>3 DEF Refused
  <2>5. \A b \in Agents : \/ agent'[b] = agent[b]
                          \/ /\ agent'[b].pc \notin {"due", "advance"}
                             /\ agent[b].pc # "advance"
    BY <1>1, <2>2, <2>4, OtherLocals
  <2>6. CASE mail' = mail
    BY <2>3, <2>5, <2>6, MailQuiet
  <2>7. CASE mail[i].status = "approved" /\ mail' = [mail EXCEPT ![i].status = "sending"]
    BY <2>3, <2>5, <2>7, MailQuiet
  <2>8. CASE mail[i].status = "sending" /\ mail' = [mail EXCEPT ![i].status = "failed"]
    BY <2>3, <2>5, <2>8, MailQuiet
  <2>9. \/ mail' = mail
        \/ mail[i].status = "approved" /\ mail' = [mail EXCEPT ![i].status = "sending"]
        \/ mail[i].status = "sending" /\ mail' = [mail EXCEPT ![i].status = "failed"]
    <3>1. CASE ClaimMail(a)
      BY <2>1, <3>1 DEF ClaimMail
    <3>2. CASE Refused(a)
      <4>1. mail[i].status = "sending"
        BY <1>1, <2>1, <3>2 DEF Refused, Senders, Holds
      <4> QED
        BY <2>1, <3>2, <4>1 DEF Refused, IfSending
    <3>3. CASE RecordSent(a) /\ agent' = [agent EXCEPT ![a] = Idle]
      <4>1. [agent[a] EXCEPT !.pc = "advance"] # Idle
        BY <2>2 DEF Idle
      <4> QED
        BY <1>1, <3>3, <4>1 DEF RecordSent, OutreachTyped, OutreachTypeOK
    <3> QED
      BY <1>4, <3>1, <3>2, <3>3 DEF Accepted
  <2> QED
    BY <2>6, <2>7, <2>8, <2>9
<1> QED
  BY <1>3, <1>4

\* A check that fails cancels what is left of a prospect that is no longer active.
LEMMA CheckForgets ==
  ASSUME ForgottenInv, NEW a \in Agents, NEW i \in MailIds, CheckMail(a, i)
  PROVE  Kept' /\ Planning'
<1>1. /\ OutreachTyped /\ i \in Saved /\ mail[i].status = "approved" /\ agent[a].pc # "advance"
      /\ UNCHANGED <<lead, jobs, ended>> /\ dropped' = dropped
  BY DEF CheckMail, ForgottenInv, TouchInv, Idle
<1>2. CASE mail' = mail /\ agent' = [agent EXCEPT ![a] = [pc |-> "claim", mail |-> i]]
  <2>1. [pc |-> "claim", mail |-> i].pc \notin {"due", "advance"}
    OBVIOUS
  <2> QED
    BY <1>1, <1>2, <2>1, OtherLocals, MailQuiet
<1>3. CASE /\ AddressOf(i) \in optedOut \/ lead[mail[i].key.lead].status # "active"
           /\ mail' = CancelMails({i}) /\ agent' = agent
  <2>1. lead[mail[i].key.lead].status # "active"
    BY <1>1, <1>3 DEF ForgottenInv, Reachable
  <2>2. \A j \in Saved \cap {i} : mail[j].status \in Open => lead'[mail[j].key.lead].status # "active"
    BY <1>1, <2>1
  <2> QED
    BY <1>1, <1>3, <2>2, SameLeads, CancelQuiet
<1> QED
  BY <1>2, <1>3 DEF CheckMail

\* A worker that stops, is refused a draft, or begins one.
LEMMA DrafterForgets ==
  ASSUME ForgottenInv, NEW a \in Agents,
         (\E k \in jobs : BeginDraft(a, k)) \/ RefuseDraft(a) \/ PutOff(a) \/ Die(a)
           \/ (SaveDraft(a) /\ Drafted(agent[a].key))
  PROVE  Kept' /\ Planning'
<1>1. OutreachTyped /\ lead \in [Leads -> LeadRow] /\ agent \in [Agents -> Local]
  BY DEF ForgottenInv, TouchInv, OutreachTyped, OutreachTypeOK
<1>2. mail' = mail /\ Saved' = Saved /\ jobs' = jobs /\ dropped \subseteq dropped'
  BY DEF BeginDraft, RefuseDraft, PutOff, Die, SaveDraft, SavedMail, Saved
<1>3. RowsKeep
  BY <1>2 DEF RowsKeep
<1>4. CASE \E k \in jobs : BeginDraft(a, k)
  <2>1. PICK k \in jobs : BeginDraft(a, k)
    BY <1>4
  <2>2. /\ lead' = lead /\ agent[a].pc # "advance"
        /\ agent' = agent \/ agent' = [agent EXCEPT ![a] = [pc |-> "draft", key |-> k]]
    BY <2>1 DEF BeginDraft, Idle
  <2>3. [pc |-> "draft", key |-> k].pc \notin {"due", "advance"}
    OBVIOUS
  <2>4. \A b \in Agents : \/ agent'[b] = agent[b]
                          \/ agent'[b].pc \notin {"due", "advance"} /\ agent[b].pc # "advance"
    BY <1>1, <2>2, <2>3, OtherLocals
  <2>5. ASSUME k \in ended', k \notin ended, lead'[k.lead].status = "active",
               lead'[k.lead].step = k.step
        PROVE  Drafted(k)
    <3>1. ~Wanted(k)
      BY <2>1, <2>5 DEF BeginDraft
    <3>2. k.lead \in Leads
      BY <1>1, KeyTypes
    <3>3. k.lead \notin optedOut
      BY <2>2, <2>5, <3>2 DEF ForgottenInv, OptOut
    <3> QED
      BY <2>2, <2>5, <3>1, <3>3 DEF Wanted
  <2>6. \A l \in ended' : l \in ended \/ l = k
    BY <2>1 DEF BeginDraft
  <2>7. LeadsKeep
    BY <2>2, SameLeads
  <2>8. RowsQuiet
    BY <1>2, <1>3, <2>4, <2>5, <2>6, <2>7 DEF RowsQuiet
  <2>9. PlansQuiet
    BY <1>2, <2>4 DEF PlansQuiet
  <2> QED
    BY <1>2, <1>3, <2>7, <2>8, <2>9, RowsKept, PlansKept
<1>5. CASE RefuseDraft(a) \/ PutOff(a) \/ Die(a) \/ (SaveDraft(a) /\ Drafted(agent[a].key))
  <2>1. /\ agent' = [agent EXCEPT ![a] = Idle] /\ Idle.pc = "idle"
        /\ \A b \in Agents \ {a} : agent'[b] = agent[b]
        /\ agent'[a].pc = "idle"
    BY <1>1, <1>5 DEF RefuseDraft, PutOff, Die, SaveDraft, Idle
  <2>2. LeadsKeep
    <3>1. CASE RefuseDraft(a)
      <4>1. PICK p \in Leads : p = agent[a].key.lead
        BY <1>1, <3>1, LocalFields DEF RefuseDraft, OutreachTyped, Keys
      <4>2. lead' = [lead EXCEPT ![p].status = "stopped"]
        BY <3>1, <4>1 DEF RefuseDraft
      <4> QED
        BY <1>1, <4>2 DEF LeadsKeep, LeadRow
    <3> QED
      BY <1>5, <3>1, SameLeads DEF PutOff, Die, SaveDraft
  <2>3. \A l \in ended' : \/ l \in ended \/ Drafted(l)
                          \/ lead'[l.lead].status # "active" \/ lead'[l.lead].step # l.step
    <3>1. CASE RefuseDraft(a)
      <4>1. PICK p \in Leads : p = agent[a].key.lead
        BY <1>1, <3>1, LocalFields DEF RefuseDraft, OutreachTyped, Keys
      <4>2. lead'[p].status = "stopped"
        BY <1>1, <3>1, <4>1 DEF RefuseDraft, LeadRow
      <4> QED
        BY <3>1, <4>1, <4>2 DEF RefuseDraft, EndJob
    <3>2. CASE SaveDraft(a) /\ Drafted(agent[a].key)
      BY <3>2 DEF SaveDraft, EndJob
    <3> QED
      BY <1>5, <3>1, <3>2 DEF PutOff, Die
  <2>4. agent[a].pc = "advance" => mail[agent[a].mail].key.lead \in dropped'
    BY <1>5 DEF RefuseDraft, PutOff, Die, SaveDraft
  <2>5. RowsQuiet
    BY <1>2, <1>3, <2>1, <2>2, <2>3 DEF RowsQuiet
  <2>6. PlansQuiet
    BY <1>2, <2>1, <2>4 DEF PlansQuiet
  <2> QED
    BY <1>2, <1>3, <2>2, <2>5, <2>6, RowsKept, PlansKept
<1> QED
  BY <1>4, <1>5

\* A touch that is due is read: nothing of its step was ever queued.
LEMMA ReadForgets ==
  ASSUME ForgottenInv, NEW a \in Agents, NEW p \in Leads, ReadDue(a, p)
  PROVE  Kept' /\ Planning'
<1>1. OutreachTyped /\ OneOpen /\ Kept /\ agent \in [Agents -> Local]
  BY DEF ForgottenInv, TouchInv, OutreachTyped, OutreachTypeOK
<1>2. UNCHANGED <<lead, mail, jobs, ended, dropped>> /\ Saved' = Saved
  BY DEF ReadDue, Saved
<1>3. /\ agent'[a] = [pc |-> "due", lead |-> p, step |-> lead[p].step]
      /\ \A b \in Agents \ {a} : agent'[b] = agent[b]
      /\ agent[a].pc = "idle" /\ lead[p].status = "active" /\ lead[p].due = "now"
  BY <1>1 DEF ReadDue, Idle
<1>4. \A k : Drafted(k)' <=> Drafted(k)
  BY <1>2 DEF Drafted
<1>5. Behind' /\ Unscheduled' /\ NewFresh'
  BY <1>1, <1>2 DEF Kept, Behind, Unscheduled, NewFresh, Sent
<1>6. Scheduling'
  <2>1. \A i \in Saved : mail[i].key.lead = p => mail[i].key.step # lead[p].step
    BY <1>1, <1>3 DEF Kept, Unscheduled, OneOpen
  <2> QED
    BY <1>1, <1>2, <1>3, <2>1 DEF Kept, Scheduling
<1>7. DoneDrafted' /\ SomethingAhead'
  BY <1>1, <1>2, <1>4 DEF Kept, DoneDrafted, SomethingAhead, Something
<1>8. PlansQuiet /\ RowsKeep /\ LeadsKeep
  BY <1>2, <1>3, SameLeads DEF PlansQuiet, RowsKeep
<1> QED
  BY <1>2, <1>5, <1>6, <1>7, <1>8, PlansKept DEF Kept

\* The touch is scheduled: its job is new, so it is neither drafted nor done.
LEMMA ScheduleForgets ==
  ASSUME ForgottenInv, NEW a \in Agents, Schedule(a)
  PROVE  Kept' /\ Planning'
<1>1. OutreachTyped /\ OneOpen /\ Kept /\ agent \in [Agents -> Local] /\ lead \in [Leads -> LeadRow]
  BY DEF ForgottenInv, TouchInv, OutreachTyped, OutreachTypeOK
<1>2. UNCHANGED <<mail, ended, dropped>> /\ Saved' = Saved /\ RowsKeep
  BY DEF Schedule, Saved, RowsKeep
<1>3. PICK p \in Leads : p = agent[a].lead
  BY <1>1, LocalFields DEF Schedule, OutreachTyped
<1>4. /\ agent'[a] = Idle /\ Idle.pc = "idle" /\ agent[a].pc = "due"
      /\ agent[a].step = lead[p].step
      /\ \A b \in Agents \ {a} : agent'[b] = agent[b]
  BY <1>1, <1>3 DEF Schedule, Idle, Kept, Scheduling
<1>5. \A k : Drafted(k)' <=> Drafted(k)
  BY <1>2 DEF Drafted
<1>6. CASE ~IsDue(p)
  <2>1. lead' = lead /\ jobs' = jobs
    BY <1>3, <1>6 DEF Schedule
  <2>2. LeadsKeep /\ RowsQuiet /\ PlansQuiet
    BY <1>2, <1>4, <2>1, SameLeads DEF RowsQuiet, PlansQuiet
  <2> QED
    BY <1>2, <2>2, RowsKept, PlansKept
<1>7. CASE IsDue(p)
  <2>1. PICK k : k = [lead |-> p, step |-> lead[p].step, after |-> 0]
    OBVIOUS
  <2>2. lead' = [lead EXCEPT ![p].due = "none"] /\ jobs' = jobs \union {k}
    BY <1>3, <1>4, <1>7, <2>1 DEF Schedule
  <2>3. k.lead = p /\ k.step = lead[p].step
    BY <2>1
  <2>4. k \notin jobs
    BY <1>1, <1>7, <2>3 DEF IsDue, Kept, Unscheduled
  <2>5. ~Drafted(k)
    BY <1>1, <2>4 DEF OneOpen, Drafted
  <2>6. /\ \A q \in Leads : /\ lead'[q].step = lead[q].step /\ lead'[q].status = lead[q].status
                            /\ q # p => lead'[q] = lead[q]
        /\ lead'[p].due = "none"
    BY <1>1, <2>2 DEF LeadRow
  <2>7. Behind'
    <3>1. \A q, s : Sent(q, s) => Sent(q, s)'
      BY <1>2, SentStays
    <3>2. \A l \in jobs : l.lead \in Leads
      BY <1>1, KeyTypes
    <3>3. lead[p].step <= lead[p].step
      BY <1>1, KeyTypes
    <3>4. \A l \in jobs' : l.step <= lead'[l.lead].step
      BY <1>1, <2>2, <2>3, <2>6, <3>2, <3>3 DEF Kept, Behind
    <3> QED
      BY <1>1, <2>6, <3>1, <3>4 DEF Kept, Behind
  <2>8. Unscheduled'
    BY <1>1, <2>2, <2>3, <2>6 DEF Kept, Unscheduled
  <2>9. Scheduling'
    <3>1. \A b \in Agents : agent[b].pc = "due" => agent[b].lead \in Leads
      BY <1>1, LocalFields DEF OutreachTyped
    <3> QED
      BY <1>1, <1>2, <1>4, <2>6, <3>1 DEF Kept, Scheduling
  <2>10. NewFresh'
    BY <1>1, <1>7, <2>2, <2>3, <2>6, KeyTypes DEF Kept, NewFresh, IsDue
  <2>11. DoneDrafted'
    <3>1. \A l \in ended : l.lead \in Leads
      BY <1>1, KeyTypes DEF OutreachTyped, OutreachTypeOK
    <3> QED
      BY <1>1, <1>2, <1>5, <2>6, <3>1 DEF Kept, DoneDrafted
  <2>12. SomethingAhead'
    <3> SUFFICES ASSUME NEW q \in Leads \ dropped, lead[q].status = "active" PROVE Something(q)'
      BY <1>2, <2>6 DEF SomethingAhead
    <3>1. CASE q = p
      BY <1>5, <2>2, <2>3, <2>5, <2>6, <3>1 DEF Something
    <3>2. CASE q # p
      <4>1. Something(q) /\ lead'[q] = lead[q]
        BY <1>1, <2>6, <3>2 DEF Kept, SomethingAhead
      <4> QED
        BY <1>2, <1>5, <2>2, <4>1 DEF Something
    <3> QED
      BY <3>1, <3>2
  <2>13. Planning'
    <3>1. \A b \in Agents, i \in Saved : Plans(b, i)' <=> Plans(b, i)
      BY <1>2, <1>4 DEF Plans
    <3>2. \A i \in Saved : mail[i].key.lead \in Leads
      BY <1>1, KeyTypes
    <3>3. Planning
      BY DEF ForgottenInv
    <3> QED
      BY <1>2, <2>6, <3>1, <3>2, <3>3 DEF Planning
  <2> QED
    BY <2>7, <2>8, <2>9, <2>10, <2>11, <2>12, <2>13 DEF Kept
<1> QED
  BY <1>6, <1>7

\* A draft is stored: what its job promised is now an email that waits.
LEMMA SaveForgets ==
  ASSUME ForgottenInv, NEW a \in Agents, SaveDraft(a), ~Drafted(agent[a].key)
  PROVE  Kept' /\ Planning'
<1>1. OutreachTyped /\ OneOpen /\ Kept /\ Planning /\ agent \in [Agents -> Local]
  BY DEF ForgottenInv, TouchInv, OutreachTyped, OutreachTypeOK
<1>2. PICK k \in Keys : k = agent[a].key
  BY <1>1, LocalFields DEF SaveDraft, OutreachTyped
<1>3. k \in jobs /\ ~Drafted(k) /\ Cardinality(Saved) < MaxMails /\ mail' = SavedMail(k)
  BY <1>1, <1>2 DEF SaveDraft, OutreachTyped, Refers
<1>4. PICK n \in MailIds :
        /\ n \notin Saved /\ Saved' = Saved \union {n}
        /\ mail'[n] = [key |-> k, status |-> "waiting", else |-> FALSE]
        /\ \A i \in Saved : mail'[i] = mail[i]
  BY <1>1, <1>3, SavedNext
<1>5. UNCHANGED <<lead, jobs, dropped>> /\ ended' \in {ended, ended \union {k}}
  BY <1>2 DEF SaveDraft, EndJob
<1>6. /\ agent'[a] = Idle /\ Idle.pc = "idle" /\ agent[a].pc = "draft"
      /\ \A b \in Agents \ {a} : agent'[b] = agent[b]
  BY <1>1 DEF SaveDraft, Idle
<1>7. mail'[n].key = k /\ mail'[n].status = "waiting"
  BY <1>4
<1>8. RowsKeep
  BY <1>4 DEF RowsKeep
<1>9. \A l : Drafted(l)' <=> Drafted(l) \/ l = k
  BY <1>4, <1>7 DEF Drafted
<1>10. Behind'
  <2>1. \A q, s : Sent(q, s) => Sent(q, s)'
    BY <1>8, SentStays
  <2> QED
    BY <1>1, <1>5, <2>1 DEF Kept, Behind
<1>11. Unscheduled' /\ NewFresh'
  BY <1>1, <1>5 DEF Kept, Unscheduled, NewFresh
<1>12. Scheduling'
  BY <1>1, <1>4, <1>5, <1>6, <1>7 DEF Kept, Scheduling
<1>13. DoneDrafted'
  BY <1>1, <1>5, <1>9 DEF Kept, DoneDrafted
<1>14. SomethingAhead'
  <2> SUFFICES ASSUME NEW q \in Leads \ dropped, lead[q].status = "active" PROVE Something(q)'
    BY <1>5 DEF SomethingAhead
  <2>1. Something(q)
    BY <1>1 DEF Kept, SomethingAhead
  <2>2. CASE lead[q].due # "none"
    BY <1>5, <2>2 DEF Something
  <2>3. CASE \E l \in jobs : l.lead = q /\ l.step = lead[q].step /\ ~Drafted(l)
    <3>1. PICK l \in jobs : l.lead = q /\ l.step = lead[q].step /\ ~Drafted(l)
      BY <2>3
    <3>2. CASE l = k
      BY <1>4, <1>5, <1>7, <3>1, <3>2 DEF Something
    <3>3. CASE l # k
      BY <1>5, <1>9, <3>1, <3>3 DEF Something
    <3> QED
      BY <3>2, <3>3
  <2>4. CASE \E i \in Saved : /\ mail[i].key.lead = q /\ mail[i].key.step = lead[q].step
                              /\ mail[i].status # "off"
    BY <1>4, <1>5, <2>4 DEF Something
  <2> QED
    BY <2>1, <2>2, <2>3, <2>4 DEF Something
<1>15. Planning'
  <2>1. \A b \in Agents, i \in Saved' : Plans(b, i)' => Plans(b, i) /\ i \in Saved
    <3>1. \A b \in Agents : agent[b].pc = "advance" => agent[b].mail \in Saved
      BY <1>1 DEF OutreachTyped, Refers
    <3> QED
      BY <1>6, <3>1 DEF Plans
  <2>2. \A b \in Agents, i \in Saved : Plans(b, i) => Plans(b, i)'
    BY <1>6 DEF Plans
  <2> QED
    BY <1>1, <1>4, <1>5, <1>7, <2>1, <2>2 DEF Planning
<1> QED
  BY <1>10, <1>11, <1>12, <1>13, <1>14, <1>15 DEF Kept

\* The touch is recorded: who recorded it is the one to plan the next.
LEMMA RecordForgets ==
  ASSUME ForgottenInv, NEW a \in Agents, RecordSent(a), agent' # [agent EXCEPT ![a] = Idle]
  PROVE  Kept' /\ Planning'
<1>1. OutreachTyped /\ OneOpen /\ Kept /\ Planning /\ Senders /\ agent \in [Agents -> Local]
  BY DEF ForgottenInv, TouchInv, OutreachTyped, OutreachTypeOK
<1>2. PICK i \in Saved : i = agent[a].mail /\ mail[i].status = "sending"
  BY <1>1 DEF RecordSent, Senders, Holds, OutreachTyped, Refers
<1>3. /\ mail' = IfSending(i, "sent") /\ agent' = [agent EXCEPT ![a].pc = "advance"]
      /\ UNCHANGED <<lead, jobs, ended, dropped>>
  BY <1>2 DEF RecordSent
<1>4. RowsKeep /\ Saved' = Saved /\ LeadsKeep
  BY <1>1, <1>3, SentKeeps, SameLeads
<1>5. mail'[i].status = "sent" /\ \A j \in Saved \ {i} : mail'[j] = mail[j]
  BY <1>1, <1>2, <1>3 DEF IfSending, OutreachTyped, OutreachTypeOK, MailRow, Saved
<1>6. /\ agent'[a].pc = "advance" /\ agent'[a].mail = i /\ agent[a].pc = "record"
      /\ \A b \in Agents \ {a} : agent'[b] = agent[b]
  <2>1. agent[a] = [pc |-> agent[a].pc, mail |-> i]
    BY <1>1, <1>2, LocalFields DEF RecordSent, OutreachTyped
  <2> QED
    BY <1>1, <1>3, <2>1 DEF RecordSent
<1>7. RowsQuiet
  BY <1>2, <1>3, <1>4, <1>5, <1>6 DEF RowsQuiet
<1>8. \A b \in Agents, j \in Saved : Plans(b, j)' <=> (b = a /\ j = i) \/ (Plans(b, j) /\ j # i)
  <2>1. \A b \in Agents : ~Plans(b, i)
    BY <1>1, <1>2 DEF Plans, Senders
  <2> QED
    BY <1>6, <2>1 DEF Plans
<1>9. mail[i].key.step = lead[mail[i].key.lead].step
  BY <1>2, AtStep
<1>10. Planning'
  <2>1. \A j \in Saved : mail'[j].key = mail[j].key
    BY <1>4 DEF RowsKeep
  <2>2. \A b \in Agents, j \in Saved : Plans(b, j)' => mail[j].key.step = lead[mail[j].key.lead].step
    BY <1>1, <1>8, <1>9 DEF Planning
  <2>3. \A b, c \in Agents, j \in Saved : Plans(b, j)' /\ Plans(c, j)' => b = c
    BY <1>1, <1>8 DEF Planning
  <2>4. ASSUME NEW j \in Saved, mail'[j].status = "sent",
               mail[j].key.step = lead[mail[j].key.lead].step,
               lead[mail[j].key.lead].status = "active", mail[j].key.lead \notin dropped
        PROVE  \E b \in Agents : Plans(b, j)'
    <3>1. CASE j = i
      BY <1>8, <3>1
    <3>2. CASE j # i
      BY <1>1, <1>5, <1>8, <2>4, <3>2 DEF Planning
    <3> QED
      BY <3>1, <3>2
  <2> QED
    BY <1>3, <1>4, <2>1, <2>2, <2>3, <2>4 DEF Planning
<1> QED
  BY <1>7, <1>10, RowsKept

\* The next touch is planned: there is no job for it, and nobody else plans for
\* this prospect.
LEMMA AdvanceForgets ==
  ASSUME ForgottenInv, NEW a \in Agents, AdvanceSequence(a)
  PROVE  Kept' /\ Planning'
<1>1. /\ OutreachTyped /\ OneOpen /\ Kept /\ Planning /\ Senders
      /\ agent \in [Agents -> Local] /\ lead \in [Leads -> LeadRow]
  BY DEF ForgottenInv, TouchInv, OutreachTyped, OutreachTypeOK
<1>2. PICK i \in Saved : i = agent[a].mail /\ mail[i].status = "sent" /\ Plans(a, i)
  BY <1>1 DEF AdvanceSequence, Senders, OutreachTyped, Refers, Plans
<1>3. PICK p \in Leads, s \in Steps : p = mail[i].key.lead /\ s = mail[i].key.step
  BY <1>1, KeyTypes
<1>4. s = lead[p].step /\ s \in Nat
  BY <1>1, <1>2, <1>3, OutreachAssumption DEF Planning, Steps
<1>5. /\ UNCHANGED <<mail, jobs, ended, dropped>> /\ Saved' = Saved /\ RowsKeep
      /\ lead' = Advanced(p, s)
  BY <1>2, <1>3 DEF AdvanceSequence, Saved, RowsKeep
<1>6. /\ agent'[a] = Idle /\ Idle.pc = "idle" /\ agent[a].pc = "advance"
      /\ \A b \in Agents \ {a} : agent'[b] = agent[b]
  BY <1>1 DEF AdvanceSequence, Idle
<1>7. CASE lead[p].status # "active"
  <2>1. lead' = lead
    BY <1>5, <1>7 DEF Advanced
  <2>2. LeadsKeep /\ RowsQuiet /\ PlansQuiet
    BY <1>2, <1>3, <1>5, <1>6, <1>7, <2>1, SameLeads DEF RowsQuiet, PlansQuiet
  <2> QED
    BY <1>5, <2>2, RowsKept, PlansKept
<1>8. CASE lead[p].status = "active"
  <2>1. /\ lead'[p].step = s + 1 /\ lead'[p].status \in {"active", "completed"}
        /\ lead'[p].status = "active" => lead'[p].due = "later"
        /\ \A q \in Leads \ {p} : lead'[q] = lead[q]
    BY <1>1, <1>5, <1>8 DEF Advanced
  <2>2. \A k : Drafted(k)' <=> Drafted(k)
    BY <1>5 DEF Drafted
  <2>3. \A k \in jobs : k.lead \in Leads /\ k.step \in Nat /\ (k.lead = p => k.step <= s)
    BY <1>1, <1>4, KeyTypes, OutreachAssumption DEF Kept, Behind, Steps
  <2>4. \A q, t : Sent(q, t)' <=> Sent(q, t)
    BY <1>5 DEF Sent
  <2>5. Sent(p, s)
    BY <1>2, <1>3 DEF Sent
  <2>6. Behind'
    <3>1. \A k \in jobs : k.step <= lead'[k.lead].step
      <4> SUFFICES ASSUME NEW k \in jobs PROVE k.step <= lead'[k.lead].step
        OBVIOUS
      <4>1. CASE k.lead = p
        BY <1>4, <2>1, <2>3, <4>1
      <4>2. CASE k.lead # p
        BY <1>1, <2>1, <2>3, <4>2 DEF Kept, Behind
      <4> QED
        BY <4>1, <4>2
    <3>2. ASSUME NEW q \in Leads, NEW t \in Steps, t < lead'[q].step PROVE Sent(q, t)
      <4>1. CASE q = p
        <5>1. t \in Nat
          BY OutreachAssumption DEF Steps
        <5>2. t < s \/ t = s
          BY <1>4, <2>1, <3>2, <4>1, <5>1
        <5> QED
          BY <1>1, <1>4, <2>5, <4>1, <5>2 DEF Kept, Behind
      <4>2. CASE q # p
        BY <1>1, <2>1, <3>2, <4>2 DEF Kept, Behind
      <4> QED
        BY <4>1, <4>2
    <3> QED
      BY <1>5, <2>4, <3>1, <3>2 DEF Behind
  <2>7. \A k \in jobs : k.lead = p => k.step # lead'[p].step
    BY <1>4, <2>1, <2>3
  <2>8. Unscheduled'
    BY <1>1, <1>5, <2>1, <2>7 DEF Kept, Unscheduled
  <2>9. Scheduling'
    <3> SUFFICES ASSUME NEW b \in Agents, b # a, agent[b].pc = "due"
                 PROVE  /\ agent[b].step = lead'[agent[b].lead].step
                        /\ \A j \in Saved :
                             mail[j].key.lead = agent[b].lead /\ mail[j].key.step = agent[b].step =>
                               mail[j].status \in {"waiting", "off"}
      BY <1>5, <1>6 DEF Scheduling
    <3>1. agent[b].lead \in Leads
      BY <1>1, LocalFields DEF OutreachTyped
    <3>2. agent[b].lead # p
      BY <1>1, <1>2, <1>3, <1>4 DEF Kept, Scheduling
    <3> QED
      BY <1>1, <2>1, <3>1, <3>2 DEF Kept, Scheduling
  <2>10. NewFresh'
    BY <1>1, <1>5, <2>1, <2>3 DEF Kept, NewFresh
  <2>11. DoneDrafted'
    <3>1. ended \subseteq jobs
      BY <1>1 DEF OutreachTyped, OutreachTypeOK
    <3> QED
      BY <1>1, <1>5, <2>1, <2>2, <2>3, <2>7, <3>1 DEF Kept, DoneDrafted
  <2>12. SomethingAhead'
    <3> SUFFICES ASSUME NEW q \in Leads \ dropped, lead'[q].status = "active" PROVE Something(q)'
      BY <1>5 DEF SomethingAhead
    <3>1. CASE q = p
      BY <2>1, <3>1 DEF Something
    <3>2. CASE q # p
      <4>1. Something(q) /\ lead'[q] = lead[q]
        BY <1>1, <2>1, <3>2 DEF Kept, SomethingAhead
      <4> QED
        BY <1>5, <2>2, <4>1 DEF Something
    <3> QED
      BY <3>1, <3>2
  <2>13. Planning'
    <3>1. \A b \in Agents, j \in Saved : Plans(b, j)' <=> Plans(b, j) /\ b # a
      BY <1>6 DEF Plans
    <3>2. ASSUME NEW b \in Agents, NEW j \in Saved, Plans(b, j), b # a
          PROVE  mail[j].key.lead # p
      <4>1. ASSUME mail[j].key.lead = p PROVE FALSE
        <5>1. mail[j].key.step = s /\ mail[j].status = "sent"
          BY <1>1, <1>4, <3>2, <4>1 DEF Planning, Plans, Senders
        <5>2. j = i
          BY <1>1, <1>2, <1>3, <4>1, <5>1 DEF OneOpen, SameStep
        <5> QED
          BY <1>1, <1>2, <3>2, <5>2 DEF Planning
      <4> QED
        BY <4>1
    <3>3. \A j \in Saved : mail[j].key \in jobs /\ mail[j].key.lead \in Leads
      BY <1>1, KeyTypes DEF OneOpen
    <3>4. \A b \in Agents, j \in Saved : Plans(b, j)' =>
            mail[j].key.step = lead'[mail[j].key.lead].step
      BY <1>1, <2>1, <3>1, <3>2, <3>3 DEF Planning
    <3>5. ASSUME NEW j \in Saved, mail[j].status = "sent",
                 mail[j].key.step = lead'[mail[j].key.lead].step,
                 lead'[mail[j].key.lead].status = "active", mail[j].key.lead \notin dropped
          PROVE  \E b \in Agents : Plans(b, j)'
      <4>1. mail[j].key.lead # p
        BY <2>7, <3>3, <3>5
      <4>2. PICK b \in Agents : Plans(b, j)
        BY <1>1, <2>1, <3>3, <3>5, <4>1 DEF Planning
      <4>3. b # a
        BY <1>2, <1>3, <4>1, <4>2 DEF Plans
      <4> QED
        BY <3>1, <4>2, <4>3
    <3>6. \A b, c \in Agents, j \in Saved : Plans(b, j)' /\ Plans(c, j)' => b = c
      BY <1>1, <3>1 DEF Planning
    <3> QED
      BY <1>5, <3>4, <3>5, <3>6 DEF Planning
  <2> QED
    BY <2>6, <2>8, <2>9, <2>10, <2>11, <2>12, <2>13 DEF Kept
<1> QED
  BY <1>7, <1>8

\* People who change no job: what they cancel is nobody's any more.
LEMMA LeadsForget ==
  ASSUME ForgottenInv, UNCHANGED <<mail, jobs, ended, agent, dropped>>, LeadsKeep
  PROVE  Kept' /\ Planning'
<1>1. RowsKeep /\ Saved' = Saved
  BY DEF RowsKeep, Saved
<1>2. RowsQuiet /\ PlansQuiet
  BY <1>1 DEF RowsQuiet, PlansQuiet
<1> QED
  BY <1>1, <1>2, RowsKept, PlansKept

LEMMA ReviewForgets ==
  ASSUME ForgottenInv, NEW i \in MailIds, Review(i)
  PROVE  Kept' /\ Planning'
<1>1. OutreachTyped /\ i \in Saved
  BY DEF Review, ForgottenInv, TouchInv
<1>2. /\ Saved' = Saved /\ \A j \in Saved : mail'[j].key = mail[j].key
      /\ \A j \in Saved \ {i} : mail'[j] = mail[j]
      /\ mail'[i].status \in {"waiting", "approved", "failed"}
      /\ mail[i].status \notin {"off", "sent"}
      /\ mail[i].status = "waiting" =>
           mail'[i].status = "waiting" \/ \A a \in Agents : agent[a].pc # "due"
  BY <1>1 DEF Review, Open, OutreachTyped, OutreachTypeOK, MailRow, Saved
<1>3. UNCHANGED <<lead, jobs, ended, agent, dropped>>
  BY DEF Review
<1>4. RowsKeep /\ LeadsKeep
  BY <1>2, <1>3, SameLeads DEF RowsKeep
<1>5. RowsQuiet
  BY <1>2, <1>3, <1>4 DEF RowsQuiet
<1>6. PlansQuiet
  BY <1>2, <1>3 DEF PlansQuiet
<1> QED
  BY <1>2, <1>3, <1>4, <1>5, <1>6, RowsKept, PlansKept

LEMMA CancelForgets ==
  ASSUME ForgottenInv, NEW i \in MailIds, Cancel(i) \/ Reject(i, FALSE)
  PROVE  Kept' /\ Planning'
<1>1. /\ OutreachTyped /\ i \in Saved /\ mail' = CancelMails({i}) /\ lead' = StoppedOf(i)
      /\ UNCHANGED <<jobs, ended, agent, dropped>>
  BY DEF Cancel, Reject, ForgottenInv, TouchInv
<1>2. LeadsKeep /\ lead'[mail[i].key.lead].status # "active"
  BY <1>1, StoppedLeads
<1> QED
  BY <1>1, <1>2, CancelQuiet

\* A redraft: the email is off, and the job that replaces it is new.
LEMMA RedraftForgets ==
  ASSUME ForgottenInv, NEW i \in MailIds, Reject(i, TRUE)
  PROVE  Kept' /\ Planning'
<1>1. OutreachTyped /\ OneOpen /\ Kept /\ Planning
  BY DEF ForgottenInv, TouchInv
<1>2. PICK k : k = RedraftJob(i)
  OBVIOUS
<1>3. /\ i \in Saved /\ mail[i].status = "waiting" /\ mail' = CancelMails({i})
      /\ jobs' = jobs \union {k} /\ UNCHANGED <<lead, ended, agent, dropped>>
  BY <1>2 DEF Reject
<1>4. mail[i].key \in Keys /\ mail[i].key \in jobs
  BY <1>1, <1>3 DEF OneOpen, OutreachTyped, OutreachTypeOK, MailRow
<1>5. k.lead = mail[i].key.lead /\ k.step = mail[i].key.step /\ k.after = i /\ i # 0
  BY <1>2, <1>4 DEF RedraftJob, Keys, MailIds
<1>6. k \notin jobs /\ ~Drafted(k)
  BY <1>1, <1>3, <1>5 DEF OneOpen, Drafted
<1>7. RowsKeep /\ Saved' = Saved
  BY <1>3, CancelKeeps
<1>8. /\ \A j \in Saved \ {i} : mail'[j] = mail[j]
      /\ mail'[i].status = "off" /\ \A j \in Saved : mail'[j].key = mail[j].key
  BY <1>1, <1>3, <1>7 DEF CancelMails, Open, OutreachTyped, OutreachTypeOK, MailRow, RowsKeep
<1>9. \A l : Drafted(l)' <=> Drafted(l)
  BY <1>7 DEF RowsKeep, Drafted
<1>10. Behind'
  <2>1. \A q, s : Sent(q, s) => Sent(q, s)'
    BY <1>7, SentStays
  <2> QED
    BY <1>1, <1>3, <1>4, <1>5, <2>1 DEF Kept, Behind
<1>11. Unscheduled' /\ NewFresh'
  BY <1>1, <1>3, <1>4, <1>5 DEF Kept, Unscheduled, NewFresh
<1>12. Scheduling'
  BY <1>1, <1>3, <1>7, <1>8 DEF Kept, Scheduling
<1>13. DoneDrafted'
  BY <1>1, <1>3, <1>9 DEF Kept, DoneDrafted
<1>14. SomethingAhead'
  <2> SUFFICES ASSUME NEW q \in Leads \ dropped, lead[q].status = "active" PROVE Something(q)'
    BY <1>3 DEF SomethingAhead
  <2>1. Something(q)
    BY <1>1 DEF Kept, SomethingAhead
  <2>2. CASE lead[q].due # "none"
    BY <1>3, <2>2 DEF Something
  <2>3. CASE \E l \in jobs : l.lead = q /\ l.step = lead[q].step /\ ~Drafted(l)
    BY <1>3, <1>9, <2>3 DEF Something
  <2>4. CASE \E j \in Saved : /\ mail[j].key.lead = q /\ mail[j].key.step = lead[q].step
                              /\ mail[j].status # "off"
    <3>1. PICK j \in Saved : /\ mail[j].key.lead = q /\ mail[j].key.step = lead[q].step
                             /\ mail[j].status # "off"
      BY <2>4
    <3>2. CASE j = i
      BY <1>3, <1>5, <1>6, <1>9, <3>1, <3>2 DEF Something
    <3>3. CASE j # i
      BY <1>3, <1>7, <1>8, <3>1, <3>3 DEF Something
    <3> QED
      BY <3>2, <3>3
  <2> QED
    BY <2>1, <2>2, <2>3, <2>4 DEF Something
<1>15. Planning'
  <2>1. LeadsKeep /\ PlansQuiet
    BY <1>3, <1>8, SameLeads DEF PlansQuiet
  <2> QED
    BY <1>3, <1>7, <2>1, PlansKept
<1> QED
  BY <1>10, <1>11, <1>12, <1>13, <1>14, <1>15 DEF Kept

\* A prospect is started: nothing was ever queued for it.
LEMMA StartForgets ==
  ASSUME ForgottenInv, NEW p \in Leads, Start(p)
  PROVE  Kept' /\ Planning'
<1>1. OutreachTyped /\ OneOpen /\ Kept /\ Planning /\ lead \in [Leads -> LeadRow]
  BY DEF ForgottenInv, TouchInv, OutreachTyped, OutreachTypeOK
<1>2. /\ UNCHANGED <<mail, jobs, ended, agent, dropped>> /\ Saved' = Saved
      /\ lead[p].status = "new"
  BY DEF Start, Saved
<1>3. /\ lead'[p].status = "active" /\ lead'[p].due = "now" /\ lead'[p].step = lead[p].step
      /\ \A q \in Leads \ {p} : lead'[q] = lead[q]
  BY <1>1 DEF Start, LeadRow
<1>4. /\ \A k \in jobs : k.lead \in Leads \ {p}
      /\ \A i \in Saved : mail[i].key \in jobs
  BY <1>1, <1>2, KeyTypes DEF Kept, NewFresh, OneOpen
<1>5. \A k : Drafted(k)' <=> Drafted(k)
  BY <1>2 DEF Drafted
<1>6. Behind'
  BY <1>1, <1>2, <1>3, <1>4 DEF Kept, Behind, Sent
<1>7. Unscheduled' /\ NewFresh'
  BY <1>1, <1>2, <1>3, <1>4 DEF Kept, Unscheduled, NewFresh
<1>8. Scheduling'
  <2>1. \A a \in Agents : agent[a].pc = "due" => agent[a].lead \in Leads
    BY <1>1, LocalFields DEF OutreachTyped
  <2> QED
    BY <1>1, <1>2, <1>3, <2>1 DEF Kept, Scheduling
<1>9. DoneDrafted'
  <2>1. ended \subseteq jobs
    BY <1>1 DEF OutreachTyped, OutreachTypeOK
  <2> QED
    BY <1>1, <1>2, <1>3, <1>4, <1>5, <2>1 DEF Kept, DoneDrafted
<1>10. SomethingAhead'
  <2> SUFFICES ASSUME NEW q \in Leads \ dropped, lead'[q].status = "active" PROVE Something(q)'
    BY <1>2 DEF SomethingAhead
  <2>1. CASE q = p
    BY <1>3, <2>1 DEF Something
  <2>2. CASE q # p
    <3>1. Something(q) /\ lead'[q] = lead[q]
      BY <1>1, <1>3, <2>2 DEF Kept, SomethingAhead
    <3> QED
      BY <1>2, <1>5, <3>1 DEF Something
  <2> QED
    BY <2>1, <2>2
<1>11. Planning'
  <2>1. \A a \in Agents, i \in Saved : Plans(a, i)' <=> Plans(a, i)
    BY <1>2 DEF Plans
  <2>2. \A i \in Saved : lead'[mail[i].key.lead] = lead[mail[i].key.lead]
    BY <1>3, <1>4
  <2> QED
    BY <1>1, <1>2, <2>1, <2>2 DEF Planning
<1> QED
  BY <1>6, <1>7, <1>8, <1>9, <1>10, <1>11 DEF Kept

\* The prospect answers, or is taken out of the sequence.
LEMMA LeavesForgets ==
  ASSUME ForgottenInv, NEW p \in Leads, Leaves(p)
  PROVE  Kept' /\ Planning'
<1>1. OutreachTyped /\ UNCHANGED <<jobs, ended, agent, dropped>>
  BY DEF Leaves, ForgottenInv, TouchInv
<1>2. PICK s \in {"stopped", "replied", "opted_out"} :
        lead' = Ended(p, s) /\ (mail' = mail \/ mail' = CancelMails(MailsOf(p)))
  BY DEF Leaves
<1>3. LeadsKeep /\ lead'[p].status # "active"
  BY <1>1, <1>2, EndedLeads
<1>4. \A i \in MailsOf(p) : mail[i].key.lead = p
  BY DEF MailsOf
<1> QED
  BY <1>1, <1>2, <1>3, <1>4, LeadsForget, CancelQuiet

LEMMA SuppressForgets ==
  ASSUME ForgottenInv, NEW x \in Leads \union {"else"}, Suppress(x)
  PROVE  Kept' /\ Planning'
<1> DEFINE ids == {i \in Saved : AddressOf(i) = x}
<1>1. OutreachTyped /\ UNCHANGED <<jobs, ended, agent>> /\ dropped \subseteq dropped'
  BY DEF Suppress, ForgottenInv, TouchInv
<1>2. mail' = CancelMails(ids)
  BY DEF Suppress
<1>3. LeadsKeep /\ (x \in Leads => lead'[x].status # "active")
  <2>1. CASE x \in Leads /\ lead[x].status \in {"new", "active"}
    BY <1>1, <2>1, EndedLeads DEF Suppress
  <2>2. CASE ~(x \in Leads /\ lead[x].status \in {"new", "active"})
    BY <2>2, SameLeads DEF Suppress
  <2> QED
    BY <2>1, <2>2
<1>4. ASSUME NEW i \in Saved, AddressOf(i) = x, mail[i].status \in Open
      PROVE  lead'[mail[i].key.lead].status # "active" \/ mail[i].key.lead \in dropped'
  <2>1. CASE mail[i].else
    BY <1>4, <2>1 DEF Suppress, AddressOf
  <2>2. CASE ~mail[i].else
    BY <1>1, <1>3, <1>4, <2>2, KeyTypes DEF AddressOf
  <2> QED
    BY <2>1, <2>2
<1> QED
  BY <1>1, <1>2, <1>3, <1>4, CancelQuiet

\* No step makes somebody active who opted out.
LEMMA OptOutKept ==
  ASSUME OutreachTyped, OptOut, [OutreachNext]_outreachVars PROVE OptOut'
<1>1. StaysEnded
  BY StaysEndedStep
<1>2. CASE optedOut' = optedOut
  BY <1>1, <1>2 DEF OptOut, StaysEnded
<1>3. ASSUME NEW x \in Leads \union {"else"}, Suppress(x) PROVE OptOut'
  <2>1. x \in Leads => lead'[x].status \notin {"new", "active"}
    BY <1>3 DEF Suppress, Ended, OutreachTyped, OutreachTypeOK, LeadRow
  <2> QED
    BY <1>1, <1>3, <2>1 DEF Suppress, OptOut, StaysEnded
<1> QED
  BY <1>2, <1>3
  DEF OutreachNext, AgentStep, outreachVars, ReadDue, Schedule, BeginDraft, SaveDraft, RefuseDraft,
      PutOff, CheckMail, SweepFound, ClaimMail, Accepted, Refused, RecordSent, AdvanceSequence, Die,
      SweepFail, Review, Cancel, Reject, GapEnds, Start, Leaves

\* Approved is what was, but for a review that looks at the recipient.
ApprovedBefore ==
  \A i \in Saved' : mail'[i].status = "approved" => i \in Saved /\ mail'[i] = mail[i]

LEMMA BeforeKept ==
  ASSUME Reachable, optedOut' = optedOut, ApprovedBefore PROVE Reachable'
  BY DEF Reachable, ApprovedBefore, AddressOf

LEMMA CancelBefore ==
  ASSUME NEW ids, mail' = CancelMails(ids) PROVE ApprovedBefore
  BY DEF ApprovedBefore, CancelMails, Saved, Open

LEMMA ReachableKept ==
  ASSUME OutreachTyped, Reachable, [OutreachNext]_outreachVars PROVE Reachable'
<1>1. ASSUME mail' = mail, optedOut' = optedOut PROVE Reachable'
  BY <1>1, BeforeKept DEF ApprovedBefore, Saved
<1>2. ASSUME NEW ids, mail' = CancelMails(ids), optedOut' = optedOut PROVE Reachable'
  BY <1>2, CancelBefore, BeforeKept
<1>3. ASSUME NEW a \in Agents, AgentStep(a) PROVE Reachable'
  <2>1. optedOut' = optedOut
    BY <1>3 DEF AgentStep, ReadDue, Schedule, BeginDraft, SaveDraft, RefuseDraft, PutOff, CheckMail,
                SweepFound, ClaimMail, Accepted, Refused, RecordSent, AdvanceSequence, Die
  <2>2. CASE SaveDraft(a)
    <3>1. ApprovedBefore
      BY <2>2 DEF SaveDraft, SavedMail, ApprovedBefore, Saved
    <3> QED
      BY <2>1, <3>1, BeforeKept
  <2>3. CASE ClaimMail(a) \/ Refused(a) \/ RecordSent(a)
    <3>1. PICK i \in Saved : i = agent[a].mail
      BY <2>3 DEF ClaimMail, Refused, RecordSent, OutreachTyped, Refers
    <3>2. \/ mail' = mail \/ mail' = [mail EXCEPT ![i].status = "sending"]
          \/ mail' = IfSending(i, "sent") \/ mail' = IfSending(i, "failed")
      BY <2>3, <3>1 DEF ClaimMail, Refused, RecordSent
    <3>3. ApprovedBefore
      BY <3>1, <3>2 DEF IfSending, ApprovedBefore, Saved, OutreachTyped, OutreachTypeOK, MailRow
    <3> QED
      BY <2>1, <3>3, BeforeKept
  <2>4. ASSUME NEW i \in MailIds, CheckMail(a, i) PROVE Reachable'
    BY <1>1, <1>2, <2>1, <2>4 DEF CheckMail
  <2> QED
    BY <1>1, <1>3, <2>1, <2>2, <2>3, <2>4
    DEF AgentStep, ReadDue, Schedule, BeginDraft, RefuseDraft, PutOff, SweepFound, Accepted,
        AdvanceSequence, Die
<1>4. ASSUME NEW i \in MailIds, SweepFail(i) PROVE Reachable'
  <2>1. ApprovedBefore
    BY <1>4 DEF SweepFail, Stuck, IfSending, ApprovedBefore, Saved, OutreachTyped, OutreachTypeOK, MailRow
  <2> QED
    BY <1>4, <2>1, BeforeKept DEF SweepFail
<1>5. ASSUME NEW i \in MailIds, Review(i) PROVE Reachable'
  <2>1. /\ i \in Saved /\ Saved' = Saved /\ optedOut' = optedOut
        /\ \A j \in Saved \ {i} : mail'[j] = mail[j]
    BY <1>5 DEF Review, Saved
  <2>2. mail'[i].status = "approved" => mail'[i].else = mail[i].else /\ mail'[i].key = mail[i].key
                                        /\ AddressOf(i) \notin optedOut
    BY <1>5, <2>1 DEF Review, Open, OutreachTyped, OutreachTypeOK, MailRow, Saved
  <2> SUFFICES ASSUME NEW j \in Saved', mail'[j].status = "approved"
               PROVE  AddressOf(j)' \notin optedOut'
    BY DEF Reachable
  <2>3. CASE j = i
    BY <2>1, <2>2, <2>3 DEF AddressOf
  <2>4. CASE j # i
    BY <2>1, <2>4 DEF Reachable, AddressOf
  <2> QED
    BY <2>3, <2>4
<1>6. ASSUME NEW i \in MailIds, Cancel(i) \/ \E redraft \in BOOLEAN : Reject(i, redraft)
      PROVE  Reachable'
  BY <1>2, <1>6 DEF Cancel, Reject
<1>7. ASSUME NEW p \in Leads, Leaves(p) PROVE Reachable'
  BY <1>1, <1>2, <1>7 DEF Leaves
<1>8. ASSUME NEW x \in Leads \union {"else"}, Suppress(x) PROVE Reachable'
  <2>1. optedOut' = optedOut \union {x}
    BY <1>8 DEF Suppress
  <2>2. ASSUME NEW i \in Saved', mail'[i].status = "approved"
        PROVE  i \in Saved /\ mail'[i] = mail[i] /\ AddressOf(i) # x
    BY <1>8, <2>2 DEF Suppress, CancelMails, Open, Saved
  <2> QED
    BY <2>1, <2>2 DEF Reachable, AddressOf
<1> QED
  BY <1>1, <1>3, <1>4, <1>5, <1>6, <1>7, <1>8 DEF OutreachNext, GapEnds, Start, outreachVars

LEMMA AgentForgets ==
  ASSUME ForgottenInv, ~Late, NEW a \in Agents, AgentStep(a) PROVE Kept' /\ Planning'
  BY ReadForgets, ScheduleForgets, SaveForgets, DrafterForgets, CheckForgets, SenderForgets,
     RecordForgets, AdvanceForgets
  DEF AgentStep

LEMMA ForgottenStep ==
  ASSUME ~Late PROVE ForgottenInv /\ [OutreachNext]_outreachVars => ForgottenInv'
<1> SUFFICES ASSUME ForgottenInv, [OutreachNext]_outreachVars PROVE ForgottenInv'
  OBVIOUS
<1>1. TouchInv' /\ OptOut' /\ Reachable'
  BY TouchStep, OptOutKept, ReachableKept DEF ForgottenInv, TouchInv
<1>2. CASE UNCHANGED outreachVars
  <2>1. UNCHANGED <<mail, jobs, ended, agent, dropped>> /\ LeadsKeep
    BY <1>2, SameLeads DEF outreachVars
  <2> QED
    BY <1>1, <2>1, LeadsForget DEF ForgottenInv
<1>3. ASSUME NEW i \in MailIds, SweepFail(i) PROVE Kept' /\ Planning'
  <2>1. /\ i \in Saved /\ UNCHANGED <<lead, jobs, ended, agent, dropped>>
        /\ mail[i].status = "sending" /\ mail' = [mail EXCEPT ![i].status = "failed"]
    BY <1>3 DEF SweepFail, Stuck, IfSending
  <2>2. \A a \in Agents : agent'[a] = agent[a]
    BY <2>1
  <2> QED
    BY <2>1, <2>2, MailQuiet
<1>4. ASSUME NEW p \in Leads, GapEnds(p) PROVE Kept' /\ Planning'
  <2>1. LeadsKeep /\ UNCHANGED <<mail, jobs, ended, agent, dropped>>
    BY <1>4 DEF GapEnds, LeadsKeep, ForgottenInv, TouchInv, OutreachTyped, OutreachTypeOK, LeadRow
  <2> QED
    BY <2>1, LeadsForget
<1>5. (Kept' /\ Planning') \/ UNCHANGED outreachVars
  BY <1>3, <1>4, AgentForgets, ReviewForgets, CancelForgets, RedraftForgets, StartForgets,
     LeavesForgets, SuppressForgets
  DEF OutreachNext
<1> QED
  BY <1>1, <1>2, <1>5 DEF ForgottenInv

LEMMA ForgottenInit == OutreachInit => ForgottenInv
<1> SUFFICES ASSUME OutreachInit PROVE ForgottenInv
  OBVIOUS
<1>1. /\ Saved = {} /\ jobs = {} /\ ended = {} /\ optedOut = {}
      /\ \A a \in Agents : agent[a].pc = "idle"
  BY DEF OutreachInit, Saved, Idle
<1>2. \A p \in Leads : lead[p].step = 0 /\ lead[p].status = "new" /\ lead[p].due = "none"
  BY DEF OutreachInit
<1>3. \A s \in Steps : ~(s < 0)
  BY OutreachAssumption DEF Steps
<1>4. Kept
  BY <1>1, <1>2, <1>3 DEF Kept, Behind, Unscheduled, Scheduling, NewFresh, DoneDrafted, SomethingAhead
<1>5. Planning /\ OptOut /\ Reachable
  BY <1>1 DEF Planning, Plans, OptOut, Reachable
<1> QED
  BY <1>4, <1>5, TouchInit DEF ForgottenInv

\* What is ahead is not done, and somebody sees to what was sent.
LEMMA ForgottenImplies == ForgottenInv => NeverForgotten
<1> SUFFICES ASSUME ForgottenInv, NEW p \in Leads \ dropped, lead[p].status = "active" PROVE Ahead(p)
  BY DEF NeverForgotten
<1>1. OutreachTyped /\ OneOpen /\ Kept /\ Planning
  BY DEF ForgottenInv, TouchInv
<1>2. Something(p)
  BY <1>1 DEF Kept, SomethingAhead
<1>3. CASE \E k \in jobs : k.lead = p /\ k.step = lead[p].step /\ ~Drafted(k)
  <2>1. PICK k \in jobs : k.lead = p /\ k.step = lead[p].step /\ ~Drafted(k)
    BY <1>3
  <2>2. k \notin ended
    BY <1>1, <2>1 DEF Kept, DoneDrafted
  <2> QED
    BY <2>1, <2>2 DEF Ahead
<1>4. CASE \E i \in Saved : /\ mail[i].key.lead = p /\ mail[i].key.step = lead[p].step
                            /\ mail[i].status # "off"
  <2>1. PICK i \in Saved : /\ mail[i].key.lead = p /\ mail[i].key.step = lead[p].step
                           /\ mail[i].status # "off"
    BY <1>4
  <2>2. CASE mail[i].status = "sent"
    <3>1. PICK a \in Agents : Plans(a, i)
      BY <1>1, <2>1, <2>2 DEF Planning
    <3> QED
      BY <2>1, <3>1 DEF Ahead, Plans
  <2>3. CASE mail[i].status # "sent"
    <3>1. mail[i].status \in Open \union {"sending", "failed"} /\ i \in MailsOf(p)
      BY <1>1, <2>1, <2>3 DEF OutreachTyped, OutreachTypeOK, MailRow, MailsOf
    <3> QED
      BY <2>1, <3>1 DEF Ahead
  <2> QED
    BY <2>2, <2>3
<1> QED
  BY <1>2, <1>3, <1>4 DEF Something, Ahead

\* No active prospect is forgotten: through reruns, redrafts, early returns and
\* crashes something is always ahead of it, unless a worker died before it planned
\* the next touch or a reviewer sent its email to somebody who opted out; if the
\* sweep waits for those who still send.
THEOREM OutreachForgetsNobody == ~Late => (OutreachSpec => []NeverForgotten)
<1> SUFFICES ASSUME ~Late PROVE OutreachSpec => []NeverForgotten
  OBVIOUS
<1>1. ForgottenInv /\ [OutreachNext]_outreachVars => ForgottenInv'
  BY ForgottenStep
<1> QED
  BY <1>1, ForgottenInit, ForgottenImplies, PTL DEF OutreachSpec

-----------------------------------------------------------------------------
(* The three together.                                                     *)

\* A step of one part is a step of it, and leaves the other two as they are.
LEMMA ScheduledSteps ==
  [ScheduledNext]_allVars =>
    [Next]_vars /\ [MarketNext]_marketVars /\ [OutreachNext]_outreachVars
<1>1. CASE InJobs(Next)
  BY <1>1 DEF InJobs
<1>2. CASE InMarket(MarketNext)
  BY <1>2 DEF InMarket
<1>3. CASE InOutreach(OutreachNext)
  BY <1>3 DEF InOutreach
<1>4. CASE UNCHANGED allVars
  BY <1>4 DEF allVars
<1> QED
  BY <1>1, <1>2, <1>3, <1>4 DEF ScheduledNext

\* Whatever timers set off is a behaviour of the job queue, of the market and of the
\* outreach sequence, so that every theorem about one of them is one about the three.
THEOREM ScheduledParts == ScheduledSpec => Spec /\ MarketSpec /\ OutreachSpec
<1>1. ScheduledInit => Init /\ MarketInit /\ OutreachInit
  BY DEF ScheduledInit
<1> QED
  BY <1>1, ScheduledSteps, PTL DEF ScheduledSpec, Spec, MarketSpec, OutreachSpec

\* The rows of jobs, tasks and prospects, and what ticks, requests and invocations
\* hold of them, keep their types, batches that outlast their lease included.
THEOREM ScheduledTypes == ScheduledSpec => []ScheduledTypeOK
<1>1. MarketTyped /\ OutreachTyped /\ TypeOK => ScheduledTypeOK
  BY DEF MarketTyped, OutreachTyped, ScheduledTypeOK
<1> QED
  BY <1>1, ScheduledParts, QueueTypes, MarketTypes, OutreachTypes, PTL

\* What the composition promises, for any number of ticks, tasks and prospects, while
\* batches end within their lease, edits of a task do not overlap its other writes,
\* and the sweep leaves alone what somebody still sends: jobs are handed out as from a
\* locked table, who is hired is accepted, kept and credited once, and each prospect
\* gets its touches once, in order, to an end that stays one.
THEOREM ScheduledSafe ==
  ASSUME ~MaySlow, ~EditsOverlap, ~Late
  PROVE  ScheduledSpec =>
           /\ ActsLocked /\ HireKept /\ EndsForGood
           /\ [](OneHolder /\ AcceptedIsHired /\ CreditedOnce /\ TouchesInOrder /\ NeverForgotten)
<1>1. Spec => ActsLocked /\ []OneHolder
  BY QueueActsLocked, JobsHaveOneHolder, PTL
<1>2. MarketSpec => HireKept /\ []AcceptedIsHired /\ []CreditedOnce
  BY MarketHireKept, MarketAccepted, MarketCreditedOnce, PTL
<1>3. OutreachSpec => EndsForGood /\ []TouchesInOrder /\ []NeverForgotten
  BY OutreachEndsForGood, OutreachTouches, OutreachForgetsNobody, PTL
<1> QED
  BY <1>1, <1>2, <1>3, ScheduledParts, PTL
=============================================================================

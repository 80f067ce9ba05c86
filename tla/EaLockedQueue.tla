---------------------------- MODULE EaLockedQueue ----------------------------
(***************************************************************************)
(* What the job queue promises the ticks that share it: to behave like a   *)
(* table whose rows are locked while they are looked at. A job is taken in *)
(* one step, by a tick that nobody else runs it under; only that tick says *)
(* what came of it; a job is given up only when its attempts are used up.  *)
(***************************************************************************)
EXTENDS Integers

CONSTANTS
  Jobs,
  Workers,
  MaxAttempts   \* ea_job.max_attempts

VARIABLES
  state,   \* state[j]: absent, queued, running, done or dead
  by,      \* by[j]: the tick that runs j, or nobody
  tries    \* tries[j]: the attempts of j that count

vars == <<state, by, tries>>

Init ==
  /\ state = [j \in Jobs |-> "absent"]
  /\ by = [j \in Jobs |-> {}]
  /\ tries = [j \in Jobs |-> 0]

Becomes(j, s) == state' = [state EXCEPT ![j] = s]

Enqueue(j) == state[j] = "absent" /\ Becomes(j, "queued") /\ UNCHANGED <<by, tries>>

\* A job that waits, or one whose tick is gone.
Take(j, w) ==
  /\ state[j] \in {"queued", "running"} /\ by[j] = {} /\ tries[j] < MaxAttempts
  /\ Becomes(j, "running")
  /\ by' = [by EXCEPT ![j] = {w}]
  /\ tries' = [tries EXCEPT ![j] = @ + 1]

\* Its ticks died too many times.
Bury(j) ==
  /\ state[j] = "running" /\ by[j] = {} /\ tries[j] = MaxAttempts
  /\ Becomes(j, "dead") /\ UNCHANGED <<by, tries>>

\* The tick that runs j says what came of it.
Settle(j, w) ==
  /\ state[j] = "running" /\ by[j] = {w}
  /\ by' = [by EXCEPT ![j] = {}]
  /\ \/ Becomes(j, "done") /\ UNCHANGED tries
     \/ Becomes(j, IF tries[j] = MaxAttempts THEN "dead" ELSE "queued") /\ UNCHANGED tries
     \/ Becomes(j, "queued") /\ tries' = [tries EXCEPT ![j] = @ - 1]

\* A tick dies.
Leave(w) == by' = [j \in Jobs |-> by[j] \ {w}] /\ UNCHANGED <<state, tries>>

\* An admin puts a dead job back.
Retry(j) ==
  /\ state[j] = "dead"
  /\ Becomes(j, "queued") /\ tries' = [tries EXCEPT ![j] = 0] /\ UNCHANGED by

Next ==
  \/ \E j \in Jobs : Enqueue(j) \/ Bury(j) \/ Retry(j)
  \/ \E w \in Workers : Leave(w) \/ \E j \in Jobs : Take(j, w) \/ Settle(j, w)

Spec == Init /\ [][Next]_vars
=============================================================================

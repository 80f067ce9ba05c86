------------------------------ MODULE EaOutreach ------------------------------
(***************************************************************************)
(* The outreach sequence of the email agent: a prospect is started, its    *)
(* first email is drafted by the AI, approved by a person and sent, and    *)
(* follow-ups come after a gap of days, until it answers, opts out, is     *)
(* stopped, or has had them all (worker, pipeline, send, admin, approval   *)
(* and ingest services).                                                   *)
(*                                                                         *)
(* EaSendPath has the sending of one email in detail; here a send is its   *)
(* claim, its outcome, the record and the step of the sequence, and what   *)
(* counts is how jobs, drafts, emails and the prospect's row keep pace.    *)
(***************************************************************************)
EXTENDS Naturals, FiniteSets

CONSTANTS
  Leads,          \* rows of ea_prospect
  MaxFollowUps,   \* settings.max_follow_ups
  MaxMails,       \* bound: emails drafted in all
  Agents,         \* invocations of the worker and of its sweep, at a time
  Late,           \* the sweep may take up an email that somebody still works on
  MaxLosses       \* bound: crashes, and reruns of a job that is still running

ASSUME OutreachAssumption ==
  /\ MaxFollowUps \in Nat /\ MaxMails \in Nat /\ MaxLosses \in Nat
  /\ Late \in BOOLEAN

VARIABLES
  lead,       \* status, step and next_touch_at of each prospect
  mail,       \* the outreach emails, by id; `else`: a reviewer changed the recipient
  jobs,       \* draft_outreach jobs ever queued, by their draft key
  ended,      \* those of them that are done
  agent,      \* the locals of each invocation
  optedOut,   \* suppressed addresses: a prospect's own, or "else"
  arrived,    \* emails the provider took, which the sweep can find
  losses,     \* crashes and reruns, for the bound
  dropped     \* history: prospects whose next step was lost

outreachVars == <<lead, mail, jobs, ended, agent, optedOut, arrived, losses, dropped>>

MailIds == 1..MaxMails
Steps == 0..MaxFollowUps
Open == {"waiting", "approved"}    \* waiting: draft or pending_approval
Idle == [pc |-> "idle"]

\* draft_key, which is also the key of the job: the first draft of a step, or the
\* one that replaces email `after`.
Keys == [lead: Leads, step: Steps, after: 0..MaxMails]
Saved == DOMAIN mail

OutreachInit ==
  /\ lead = [p \in Leads |-> [status |-> "new", step |-> 0, due |-> "none"]]
  /\ mail = [i \in {} |-> 0]
  /\ jobs = {} /\ ended = {}
  /\ agent = [a \in Agents |-> Idle]
  /\ optedOut = {} /\ arrived = {} /\ losses = 0 /\ dropped = {}

Rows == <<lead, mail>>
Queue == <<jobs, ended>>
Outside == <<optedOut, arrived>>
Told == <<losses, dropped>>

\* The unsent emails in ids are cancelled.
CancelMails(ids) ==
  [i \in Saved |-> IF i \in ids /\ mail[i].status \in Open
                   THEN [mail[i] EXCEPT !.status = "off"] ELSE mail[i]]

MailsOf(p) == {i \in Saved : mail[i].key.lead = p}

Ended(p, status) == [lead EXCEPT ![p].status = status, ![p].due = "none"]

-----------------------------------------------------------------------------
(* The worker: scheduling and drafting.                                    *)

\* The prospects that are due are read, and then taken one by one.
ReadDue(a, p) ==
  /\ agent[a] = Idle
  /\ lead[p].status = "active" /\ lead[p].due = "now"
  /\ agent' = [agent EXCEPT ![a] = [pc |-> "due", lead |-> p, step |-> lead[p].step]]
  /\ UNCHANGED <<Rows, Queue, Outside, Told>>

IsDue(p) == lead[p].status = "active" /\ lead[p].due # "none"

\* One transaction: next_touch_at is cleared and the job queued, unless it was.
Schedule(a) ==
  LET p == agent[a].lead
  IN /\ agent[a].pc = "due"
     /\ IF IsDue(p)
        THEN /\ lead' = [lead EXCEPT ![p].due = "none"]
             /\ jobs' = jobs \union {[lead |-> p, step |-> agent[a].step, after |-> 0]}
        ELSE UNCHANGED <<lead, jobs>>
     /\ agent' = [agent EXCEPT ![a] = Idle]
     /\ UNCHANGED <<mail, ended, Outside, Told>>

Drafted(k) == \E i \in Saved : mail[i].key = k
Drafting(k) == \E a \in Agents : agent[a].pc = "draft" /\ agent[a].key = k

Wanted(k) ==
  /\ ~Drafted(k)
  /\ lead[k.lead].status = "active" /\ lead[k.lead].step = k.step
  /\ k.lead \notin optedOut

\* The reads and early returns of draftOutreach; then the AI is asked. A job whose
\* lease ran out is run while it still runs.
BeginDraft(a, k) ==
  /\ agent[a] = Idle /\ k \in jobs \ ended
  /\ IF Wanted(k)
     THEN /\ agent' = [agent EXCEPT ![a] = [pc |-> "draft", key |-> k]]
          /\ Drafting(k) => losses < MaxLosses
          /\ losses' = IF Drafting(k) THEN losses + 1 ELSE losses
          /\ UNCHANGED ended
     ELSE /\ ended' = ended \union {k}
          /\ UNCHANGED <<agent, losses>>
  /\ UNCHANGED <<Rows, jobs, Outside, dropped>>

\* The job is done after the draft was written, unless the worker dies first.
EndJob(a) == ended' \in {ended, ended \union {agent[a].key}}

\* Mutant of SavedMail: the draft key is not unique.
SavedMailAgain(k) ==
  [i \in Saved \union {Cardinality(Saved) + 1} |->
     IF i \in Saved THEN mail[i] ELSE [key |-> k, status |-> "waiting", else |-> FALSE]]

\* INSERT IGNORE on the draft key; the prospect is not looked at again.
SavedMail(k) ==
  IF Drafted(k) THEN mail
  ELSE [i \in Saved \union {Cardinality(Saved) + 1} |->
          IF i \in Saved THEN mail[i] ELSE [key |-> k, status |-> "waiting", else |-> FALSE]]

SaveDraft(a) ==
  /\ agent[a].pc = "draft" /\ Cardinality(Saved) < MaxMails
  /\ mail' = SavedMail(agent[a].key)
  /\ EndJob(a) /\ agent' = [agent EXCEPT ![a] = Idle]
  /\ UNCHANGED <<lead, jobs, Outside, Told>>

\* The AI declined, or failed twice: the prospect is stopped, whatever it became.
RefuseDraft(a) ==
  /\ agent[a].pc = "draft"
  /\ lead' = [lead EXCEPT ![agent[a].key.lead].status = "stopped"]
  /\ EndJob(a) /\ agent' = [agent EXCEPT ![a] = Idle]
  /\ UNCHANGED <<mail, jobs, Outside, Told>>

\* The budget is used up, or the call fails: the job is run again later.
PutOff(a) ==
  /\ agent[a].pc = "draft" /\ agent' = [agent EXCEPT ![a] = Idle]
  /\ UNCHANGED <<Rows, Queue, Outside, Told>>

-----------------------------------------------------------------------------
(* The worker: sending.                                                    *)

AddressOf(i) == IF mail[i].else THEN "else" ELSE mail[i].key.lead

\* The checks of sendApproved: a suppressed recipient or an ended sequence cancels.
CheckMail(a, i) ==
  /\ agent[a] = Idle /\ i \in Saved /\ mail[i].status = "approved"
  /\ IF AddressOf(i) \notin optedOut /\ lead[mail[i].key.lead].status = "active"
     THEN /\ agent' = [agent EXCEPT ![a] = [pc |-> "claim", mail |-> i]]
          /\ UNCHANGED mail
     ELSE /\ mail' = CancelMails({i}) /\ UNCHANGED agent
  /\ UNCHANGED <<lead, Queue, Outside, Told>>

ClaimMail(a) ==
  LET i == agent[a].mail
      won == mail[i].status = "approved"
  IN /\ agent[a].pc = "claim"
     /\ mail' = IF won THEN [mail EXCEPT ![i].status = "sending"] ELSE mail
     /\ agent' = [agent EXCEPT ![a] = IF won THEN [@ EXCEPT !.pc = "send"] ELSE Idle]
     /\ UNCHANGED <<lead, Queue, Outside, Told>>

IfSending(i, status) ==
  [mail EXCEPT ![i].status = IF @ = "sending" THEN status ELSE @]

\* The provider takes the message and says so.
Accepted(a) ==
  /\ agent[a].pc = "send"
  /\ agent' = [agent EXCEPT ![a].pc = "record"]
  /\ arrived' = arrived \union {agent[a].mail}
  /\ UNCHANGED <<Rows, Queue, optedOut, Told>>

\* The provider refuses, or nobody knows whether it took the message.
Refused(a) ==
  /\ agent[a].pc = "send"
  /\ mail' = IfSending(agent[a].mail, "failed")
  /\ agent' = [agent EXCEPT ![a] = Idle]
  /\ arrived' \in {arrived, arrived \union {agent[a].mail}}
  /\ UNCHANGED <<lead, Queue, optedOut, Told>>

\* recordSent, for the sender and for the sweep: the sequence goes on whether or
\* not the UPDATE found the row in sending. Or it gives up after three attempts.
RecordSent(a) ==
  /\ agent[a].pc = "record"
  /\ \/ /\ mail' = IfSending(agent[a].mail, "sent")
        /\ agent' = [agent EXCEPT ![a].pc = "advance"]
     \/ agent' = [agent EXCEPT ![a] = Idle] /\ UNCHANGED mail
  /\ UNCHANGED <<lead, Queue, Outside, Told>>

\* Mutant of Advanced: the prospect is not asked whether it is still active.
AdvancedAnyhow(p, s) ==
  [lead EXCEPT ![p] = IF s < MaxFollowUps
                      THEN [status |-> "active", step |-> s + 1, due |-> "later"]
                      ELSE [status |-> "completed", step |-> s + 1, due |-> "none"]]

Advanced(p, s) ==
  IF lead[p].status # "active" THEN lead
  ELSE [lead EXCEPT ![p] = IF s < MaxFollowUps
                           THEN [status |-> "active", step |-> s + 1, due |-> "later"]
                           ELSE [status |-> "completed", step |-> s + 1, due |-> "none"]]

AdvanceSequence(a) ==
  LET k == mail[agent[a].mail].key
  IN /\ agent[a].pc = "advance"
     /\ lead' = Advanced(k.lead, k.step)
     /\ agent' = [agent EXCEPT ![a] = Idle]
     /\ UNCHANGED <<mail, Queue, Outside, Told>>

Stuck(i) ==
  /\ i \in Saved /\ mail[i].status = "sending"
  /\ Late \/ \A a \in Agents : agent[a].pc \in {"send", "record"} => agent[a].mail # i

\* The sweep finds the email in the mailbox, or fails it: it is not there, or the
\* mailbox cannot be asked.
SweepFound(a, i) ==
  /\ agent[a] = Idle /\ Stuck(i) /\ i \in arrived
  /\ agent' = [agent EXCEPT ![a] = [pc |-> "record", mail |-> i]]
  /\ UNCHANGED <<Rows, Queue, Outside, Told>>

SweepFail(i) ==
  /\ Stuck(i)
  /\ mail' = IfSending(i, "failed")
  /\ UNCHANGED <<lead, Queue, agent, Outside, Told>>

\* The process dies, or the UPDATE of the sequence fails, which is only logged:
\* the touch is recorded and the next one never planned.
Die(a) ==
  /\ agent[a] # Idle /\ losses < MaxLosses
  /\ losses' = losses + 1
  /\ dropped' = IF agent[a].pc = "advance"
                THEN dropped \union {mail[agent[a].mail].key.lead} ELSE dropped
  /\ agent' = [agent EXCEPT ![a] = Idle]
  /\ UNCHANGED <<Rows, Queue, Outside>>

\* A gap is days long: it is over after whoever was sending or scheduling is done.
GapEnds(p) ==
  /\ lead[p].due = "later"
  /\ \A a \in Agents : agent[a].pc \notin {"due", "record", "advance"}
  /\ lead' = [lead EXCEPT ![p].due = "now"]
  /\ UNCHANGED <<mail, Queue, agent, Outside, Told>>

-----------------------------------------------------------------------------
(* People: reviewers, administrators, and the prospect itself.             *)

\* startProspects
Start(p) ==
  /\ lead[p].status = "new"
  /\ lead' = [lead EXCEPT ![p].status = "active", ![p].due = "now"]
  /\ UNCHANGED <<mail, Queue, agent, Outside, Told>>

\* approve, which takes longer than the loop that schedules and blocks on a
\* suppressed recipient; edit, which voids an approval; reopenFailed.
Review(i) ==
  /\ i \in Saved
  /\ \/ /\ mail[i].status = "waiting" /\ AddressOf(i) \notin optedOut
        /\ \A a \in Agents : agent[a].pc # "due"
        /\ mail' = [mail EXCEPT ![i].status = "approved"]
     \/ /\ mail[i].status \in Open \union {"failed"}
        /\ mail' = [mail EXCEPT ![i].status = IF @ = "approved" THEN "waiting" ELSE @,
                                ![i].else = TRUE]
     \/ /\ mail[i].status = "failed" /\ mail' = [mail EXCEPT ![i].status = "waiting"]
  /\ UNCHANGED <<lead, Queue, agent, Outside, Told>>

\* An active prospect whose email a person turned down leaves the sequence.
StoppedOf(i) ==
  LET p == mail[i].key.lead
  IN IF lead[p].status = "active" THEN Ended(p, "stopped") ELSE lead

\* Mutant of RedraftJob: the redraft is queued under the key of the first draft.
RedraftFirst(i) == [mail[i].key EXCEPT !.after = 0]

RedraftJob(i) == [mail[i].key EXCEPT !.after = i]

Reject(i, redraft) ==
  /\ i \in Saved /\ mail[i].status = "waiting"
  /\ mail' = CancelMails({i})
  /\ IF redraft THEN jobs' = jobs \union {RedraftJob(i)} /\ UNCHANGED lead
                ELSE lead' = StoppedOf(i) /\ UNCHANGED jobs
  /\ UNCHANGED <<ended, agent, Outside, Told>>

Cancel(i) ==
  /\ i \in Saved /\ mail[i].status \in Open
  /\ mail' = CancelMails({i}) /\ lead' = StoppedOf(i)
  /\ UNCHANGED <<Queue, agent, Outside, Told>>

\* stopSequenceOnReply; setProspectStatus; and a reply that is classified as not
\* interested, which leaves the emails alone.
Leaves(p) ==
  /\ \/ lead[p].status = "active" /\ lead' = Ended(p, "replied")
                                  /\ mail' = CancelMails(MailsOf(p))
     \/ lead[p].status \in {"new", "active"} /\ lead' = Ended(p, "stopped")
                                             /\ mail' = CancelMails(MailsOf(p))
     \/ lead[p].status \in {"active", "replied"} /\ lead' = Ended(p, "stopped")
                                                 /\ UNCHANGED mail
  /\ UNCHANGED <<Queue, agent, Outside, Told>>

\* suppress: by the address, whoever it was written for. A prospect whose email was
\* redirected to it stays active, and nothing follows.
Suppress(x) ==
  /\ x \notin optedOut /\ optedOut' = optedOut \union {x}
  /\ lead' = IF x \in Leads /\ lead[x].status \in {"new", "active"}
             THEN Ended(x, "opted_out") ELSE lead
  /\ mail' = CancelMails({i \in Saved : AddressOf(i) = x})
  /\ UNCHANGED <<Queue, agent, arrived, losses>>
  /\ dropped' = dropped \union
       {mail[i].key.lead : i \in {j \in Saved : mail[j].else /\ x = "else" /\ mail[j].status \in Open}}

AgentStep(a) ==
  \/ \E p \in Leads : ReadDue(a, p)
  \/ Schedule(a)
  \/ \E k \in jobs : BeginDraft(a, k)
  \/ SaveDraft(a) \/ RefuseDraft(a) \/ PutOff(a)
  \/ \E i \in MailIds : CheckMail(a, i) \/ SweepFound(a, i)
  \/ ClaimMail(a) \/ Accepted(a) \/ Refused(a) \/ RecordSent(a) \/ AdvanceSequence(a)
  \/ Die(a)

OutreachNext ==
  \/ \E a \in Agents : AgentStep(a)
  \/ \E i \in MailIds : SweepFail(i) \/ Review(i) \/ Cancel(i)
  \/ \E i \in MailIds, redraft \in BOOLEAN : Reject(i, redraft)
  \/ \E p \in Leads : GapEnds(p) \/ Start(p) \/ Leaves(p)
  \/ \E x \in Leads \union {"else"} : Suppress(x)

OutreachSpec == OutreachInit /\ [][OutreachNext]_outreachVars

-----------------------------------------------------------------------------
(* Properties.                                                             *)

LeadRow ==
  [status: {"new", "active", "replied", "opted_out", "stopped", "completed"},
   step: 0..MaxFollowUps + 1, due: {"none", "later", "now"}]
MailRow ==
  [key: Keys, status: Open \union {"sending", "sent", "failed", "off"}, else: BOOLEAN]
Local ==
  {Idle} \union [pc: {"due"}, lead: Leads, step: Steps] \union [pc: {"draft"}, key: Keys]
    \union [pc: {"claim", "send", "record", "advance"}, mail: MailIds]

\* The rows, the jobs and the locals.
OutreachTypeOK ==
  /\ lead \in [Leads -> LeadRow]
  /\ Saved = 1..Cardinality(Saved) /\ Saved \subseteq MailIds
  /\ \A i \in Saved : mail[i] \in MailRow
  /\ ended \subseteq jobs /\ jobs \subseteq Keys
  /\ agent \in [Agents -> Local]
  /\ optedOut \subseteq Leads \union {"else"} /\ arrived \subseteq Saved
  /\ dropped \subseteq Leads /\ losses \in Nat

SentFor(p, s) == {i \in Saved : mail[i].status = "sent" /\ mail[i].key.lead = p /\ mail[i].key.step = s}

\* A prospect gets each touch once and in order, through reruns of jobs, redrafts,
\* sweeps and workers that come late: one email at most is sent for a step, and
\* none is written for a follow-up before the touch it follows was sent.
TouchesInOrder ==
  \A p \in Leads :
    /\ \A s \in Steps : Cardinality(SentFor(p, s)) <= 1
    /\ \A i \in MailsOf(p) : mail[i].key.step > 0 => SentFor(p, mail[i].key.step - 1) # {}

\* An active prospect always has something ahead of it: a next touch, a job that
\* drafts it (a dead one until it is retried), an email a person or the worker has
\* yet to settle, or a worker that plans the next one; unless a worker died on that
\* last step, or its email was redirected by a reviewer to somebody who opted out.
Ahead(p) ==
  \/ lead[p].due # "none"
  \/ \E k \in jobs \ ended : k.lead = p /\ k.step = lead[p].step
  \/ \E i \in MailsOf(p) : mail[i].key.step = lead[p].step
                           /\ mail[i].status \in Open \union {"sending", "failed"}
  \/ \E a \in Agents : agent[a].pc \in {"record", "advance"} /\ mail[agent[a].mail].key.lead = p
NeverForgotten ==
  \A p \in Leads \ dropped : lead[p].status = "active" => Ahead(p)

\* A sequence that ended stays ended, and its reason with it, but that a prospect
\* may be stopped after it answered or opted out: a worker that comes back late
\* never makes it active again.
EndsForGood ==
  [][\A p \in Leads : lead[p].status \notin {"new", "active"} =>
       lead'[p].status \in {lead[p].status, "stopped"}]_outreachVars
=============================================================================

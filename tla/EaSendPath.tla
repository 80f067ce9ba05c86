----------------------------- MODULE EaSendPath -----------------------------
(***************************************************************************)
(* From an AI draft to the provider: reviewers approve, edit, attach to,   *)
(* reject, cancel and reopen emails while overlapping workers run          *)
(* SendService.sendApproved and sweepStuck. Each query or transaction of   *)
(* the code is one step; a worker may crash between any two.               *)
(***************************************************************************)
EXTENDS EaEmailRow, FiniteSets, Sequences

CONSTANTS
  Workers,          \* worker processes, each running one job or sweep at a time
  Prospects,        \* rows of ea_prospect
  NoProspect,       \* prospect_id IS NULL
  ProspectOf,       \* Emails -> Prospects or NoProspect
  ProspectAddress,  \* Prospects -> Addresses
  NoEmail,          \* a worker between two jobs
  DailyLimit,       \* settings.daily_send_limit
  MayStall,         \* TRUE: a process may be frozen past the ten minute cutoff
  MaxApprovals,     \* bound: approvals given to one email
  MaxDays,          \* bound: calendar days
  MaxCrashes        \* bound: worker crashes

ASSUME SendAssumption ==
  /\ ProspectOf \in [Emails -> Prospects \union {NoProspect}]
  /\ ProspectAddress \in [Prospects -> Addresses]
  /\ Addresses # {} /\ Texts # {}
  /\ NoProspect \notin Prospects
  /\ NoUser \notin Users
  /\ NoHash \notin Hashes
  /\ NoEmail \notin Emails
  /\ DailyLimit \in Nat /\ MaxApprovals \in Nat /\ MaxDays \in Nat \ {0}
  /\ MaxCrashes \in Nat /\ MayStall \in BOOLEAN

VARIABLES
  email,      \* ea_email
  files,      \* ea_attachment: the files attached to each email
  admins,     \* active super admins
  late,       \* users disabled while a request of theirs was past humanActor
  suppressed, \* ea_suppression
  prospect,   \* ea_prospect.status
  paused,     \* settings.paused
  day,        \* today, in the configured timezone
  sentCount,  \* ea_daily_send
  checked,    \* the hash that an approval under way found shown and stored
  worker,     \* the local variables of each worker
  overdue,    \* emails whose sending_at is more than ten minutes old
  crashes,
  \* history, read by the properties only
  approvals,  \* how often each email was approved
  grant,      \* the hash pinned by the n-th approval of each email
  objected,   \* the opt-outs and replies that preceded each last approval
  claimed,    \* the approvals under which an attempt was claimed
  out,        \* the contents handed to the provider under that approval
  mailbox,    \* emails whose Message-ID is in the mailbox
  acked,      \* emails whose current attempt the provider acknowledged
  acceptedOn  \* messages the provider took, by the day of their slot

rowVars == <<email, files>>
people == <<admins, late, checked>>
outreach == <<suppressed, prospect>>
clock == <<paused, day, crashes>>
sendVars == <<sentCount, worker, overdue>>
ghosts == <<approvals, grant, objected, claimed, out, mailbox, acked, acceptedOn>>
vars == <<rowVars, people, outreach, clock, sendVars, ghosts>>

Nos == 1..MaxApprovals
Days == 1..MaxDays

Blank == InsertedRow("absent", CHOOSE a \in Addresses : TRUE,
                               CHOOSE t \in Texts : TRUE)

Idle == [pc |-> "idle", e |-> NoEmail, row |-> Blank, hash |-> NoHash,
         body |-> NoHash,
         day |-> 0, no |-> 0]

Init ==
  /\ email = [e \in Emails |-> Blank]
  /\ files = [e \in Emails |-> {}]
  /\ admins = Users /\ late = {} /\ suppressed = {}
  /\ prospect = [p \in Prospects |-> "new"]
  /\ paused = TRUE /\ day = 1 /\ crashes = 0
  /\ sentCount = [d \in Days |-> 0]
  /\ checked = [u \in Users |-> [e \in Emails |-> NoHash]]
  /\ worker = [w \in Workers |-> Idle]
  /\ overdue = {}
  /\ approvals = [e \in Emails |-> 0]
  /\ grant = [e \in Emails |-> [n \in Nos |-> NoHash]]
  /\ out = [e \in Emails |-> [n \in Nos |-> <<>>]]
  /\ claimed = {} /\ mailbox = {} /\ acked = {}
  /\ objected = [e \in Emails |-> {}]
  /\ acceptedOn = [d \in Days |-> 0]

-----------------------------------------------------------------------------
(* Drafts and reviewers. *)

\* saveDraft: the AI's draft enters as draft or pending_approval. The prospect
\* was active when drafting began and may have replied since.
SaveDraft(e) ==
  /\ email[e].status = "absent"
  /\ ProspectOf[e] # NoProspect => prospect[ProspectOf[e]] # "new"
  /\ \E st \in {"draft", "pending_approval"}, t \in Texts, a \in Addresses :
       /\ ProspectOf[e] # NoProspect => a = ProspectAddress[ProspectOf[e]]
       /\ email' = [email EXCEPT ![e] = InsertedRow(st, a, t)]
  /\ UNCHANGED <<files, people, outreach, clock, sendVars, ghosts>>

\* humanActor reads the role before the request's transaction begins. A user
\* disabled in between still acts, once; only the triggers look again.
HumanActor(u) == u \in admins \union late /\ late' = late \ {u}

\* approve() loads the row and compares it with what the reviewer's page shows;
\* the validator runs. No lock is held until the UPDATE below.
LoadForApproval(u, e) ==
  /\ HumanActor(u)
  /\ email[e].status \in {"draft", "pending_approval"}
  /\ email[e].to \notin suppressed /\ approvals[e] < MaxApprovals
  /\ checked' = [checked EXCEPT ![u][e] = RowHash(email[e])]
  /\ UNCHANGED <<rowVars, admins, outreach, clock, sendVars, ghosts>>

\* The status the row has when the UPDATE to approved runs.
Submitted(e, u) ==
  IF email[e].status = "draft"
  THEN EmailGuard(email[e], [email[e] EXCEPT !.status = "pending_approval"], u, admins)
  ELSE {email[e]}

\* Why e should not be sent: its recipient opted out, its prospect replied.
Objections(e) ==
  {why \in {"optOut", "reply"} :
     \/ why = "optOut" /\ email[e].to \in suppressed
     \/ /\ why = "reply" /\ ProspectOf[e] # NoProspect
        /\ prospect[ProspectOf[e]] = "replied"}

\* The UPDATE finds the row by id and status: the trigger pins whatever the
\* content is by now.
Approve(u, e) ==
  /\ checked[u][e] # NoHash
  /\ email[e].status \in {"draft", "pending_approval"}
  /\ approvals[e] < MaxApprovals
  /\ \E r1 \in Submitted(e, u) :
       \E r2 \in EmailGuard(r1, [r1 EXCEPT !.status = "approved"], u, admins) :
         /\ email' = [email EXCEPT ![e] = r2]
         /\ grant' = [grant EXCEPT ![e][approvals[e] + 1] = r2.approvedHash]
  /\ approvals' = [approvals EXCEPT ![e] = @ + 1]
  /\ checked' = [checked EXCEPT ![u][e] = NoHash]
  /\ objected' = [objected EXCEPT ![e] = Objections(e)]
  /\ UNCHANGED <<files, admins, late, outreach, clock, sendVars, claimed, out, mailbox,
                 acked, acceptedOn>>

\* Someone else acted on the email first, or the trigger raises.
ApproveConflict(u, e) ==
  /\ checked[u][e] # NoHash
  /\ email[e].status \notin {"draft", "pending_approval"} \/ u \notin admins
  /\ checked' = [checked EXCEPT ![u][e] = NoHash]
  /\ UNCHANGED <<rowVars, admins, late, outreach, clock, sendVars, ghosts>>

Edit(u, e, a, t) ==
  /\ HumanActor(u) /\ email[e].status # "absent"
  /\ \E r1 \in EmailGuard(email[e], [email[e] EXCEPT !.to = a, !.text = t], u, admins) :
       \E r2 \in IF email[e].status = "draft"
                 THEN EmailGuard(r1, [r1 EXCEPT !.status = "pending_approval"], u, admins)
                 ELSE {r1} :
         email' = [email EXCEPT ![e] = r2]
  /\ UNCHANGED <<files, admins, checked, outreach, clock, sendVars, ghosts>>

\* The AFTER trigger on ea_attachment writes the column from what its
\* statement sees, and that UPDATE passes through EmailGuard.
Synced(row, seen) == EmailGuard(row, [row EXCEPT !.hashes = seen], NoUser, admins)

AddAttachment(u, e, f) ==
  /\ HumanActor(u) /\ email[e].status # "absent" /\ f \notin files[e]
  /\ \E row \in Synced(email[e], files[e] \union {f}) :
       email' = [email EXCEPT ![e] = row]
  /\ files' = [files EXCEPT ![e] = @ \union {f}]
  /\ UNCHANGED <<admins, checked, outreach, clock, sendVars, ghosts>>

\* Two uploads whose transactions overlap: the second trigger waits for the
\* row lock of the first, then writes the aggregate of its older snapshot, in
\* which the first file is not yet visible.
AddOverlapping(u, e, f, g) ==
  /\ HumanActor(u) /\ email[e].status # "absent"
  /\ f # g /\ f \notin files[e] /\ g \notin files[e]
  /\ \E r1 \in Synced(email[e], files[e] \union {f}) :
       \E r2 \in Synced(r1, files[e] \union {g}) :
         email' = [email EXCEPT ![e] = r2]
  /\ files' = [files EXCEPT ![e] = @ \union {f, g}]
  /\ UNCHANGED <<admins, checked, outreach, clock, sendVars, ghosts>>

RemoveAttachment(u, e, f) ==
  /\ HumanActor(u) /\ f \in files[e]
  /\ \E row \in Synced(email[e], files[e] \ {f}) :
       email' = [email EXCEPT ![e] = row]
  /\ files' = [files EXCEPT ![e] = @ \ {f}]
  /\ UNCHANGED <<admins, checked, outreach, clock, sendVars, ghosts>>

\* An active prospect whose email a person turned down leaves the sequence.
StopProspectOf(e) ==
  [p \in Prospects |-> IF p = ProspectOf[e] /\ prospect[p] = "active"
                       THEN "stopped" ELSE prospect[p]]

Reject(u, e, redraft) ==
  /\ HumanActor(u) /\ email[e].status \in {"draft", "pending_approval"}
  /\ \E row \in EmailGuard(email[e], [email[e] EXCEPT !.status = "rejected"], u, admins) :
       email' = [email EXCEPT ![e] = row]
  /\ prospect' = IF redraft THEN prospect ELSE StopProspectOf(e)
  /\ UNCHANGED <<files, admins, checked, suppressed, clock, sendVars, ghosts>>

CancelEmail(u, e) ==
  /\ HumanActor(u) /\ email[e].status \in Unsent
  /\ \E row \in EmailGuard(email[e], [email[e] EXCEPT !.status = "cancelled"], u, admins) :
       email' = [email EXCEPT ![e] = row]
  /\ prospect' = StopProspectOf(e)
  /\ UNCHANGED <<files, admins, checked, suppressed, clock, sendVars, ghosts>>

ReopenFailed(u, e) ==
  /\ HumanActor(u) /\ email[e].status = "failed"
  /\ \E row \in EmailGuard(email[e], [email[e] EXCEPT !.status = "pending_approval"], u, admins) :
       email' = [email EXCEPT ![e] = row]
  /\ UNCHANGED <<files, admins, checked, outreach, clock, sendVars, ghosts>>

-----------------------------------------------------------------------------
(* Opt-outs, replies and the settings, each one transaction. *)

\* UPDATE ea_email SET status = 'cancelled' WHERE ... AND status IN (Unsent)
CancelUnsent(hit) ==
  [e \in Emails |-> IF email[e].status \in Unsent /\ e \in hit
                    THEN [email[e] EXCEPT !.status = "cancelled"] ELSE email[e]]

\* suppress(): from the unsubscribe link, an opt-out, a bounce or an admin.
Suppress(a) ==
  /\ suppressed' = suppressed \union {a}
  /\ prospect' = [p \in Prospects |->
       IF ProspectAddress[p] = a /\ prospect[p] \in {"new", "active"}
       THEN "stopped" ELSE prospect[p]]
  /\ email' = CancelUnsent({e \in Emails : email[e].to = a})
  /\ UNCHANGED <<files, people, clock, sendVars, ghosts>>

RemoveSuppression(a) ==
  /\ a \in suppressed
  /\ suppressed' = suppressed \ {a}
  /\ UNCHANGED <<rowVars, people, prospect, clock, sendVars, ghosts>>

\* startProspects
StartProspect(p) ==
  /\ prospect[p] = "new"
  /\ prospect' = [prospect EXCEPT ![p] = "active"]
  /\ UNCHANGED <<rowVars, people, suppressed, clock, sendVars, ghosts>>

\* The sequence of p ends and takes its unsent emails along.
EndSequence(p, status) ==
  /\ prospect' = [prospect EXCEPT ![p] = status]
  /\ email' = CancelUnsent({e \in Emails : ProspectOf[e] = p})
  /\ UNCHANGED <<files, people, suppressed, clock, sendVars, ghosts>>

\* stopSequenceOnReply: a reply was stored.
StopOnReply(p) == prospect[p] = "active" /\ EndSequence(p, "replied")

\* setProspectStatus: an admin stops or dismisses the prospect.
SetProspectStatus(p) == prospect[p] \in {"new", "active"} /\ EndSequence(p, "stopped")

\* applyClassification (not_interested) and a draft the model refused stop the
\* prospect and leave its emails as they are.
StopQuietly(p) ==
  /\ prospect[p] \notin {"new", "stopped"}
  /\ prospect' = [prospect EXCEPT ![p] = "stopped"]
  /\ UNCHANGED <<rowVars, people, suppressed, clock, sendVars, ghosts>>

SetPaused(b) ==
  /\ paused # b /\ paused' = b
  /\ UNCHANGED <<rowVars, people, outreach, day, crashes, sendVars, ghosts>>

\* A super admin is disabled, or enabled again.
SetAdmin(u) ==
  /\ IF u \in admins
     THEN admins' = admins \ {u} /\ late' \in {late, late \union {u}}
     ELSE admins' = admins \union {u} /\ late' = late
  /\ UNCHANGED <<rowVars, checked, outreach, clock, sendVars, ghosts>>

Midnight ==
  /\ day < MaxDays /\ day' = day + 1
  /\ UNCHANGED <<rowVars, people, outreach, paused, crashes, sendVars, ghosts>>

-----------------------------------------------------------------------------
(* sendApproved(emailId), run by worker w. Nothing holds a lock between two *)
(* of its queries: `row` and `hash` are what w read, not what is stored.    *)

Goto(w, pc) == worker' = [worker EXCEPT ![w].pc = pc]
Return(w) == worker' = [worker EXCEPT ![w] = Idle]
UnchangedBySend == UNCHANGED <<files, people, outreach, clock>>

\* A send job of e runs: its first approval enqueued one, and retries and
\* lapsed leases may run it again at any time. Settings are read first.
BeginSend(w, e) ==
  /\ worker[w].pc = "idle" /\ approvals[e] > 0 /\ ~paused
  /\ worker' = [worker EXCEPT ![w] = [Idle EXCEPT !.pc = "begun", !.e = e]]
  /\ UNCHANGED <<rowVars, people, outreach, clock, sentCount, overdue, ghosts>>

ReadEmail(w) ==
  LET e == worker[w].e
  IN  /\ worker[w].pc = "begun"
      /\ IF email[e].status = "approved"
         THEN worker' = [worker EXCEPT ![w].pc = "row", ![w].row = email[e]]
         ELSE Return(w)
      /\ UNCHANGED <<email, sentCount, overdue, ghosts>> /\ UnchangedBySend

\* Mutant of ActualHash: the trigger's column is trusted.
ColumnHash(row, attached) == RowHash(row)

\* The attachments are read after the row, and hashed from their bytes.
ActualHash(row, attached) == ContentHash(row.to, row.text, attached)

ReadAttachments(w) ==
  LET row  == worker[w].row
      attached == files[worker[w].e]
      hash == ActualHash(row, attached)
  IN  /\ worker[w].pc = "row"
      /\ worker' = [worker EXCEPT
           ![w].pc = IF hash = row.approvedHash THEN "hashed" ELSE "void",
           ![w].hash = hash,
           ![w].body = <<row.to, row.text, attached>>]
      /\ UNCHANGED <<email, sentCount, overdue, ghosts>> /\ UnchangedBySend

CheckApprover(w) ==
  /\ worker[w].pc = "hashed"
  /\ Goto(w, IF worker[w].row.approvedBy \in admins THEN "approver" ELSE "void")
  /\ UNCHANGED <<email, sentCount, overdue, ghosts>> /\ UnchangedBySend

CheckSuppressed(w) ==
  /\ worker[w].pc = "approver"
  /\ Goto(w, IF worker[w].row.to \in suppressed THEN "cancel" ELSE "address")
  /\ UNCHANGED <<email, sentCount, overdue, ghosts>> /\ UnchangedBySend

\* The prospect must still be active; then the day of the slot is computed.
CheckProspect(w) ==
  LET p == ProspectOf[worker[w].e]
  IN  /\ worker[w].pc = "address"
      /\ IF p = NoProspect \/ (p # NoProspect /\ prospect[p] = "active")
         THEN worker' = [worker EXCEPT ![w].pc = "ready", ![w].day = day]
         ELSE Goto(w, "cancel")
      /\ UNCHANGED <<email, sentCount, overdue, ghosts>> /\ UnchangedBySend

\* voidApproval and cancel: UPDATE ... WHERE status = 'approved'.
Withdraw(w) ==
  LET e == worker[w].e
      to == IF worker[w].pc = "void" THEN "pending_approval" ELSE "cancelled"
  IN  /\ worker[w].pc \in {"void", "cancel"}
      /\ IF email[e].status = "approved"
         THEN \E row \in EmailGuard(email[e], [email[e] EXCEPT !.status = to], NoUser, admins) :
                email' = [email EXCEPT ![e] = row]
         ELSE UNCHANGED email
      /\ Return(w)
      /\ UNCHANGED <<sentCount, overdue, ghosts>> /\ UnchangedBySend

\* Mutant of ClaimedRows: the claim does not ask for the status it read.
ClaimsAnyStatus(w) ==
  LET e == worker[w].e
  IN  IF email[e].approvedHash = worker[w].hash
      THEN EmailGuard(email[e], [email[e] EXCEPT !.status = "sending"], NoUser, admins)
      ELSE {}

\* What the claim's UPDATE stores: nothing when its WHERE finds no row or the
\* trigger raises.
ClaimedRows(w) ==
  LET e == worker[w].e
  IN  IF email[e].status = "approved" /\ email[e].approvedHash = worker[w].hash
      THEN EmailGuard(email[e], [email[e] EXCEPT !.status = "sending"], NoUser, admins)
      ELSE {}

\* One transaction: a slot under the cap and approved -> sending, or neither.
Claim(w) ==
  LET e == worker[w].e
      d == worker[w].day
  IN  /\ worker[w].pc = "ready"
      /\ \/ /\ sentCount[d] < DailyLimit
            /\ \E row \in ClaimedRows(w) : email' = [email EXCEPT ![e] = row]
            /\ sentCount' = [sentCount EXCEPT ![d] = @ + 1]
            /\ worker' = [worker EXCEPT ![w].pc = "claimed", ![w].no = approvals[e]]
            /\ overdue' = overdue \ {e}
            /\ acked' = acked \ {e}
            /\ claimed' = claimed \union {<<e, approvals[e]>>}
         \/ /\ sentCount[d] >= DailyLimit \/ ClaimedRows(w) = {}
            /\ Return(w)
            /\ UNCHANGED <<email, sentCount, overdue, acked, claimed>>
      /\ UNCHANGED <<approvals, grant, objected, out, mailbox, acceptedOn>>
      /\ UnchangedBySend

\* sender.send: Gmail takes the message, refuses it (4xx, or it could not be
\* built), or the answer is lost and the message may or may not be in Gmail.
Provider(w, answer, taken) ==
  LET e == worker[w].e
  IN  /\ worker[w].pc = "claimed"
      /\ answer \in {"accepted", "refused", "unknown"}
      /\ answer = "accepted" => taken
      /\ answer = "refused" => ~taken
      /\ Goto(w, answer)
      /\ acked' = IF answer = "accepted" THEN acked \union {e} ELSE acked
      /\ IF taken
         THEN /\ out' = [out EXCEPT ![e][worker[w].no] = Append(@, worker[w].body)]
              /\ mailbox' = mailbox \union {e}
              /\ acceptedOn' = [acceptedOn EXCEPT ![worker[w].day] = @ + 1]
         ELSE UNCHANGED <<out, mailbox, acceptedOn>>
      /\ UNCHANGED <<email, sentCount, overdue, approvals, grant, objected, claimed>>
      /\ UnchangedBySend

\* UPDATE ... WHERE status = 'sending': no row, no change.
Settled(e, to) ==
  IF email[e].status = "sending"
  THEN EmailGuard(email[e], [email[e] EXCEPT !.status = to], NoUser, admins)
  ELSE {email[e]}

Settle(e, to) == \E row \in Settled(e, to) : email' = [email EXCEPT ![e] = row]

\* recordSent and advanceSequence: the follow-ups may be over.
RecordSent(w) ==
  LET e == worker[w].e
  IN  /\ worker[w].pc \in {"accepted", "found"}
      /\ Settle(e, "sent")
      /\ prospect' \in {prospect, StopProspectOf(e)}
      /\ Return(w)
      /\ overdue' = overdue \ {e}
      /\ UNCHANGED <<files, people, suppressed, clock, sentCount, ghosts>>

\* The database is away for all three attempts: recordSent gives up.
RecordSentFails(w) ==
  /\ worker[w].pc \in {"accepted", "found"}
  /\ Return(w)
  /\ UNCHANGED <<email, sentCount, overdue, ghosts>> /\ UnchangedBySend

\* Mutant of Refused: an unknown outcome gives its slot back too.
RefusedOrUnknown(w) == worker[w].pc \in {"refused", "unknown"}

\* A definite refusal: nothing was sent.
Refused(w) == worker[w].pc = "refused"

\* markFailed: the slot comes back only for a definite refusal.
MarkFailed(w) ==
  LET e == worker[w].e
      d == worker[w].day
  IN  /\ worker[w].pc \in {"refused", "unknown"}
      /\ Settle(e, "failed")
      /\ sentCount' = IF Refused(w) /\ sentCount[d] > 0
                      THEN [sentCount EXCEPT ![d] = @ - 1] ELSE sentCount
      /\ Return(w)
      /\ overdue' = overdue \ {e}
      /\ UNCHANGED ghosts /\ UnchangedBySend

\* markFailed throws: the job fails, the email stays in `sending`.
MarkFailedFails(w) ==
  /\ worker[w].pc \in {"refused", "unknown"}
  /\ Return(w)
  /\ UNCHANGED <<email, sentCount, overdue, ghosts>> /\ UnchangedBySend

\* The process dies, losing its local variables.
Crash(w) ==
  /\ worker[w].pc # "idle" /\ crashes < MaxCrashes
  /\ crashes' = crashes + 1
  /\ Return(w)
  /\ UNCHANGED <<rowVars, people, outreach, paused, day, sentCount, overdue, ghosts>>

-----------------------------------------------------------------------------
(* sweepStuck: a worker settles emails left in `sending`.                  *)

InFlight(w, e) == worker[w].e = e /\ worker[w].pc \in {"claimed", "accepted", "refused", "unknown"}

\* Ten minutes pass. The provider call times out after one, so the claimer is
\* gone unless its process was frozen.
GrowOld(e) ==
  /\ email[e].status = "sending" /\ e \notin overdue
  /\ MayStall \/ \A w \in Workers : ~InFlight(w, e)
  /\ overdue' = overdue \union {e}
  /\ UNCHANGED <<rowVars, people, outreach, clock, sentCount, worker, ghosts>>

\* Mutant of Found: a reader that does not answer counts as found.
FoundUnlessDenied(e, answered) == answered => e \in mailbox

Found(e, answered) == answered /\ e \in mailbox

\* The sweep reads the list of stuck emails and looks each up in the mailbox.
\* A reader that is not configured, or that throws, counts as not found.
SweepLook(w, e, answered) ==
  /\ worker[w].pc = "idle" /\ e \in overdue /\ email[e].status = "sending"
  /\ worker' = [worker EXCEPT ![w] =
       [Idle EXCEPT !.pc = IF Found(e, answered) THEN "found" ELSE "missing",
                    !.e = e]]
  /\ UNCHANGED <<email, sentCount, overdue, ghosts>> /\ UnchangedBySend

\* Mutant of SweepFail: the sweep returns a slot, of today.
SweepFailReturnsSlot(w) ==
  LET e == worker[w].e
  IN  /\ worker[w].pc = "missing"
      /\ Settle(e, "failed")
      /\ sentCount' = [sentCount EXCEPT ![day] = @ - 1]
      /\ Return(w)
      /\ overdue' = overdue \ {e}
      /\ UNCHANGED ghosts /\ UnchangedBySend

\* Mutant of SweepFail: an email that is not found is left for the next sweep.
SweepFailWaits(w) ==
  /\ worker[w].pc = "missing"
  /\ Return(w)
  /\ UNCHANGED <<email, overdue, sentCount, ghosts>> /\ UnchangedBySend

SweepFail(w) ==
  LET e == worker[w].e
  IN  /\ worker[w].pc = "missing"
      /\ Settle(e, "failed")
      /\ Return(w)
      /\ overdue' = overdue \ {e}
      /\ UNCHANGED <<sentCount, ghosts>> /\ UnchangedBySend

-----------------------------------------------------------------------------
Review(u, e) ==
  \/ LoadForApproval(u, e) \/ Approve(u, e) \/ ApproveConflict(u, e)
  \/ \E a \in Addresses, t \in Texts : Edit(u, e, a, t)
  \/ \E f \in Files : AddAttachment(u, e, f) \/ RemoveAttachment(u, e, f)
  \/ \E f, g \in Files : AddOverlapping(u, e, f, g)
  \/ \E redraft \in BOOLEAN : Reject(u, e, redraft)
  \/ CancelEmail(u, e) \/ ReopenFailed(u, e)

Environment ==
  \/ \E a \in Addresses : Suppress(a) \/ RemoveSuppression(a)
  \/ \E p \in Prospects : StartProspect(p) \/ StopOnReply(p)
                           \/ SetProspectStatus(p) \/ StopQuietly(p)
  \/ \E b \in BOOLEAN : SetPaused(b)
  \/ \E u \in Users : SetAdmin(u)
  \/ Midnight

\* One query or transaction of the job that worker w is running.
Progress(w) ==
  \/ ReadEmail(w) \/ ReadAttachments(w) \/ CheckApprover(w)
  \/ CheckSuppressed(w) \/ CheckProspect(w) \/ Withdraw(w) \/ Claim(w)
  \/ \E answer \in {"accepted", "refused", "unknown"}, taken \in BOOLEAN :
       Provider(w, answer, taken)
  \/ RecordSent(w) \/ RecordSentFails(w)
  \/ MarkFailed(w) \/ MarkFailedFails(w) \/ SweepFail(w)

Sweep(w, e) == \E answered \in BOOLEAN : SweepLook(w, e, answered)

Next ==
  \/ \E e \in Emails : SaveDraft(e) \/ GrowOld(e)
  \/ \E u \in Users, e \in Emails : Review(u, e)
  \/ Environment
  \/ \E w \in Workers, e \in Emails : BeginSend(w, e) \/ Sweep(w, e)
  \/ \E w \in Workers : Progress(w) \/ Crash(w)

Spec == Init /\ [][Next]_vars

(* Cron calls the tick every minute and every tick begins with the sweep;  *)
(* a job's queries return or throw; the database does not stay away for    *)
(* every bookkeeping attempt there will ever be.                           *)
FairSpec ==
  /\ Spec
  /\ \A e \in Emails : WF_vars(GrowOld(e)) /\ SF_vars(\E w \in Workers : Sweep(w, e))
  /\ \A w \in Workers : WF_vars(Progress(w)) /\ SF_vars(RecordSent(w))

-----------------------------------------------------------------------------
(* Properties.                                                             *)

Pcs == {"idle", "begun", "row", "hashed", "approver", "address", "ready",
        "claimed", "accepted", "refused", "unknown", "void", "cancel",
        "found", "missing"}

WorkerState ==
  [pc: Pcs, e: Emails \union {NoEmail}, row: EmailRow,
   hash: Hashes \union {NoHash}, body: Hashes \union {NoHash},
   day: Days \union {0}, no: Nos \union {0}]

\* A worker runs a job or a sweep of some email until it is idle again.
WorkersOK ==
  /\ worker \in [Workers -> WorkerState]
  /\ \A w \in Workers : worker[w].pc # "idle" => worker[w].e \in Emails

\* Every variable has its type: rows of ea_email, the worker's local variables
\* in sendApproved, the counters of ea_daily_send and the history.
TypeOK ==
  /\ email \in [Emails -> EmailRow]
  /\ files \in [Emails -> SUBSET Files]
  /\ admins \subseteq Users /\ late \subseteq Users /\ suppressed \subseteq Addresses
  /\ prospect \in [Prospects -> {"new", "active", "replied", "stopped"}]
  /\ paused \in BOOLEAN /\ day \in Days /\ crashes \in 0..MaxCrashes
  /\ sentCount \in [Days -> Nat]
  /\ checked \in [Users -> [Emails -> Hashes \union {NoHash}]]
  /\ WorkersOK
  /\ overdue \subseteq Emails
  /\ approvals \in [Emails -> 0..MaxApprovals]
  /\ grant \in [Emails -> [Nos -> Hashes \union {NoHash}]]
  /\ claimed \subseteq Emails \X Nos
  /\ out \in [Emails -> [Nos -> Seq(Hashes \union {NoHash})]]
  /\ mailbox \subseteq Emails /\ acked \subseteq Emails
  /\ objected \in [Emails -> SUBSET {"optOut", "reply"}]
  /\ acceptedOn \in [Days -> Nat]

\* Whatever overlapping workers, re-run jobs, crashes, sweeps and edits do, the
\* provider gets at most one message per approval, with the bytes approved.
OncePerApproval ==
  \A e \in Emails, n \in Nos : out[e][n] \in {<<>>, <<grant[e][n]>>}

\* The daily cap: the messages Gmail took on a day's slots never exceed the
\* count, nor the count the limit, though refusals give slots back and
\* unknown outcomes, crashes and midnight come in between.
WithinDailyLimit ==
  \A d \in Days : acceptedOn[d] <= sentCount[d] /\ sentCount[d] <= DailyLimit

\* An email shown as sent is in the mailbox: neither the sweep nor a late
\* worker records a message that never left.
SentWasAccepted == \A e \in Emails : email[e].status = "sent" => e \in mailbox

ClaimStep(e) == email[e].status = "approved" /\ email'[e].status = "sending"

\* An opt-out or a reply that is stored after the approval keeps the email from
\* being claimed, although the send path checks both before the claim and not
\* in it: suppress() and stopSequenceOnReply() cancel what is still unsent in
\* their own transactions. (One that preceded the UPDATE of the approval can be
\* missed, by the check of that approval and by a worker that looked before.)
ClaimRespectsOptOut ==
  [][\A e \in Emails : ClaimStep(e) => Objections(e) \subseteq objected[e]]_vars

ApproveStep(e) == email[e].status # "approved" /\ email'[e].status = "approved"

\* The approver is an active super admin when the approval is stored and still
\* is when it is claimed, though both roles were read in earlier transactions.
ApproverStands ==
  [][\A e \in Emails : ApproveStep(e) \/ ClaimStep(e)
       => email'[e].approvedBy \in admins]_vars

(* The state of each approval, seen as a ticket.                           *)
TicketOf(e, n) ==
  IF n > approvals[e] THEN "none"
  ELSE IF <<e, n>> \in claimed THEN IF out[e][n] = <<>> THEN "spent" ELSE "used"
  ELSE IF n = approvals[e] /\ email[e].status = "approved" THEN "open" ELSE "void"

Tickets == INSTANCE EaApprovalTickets WITH
  Nos <- Nos, Terms <- Hashes, NoTerms <- NoHash,
  ticket <- [e \in Emails |-> [n \in Nos |-> TicketOf(e, n)]],
  terms <- grant, out <- out

\* The send path keeps the promise of EaApprovalTickets: a withdrawn approval
\* never sends, a claimed one never reopens, and each sends at most once.
KeepsTickets == Tickets!Spec

\* approve(): what changed after the reviewer read it is refused, not approved.
\* Checked with an edit that commits between the check and the UPDATE.
ApprovedAsShown ==
  [][\A u \in Users, e \in Emails : ApproveStep(e) /\ email'[e].approvedBy = u
       => email'[e].approvedHash = checked[u][e]]_vars

\* EMAIL_AGENT.md: once Gmail accepts, bookkeeping errors can't mark the email
\* failed. Checked against what recordSent and the sweep do.
AcceptedNeverFailed ==
  [][\A e \in Emails : email[e].status = "sending" /\ email'[e].status = "failed"
       => e \notin acked]_vars

\* An email never stays in `sending`: its worker, or a sweep after a crash or a
\* failed bookkeeping, settles it.
SendingSettles ==
  \A e \in Emails : (email[e].status = "sending") ~> (email[e].status # "sending")
=============================================================================

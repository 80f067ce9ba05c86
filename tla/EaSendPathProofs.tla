-------------------------- MODULE EaSendPathProofs --------------------------
(***************************************************************************)
(* The send path, for any number of emails, workers, reviewers and         *)
(* crashes: its types; that each approval sends at most once, with what    *)
(* was approved; that no opted-out recipient is claimed, the approver      *)
(* still stands, `sent` means accepted and the daily limit holds; and that *)
(* EaSendPath implements EaApprovalTickets.                                *)
(***************************************************************************)
EXTENDS EaSendPath, FiniteSetTheorems, TLAPS

-----------------------------------------------------------------------------
(* What the trigger guarantees about the row it stores.                    *)

\* A stored row is a row of the table.
LEMMA GuardType ==
  ASSUME NEW old \in EmailRow, NEW new \in EmailRow, NEW A,
         NEW actor \in Users \union {NoUser},
         NEW row \in EmailGuard(old, new, actor, A)
  PROVE  row \in EmailRow
<1>1. row = GuardStores(old, new, actor)
  BY DEF EmailGuard
<1>2. StatusStored(old, new) \in Statuses
  BY DEF StatusStored, EmailRow, Statuses
<1>3. RowHash(new) \in Hashes
  BY DEF RowHash, ContentHash, Hashes, EmailRow
<1> QED
  BY <1>1, <1>2, <1>3 DEF GuardStores, EmailRow

\* An update that does not ask for the status approved leaves an approval as
\* it was or takes it away.
LEMMA GuardKeepsApproval ==
  ASSUME NEW old \in EmailRow, NEW new \in EmailRow, NEW A, NEW actor,
         NEW row \in EmailGuard(old, new, actor, A), row.status = "approved",
         old.status = "approved" \/ new.status # "approved"
  PROVE  old.status = "approved" /\ row.approvedHash = old.approvedHash
<1>1. row = GuardStores(old, new, actor) /\ GuardAllows(old, new, actor, A)
  BY DEF EmailGuard
<1>2. row.status = StatusStored(old, new)
  BY <1>1 DEF GuardStores, EmailRow
<1>3. old.status = "approved"
  BY <1>2 DEF StatusStored
<1>4. ~Approving(old, new) /\ ~Reopening(old, new)
  BY <1>2, <1>3 DEF Approving, Reopening
<1>5. new.approvedHash = old.approvedHash
  BY <1>1, <1>4 DEF GuardAllows
<1>6. row.approvedHash = new.approvedHash
  BY <1>1, <1>4 DEF GuardStores, EmailRow
<1> QED
  BY <1>3, <1>5, <1>6

\* The row written before any draft, and an idle worker, have their types.
LEMMA BlankType == Blank \in EmailRow /\ Idle \in WorkerState
<1>1. Blank \in EmailRow
  BY SendAssumption DEF Blank, InsertedRow, EmailRow, Statuses
<1> QED
  BY <1>1, SendAssumption DEF Idle, WorkerState, Pcs

LEMMA TypeInit == Init => TypeOK
<1> SUFFICES ASSUME Init PROVE TypeOK
  OBVIOUS
<1>1. 1 \in Days /\ 0 \in 0..MaxCrashes /\ 0 \in 0..MaxApprovals
  BY SendAssumption DEF Days
<1>2. worker \in [Workers -> WorkerState] /\ \A w \in Workers : worker[w].pc = "idle"
  BY BlankType DEF Init, Idle
<1>3. <<>> \in Seq(Hashes \union {NoHash})
  OBVIOUS
<1>4. checked \in [Users -> [Emails -> Hashes \union {NoHash}]]
  BY DEF Init
<1>5. grant \in [Emails -> [Nos -> Hashes \union {NoHash}]]
  BY DEF Init
<1>6. out \in [Emails -> [Nos -> Seq(Hashes \union {NoHash})]]
  BY <1>3 DEF Init
<1> QED
  BY <1>1, <1>2, <1>4, <1>5, <1>6, BlankType DEF Init, TypeOK, WorkersOK

-----------------------------------------------------------------------------
(* Every step preserves the types. *)

\* A row whose status alone is changed is a row.
LEMMA StatusType ==
  ASSUME NEW row \in EmailRow, NEW st \in Statuses
  PROVE  [row EXCEPT !.status = st] \in EmailRow
  BY DEF EmailRow

\* So is what the trigger stores of a new status, content or column.
LEMMA StatusStoreType ==
  ASSUME NEW old \in EmailRow, NEW st \in Statuses, NEW A,
         NEW actor \in Users \union {NoUser},
         NEW row \in EmailGuard(old, [old EXCEPT !.status = st], actor, A)
  PROVE  row \in EmailRow
  BY GuardType, StatusType

LEMMA EditType ==
  ASSUME NEW old \in EmailRow, NEW a \in Addresses, NEW t \in Texts
  PROVE  [old EXCEPT !.to = a, !.text = t] \in EmailRow
  BY DEF EmailRow

LEMMA SyncedType ==
  ASSUME NEW old \in EmailRow, NEW seen \in SUBSET Files, NEW row \in Synced(old, seen)
  PROVE  row \in EmailRow
<1>1. [old EXCEPT !.hashes = seen] \in EmailRow
  BY DEF EmailRow
<1> QED
  BY <1>1, GuardType DEF Synced

LEMMA CountType ==
  ASSUME NEW count \in [Days -> Nat], NEW d
  PROVE  [count EXCEPT ![d] = @ + 1] \in [Days -> Nat]
<1>1. CASE d \in Days
  <2>1. count[d] + 1 \in Nat
    BY <1>1
  <2> QED
    BY <1>1, <2>1
<1>2. CASE d \notin Days
  BY <1>2
<1> QED
  BY <1>1, <1>2

\* A message appended to what was handed over on one approval.
LEMMA OutType ==
  ASSUME NEW o \in [Emails -> [Nos -> Seq(Hashes \union {NoHash})]], NEW o2,
         NEW e \in Emails, NEW n, NEW h \in Hashes \union {NoHash},
         o2 = [o EXCEPT ![e][n] = Append(@, h)]
  PROVE  o2 \in [Emails -> [Nos -> Seq(Hashes \union {NoHash})]]
<1>1. [o[e] EXCEPT ![n] = Append(@, h)] \in [Nos -> Seq(Hashes \union {NoHash})]
  <2>1. CASE n \in Nos
    <3>1. o[e][n] \in Seq(Hashes \union {NoHash})
      BY <2>1
    <3>2. Append(o[e][n], h) \in Seq(Hashes \union {NoHash})
      BY <3>1
    <3> QED
      BY <2>1, <3>2
  <2>2. CASE n \notin Nos
    BY <2>2
  <2> QED
    BY <2>1, <2>2
<1>2. o2 = [o EXCEPT ![e] = [o[e] EXCEPT ![n] = Append(@, h)]]
  OBVIOUS
<1> QED
  BY <1>1, <1>2

LEMMA WorkersSame == WorkersOK /\ UNCHANGED worker => WorkersOK'
  BY DEF WorkersOK

\* The local variables of a worker that returns, or goes on to its next query.
LEMMA ReturnType ==
  ASSUME WorkersOK, NEW w \in Workers, Return(w)
  PROVE  WorkersOK'
  BY BlankType DEF WorkersOK, Return, Idle

LEMMA WorkerMoves ==
  ASSUME WorkersOK, NEW w \in Workers, NEW v \in WorkerState,
         v.pc # "idle" => v.e \in Emails, worker' = [worker EXCEPT ![w] = v]
  PROVE  WorkersOK'
  BY DEF WorkersOK

LEMMA GotoType ==
  ASSUME WorkersOK, NEW w \in Workers, worker[w].pc # "idle", NEW pc \in Pcs, Goto(w, pc)
  PROVE  WorkersOK'
<1>1. [worker[w] EXCEPT !.pc = pc] \in WorkerState
  BY DEF WorkersOK, WorkerState
<1>2. [worker[w] EXCEPT !.pc = pc].e \in Emails
  BY DEF WorkersOK, WorkerState
<1>3. worker' = [worker EXCEPT ![w] = [worker[w] EXCEPT !.pc = pc]]
  BY DEF Goto, WorkersOK
<1> QED
  BY <1>1, <1>2, <1>3, WorkerMoves

\* An approved email was approved at least once; only an approval says so.
Counted == \A e \in Emails : email[e].status = "approved" => approvals[e] \in Nos

LEMMA TypeStep == TypeOK /\ Counted /\ [Next]_vars => TypeOK'
<1> SUFFICES ASSUME TypeOK, Counted, [Next]_vars PROVE TypeOK'
  OBVIOUS
<1> USE WorkersSame DEF TypeOK, rowVars, people, outreach, clock, sendVars, ghosts
<1>1. ASSUME NEW e \in Emails, SaveDraft(e) PROVE TypeOK'
  BY <1>1, SendAssumption DEF SaveDraft, InsertedRow, EmailRow, Statuses
<1>2. ASSUME NEW e \in Emails, GrowOld(e) PROVE TypeOK'
  BY <1>2 DEF GrowOld
<1>3. ASSUME NEW u \in Users, NEW e \in Emails, Review(u, e) PROVE TypeOK'
  <2>1. CASE LoadForApproval(u, e) \/ ApproveConflict(u, e)
    <3>1. RowHash(email[e]) \in Hashes
      BY DEF RowHash, ContentHash, Hashes, EmailRow
    <3>2. ASSUME NEW h \in Hashes \union {NoHash}, checked' = [checked EXCEPT ![u][e] = h]
          PROVE  checked' \in [Users -> [Emails -> Hashes \union {NoHash}]]
      <4>1. [checked[u] EXCEPT ![e] = h] \in [Emails -> Hashes \union {NoHash}]
        OBVIOUS
      <4> QED
        BY <3>2, <4>1
    <3>3. checked' \in [Users -> [Emails -> Hashes \union {NoHash}]]
      <4>1. CASE LoadForApproval(u, e)
        BY <3>1, <3>2, <4>1 DEF LoadForApproval
      <4>2. CASE ApproveConflict(u, e)
        BY <3>2, <4>2 DEF ApproveConflict
      <4> QED
        BY <2>1, <4>1, <4>2
    <3> QED
      BY <2>1, <3>3 DEF LoadForApproval, ApproveConflict, HumanActor
  <2>2. CASE Approve(u, e)
    <3>1. PICK r1 \in Submitted(e, u) :
            \E r2 \in EmailGuard(r1, [r1 EXCEPT !.status = "approved"], u, admins) :
              /\ email' = [email EXCEPT ![e] = r2]
              /\ grant' = [grant EXCEPT ![e][approvals[e] + 1] = r2.approvedHash]
      BY <2>2 DEF Approve
    <3>2. r1 \in EmailRow
      <4>1. email[e] \in EmailRow /\ "pending_approval" \in Statuses
        BY DEF Statuses
      <4> QED
        BY <4>1, StatusStoreType DEF Submitted
    <3>3. PICK r2 \in EmailRow :
            /\ email' = [email EXCEPT ![e] = r2]
            /\ grant' = [grant EXCEPT ![e][approvals[e] + 1] = r2.approvedHash]
      <4>1. "approved" \in Statuses
        BY DEF Statuses
      <4> QED
        BY <3>1, <3>2, <4>1, StatusStoreType
    <3>4. email' \in [Emails -> EmailRow]
      BY <3>3
    <3>5. r2.approvedHash \in Hashes \union {NoHash}
      BY <3>3 DEF EmailRow
    <3>6. grant' \in [Emails -> [Nos -> Hashes \union {NoHash}]]
      BY <3>3, <3>5
    <3>7. approvals' \in [Emails -> 0..MaxApprovals]
      BY <2>2, SendAssumption DEF Approve
    <3>8. Objections(e) \in SUBSET {"optOut", "reply"}
      BY DEF Objections
    <3>9. objected' \in [Emails -> SUBSET {"optOut", "reply"}]
      BY <2>2, <3>8 DEF Approve
    <3>10. checked' \in [Users -> [Emails -> Hashes \union {NoHash}]]
      BY <2>2 DEF Approve
    <3> QED
      BY <2>2, <3>4, <3>6, <3>7, <3>9, <3>10 DEF Approve
  <2>3. ASSUME NEW a \in Addresses, NEW t \in Texts, Edit(u, e, a, t) PROVE TypeOK'
    <3>1. [email[e] EXCEPT !.to = a, !.text = t] \in EmailRow
      BY EditType
    <3>2. PICK r1 \in EmailGuard(email[e], [email[e] EXCEPT !.to = a, !.text = t], u, admins) :
            \E r2 \in IF email[e].status = "draft"
                      THEN EmailGuard(r1, [r1 EXCEPT !.status = "pending_approval"], u, admins)
                      ELSE {r1} :
              email' = [email EXCEPT ![e] = r2]
      BY <2>3 DEF Edit
    <3>3. r1 \in EmailRow
      BY <3>1, <3>2, GuardType
    <3>4. PICK r2 \in EmailRow : email' = [email EXCEPT ![e] = r2]
      <4>1. "pending_approval" \in Statuses
        BY DEF Statuses
      <4> QED
        BY <3>2, <3>3, <4>1, StatusStoreType
    <3> QED
      BY <2>3, <3>4 DEF Edit, HumanActor
  <2>4. ASSUME NEW f \in Files, AddAttachment(u, e, f) \/ RemoveAttachment(u, e, f) PROVE TypeOK'
    <3>2. CASE AddAttachment(u, e, f)
      <4>1. files[e] \union {f} \in SUBSET Files
        OBVIOUS
      <4>2. PICK row \in Synced(email[e], files[e] \union {f}) : email' = [email EXCEPT ![e] = row]
        BY <3>2 DEF AddAttachment
      <4>3. row \in EmailRow
        BY <4>1, <4>2, SyncedType
      <4> QED
        BY <3>2, <4>1, <4>2, <4>3 DEF AddAttachment, HumanActor
    <3>3. CASE RemoveAttachment(u, e, f)
      <4>1. files[e] \ {f} \in SUBSET Files
        OBVIOUS
      <4>2. PICK row \in Synced(email[e], files[e] \ {f}) : email' = [email EXCEPT ![e] = row]
        BY <3>3 DEF RemoveAttachment
      <4>3. row \in EmailRow
        BY <4>1, <4>2, SyncedType
      <4> QED
        BY <3>3, <4>1, <4>2, <4>3 DEF RemoveAttachment, HumanActor
    <3> QED
      BY <2>4, <3>2, <3>3
  <2>5. ASSUME NEW f \in Files, NEW g \in Files, AddOverlapping(u, e, f, g) PROVE TypeOK'
    <3>2. files[e] \union {f} \in SUBSET Files /\ files[e] \union {g} \in SUBSET Files
      OBVIOUS
    <3>3. PICK r1 \in Synced(email[e], files[e] \union {f}) :
            \E r2 \in Synced(r1, files[e] \union {g}) : email' = [email EXCEPT ![e] = r2]
      BY <2>5 DEF AddOverlapping
    <3>4. r1 \in EmailRow
      BY <3>2, <3>3, SyncedType
    <3>5. PICK r2 \in EmailRow : email' = [email EXCEPT ![e] = r2]
      BY <3>2, <3>3, <3>4, SyncedType
    <3> QED
      BY <2>5, <3>5 DEF AddOverlapping, HumanActor
  <2>6. ASSUME NEW st \in Statuses, NEW row \in EmailGuard(email[e], [email[e] EXCEPT !.status = st], u, admins)
        PROVE  row \in EmailRow
    BY <2>6, StatusStoreType
  <2>7. StopProspectOf(e) \in [Prospects -> {"new", "active", "replied", "stopped"}]
    BY DEF StopProspectOf
  <2>8. ASSUME NEW redraft \in BOOLEAN, Reject(u, e, redraft) PROVE TypeOK'
    BY <2>6, <2>7, <2>8 DEF Reject, HumanActor, Statuses
  <2>9. CASE CancelEmail(u, e)
    BY <2>6, <2>7, <2>9 DEF CancelEmail, HumanActor, Statuses
  <2>10. CASE ReopenFailed(u, e)
    BY <2>6, <2>10 DEF ReopenFailed, HumanActor, Statuses
  <2> QED
    BY <1>3, <2>1, <2>2, <2>3, <2>4, <2>5, <2>8, <2>9, <2>10 DEF Review
<1>4. ASSUME Environment PROVE TypeOK'
  <2>1. ASSUME NEW p \in Prospects, NEW st \in {"replied", "stopped"}, EndSequence(p, st) PROVE TypeOK'
    <3>1. CancelUnsent({e \in Emails : ProspectOf[e] = p}) \in [Emails -> EmailRow]
      BY StatusType DEF CancelUnsent, Statuses
    <3> QED
      BY <2>1, <3>1 DEF EndSequence
  <2>2. ASSUME NEW a \in Addresses, Suppress(a) PROVE TypeOK'
    <3>1. CancelUnsent({e \in Emails : email[e].to = a}) \in [Emails -> EmailRow]
      BY StatusType DEF CancelUnsent, Statuses
    <3> QED
      BY <2>2, <3>1 DEF Suppress
  <2>3. ASSUME NEW a \in Addresses, RemoveSuppression(a) PROVE TypeOK'
    BY <2>3 DEF RemoveSuppression
  <2>4. ASSUME NEW p \in Prospects, StartProspect(p) \/ StopQuietly(p) PROVE TypeOK'
    BY <2>4 DEF StartProspect, StopQuietly
  <2>5. ASSUME NEW b \in BOOLEAN, SetPaused(b) PROVE TypeOK'
    BY <2>5 DEF SetPaused
  <2>6. ASSUME NEW u \in Users, SetAdmin(u) PROVE TypeOK'
    BY <2>6 DEF SetAdmin
  <2>7. CASE Midnight
    <3>1. day' \in Days
      BY <2>7, SendAssumption DEF Midnight, Days
    <3> QED
      BY <2>7, <3>1 DEF Midnight
  <2> QED
    BY <1>4, <2>1, <2>2, <2>3, <2>4, <2>5, <2>6, <2>7
    DEF Environment, StopOnReply, SetProspectStatus
<1>5. ASSUME NEW w \in Workers, NEW e \in Emails, BeginSend(w, e) \/ Sweep(w, e) PROVE TypeOK'
  <2>1. PICK pc \in Pcs : worker' = [worker EXCEPT ![w] = [Idle EXCEPT !.pc = pc, !.e = e]]
    BY <1>5 DEF BeginSend, Sweep, SweepLook, Pcs
  <2>2. [Idle EXCEPT !.pc = pc, !.e = e] \in WorkerState /\ [Idle EXCEPT !.pc = pc, !.e = e].e = e
    BY BlankType DEF WorkerState, Idle
  <2>3. WorkersOK'
    BY <2>1, <2>2, WorkerMoves
  <2> QED
    BY <1>5, <2>3 DEF BeginSend, Sweep, SweepLook, UnchangedBySend
<1>6. ASSUME NEW w \in Workers, Progress(w) PROVE TypeOK'
  <2>1. CASE ReadEmail(w)
    <3>1. CASE Return(w)
      BY <2>1, <3>1, ReturnType DEF ReadEmail, UnchangedBySend
    <3>2. CASE worker' = [worker EXCEPT ![w].pc = "row", ![w].row = email[worker[w].e]]
      <4>1. worker[w].e \in Emails /\ worker[w] \in WorkerState
        BY <2>1 DEF ReadEmail, WorkersOK
      <4>2. [worker[w] EXCEPT !.pc = "row", !.row = email[worker[w].e]] \in WorkerState
        BY <4>1 DEF WorkerState, Pcs
      <4>3. [worker[w] EXCEPT !.pc = "row", !.row = email[worker[w].e]].e = worker[w].e
        BY <4>1 DEF WorkerState
      <4>4. worker' = [worker EXCEPT ![w] = [worker[w] EXCEPT !.pc = "row", !.row = email[worker[w].e]]]
        BY <3>2 DEF WorkersOK
      <4>5. WorkersOK'
        BY <4>1, <4>2, <4>3, <4>4, WorkerMoves
      <4> QED
        BY <2>1, <4>5 DEF ReadEmail, UnchangedBySend
    <3> QED
      BY <2>1, <3>1, <3>2 DEF ReadEmail
  <2>2. CASE ReadAttachments(w)
    <3> DEFINE v == worker[w]
               h == ActualHash(v.row, files[v.e])
               b == <<v.row.to, v.row.text, files[v.e]>>
               pc == IF h = v.row.approvedHash THEN "hashed" ELSE "void"
    <3>1. v \in WorkerState /\ v.e \in Emails
      BY <2>2 DEF ReadAttachments, WorkersOK
    <3>2. h \in Hashes /\ b \in Hashes
      BY <3>1 DEF ActualHash, ContentHash, Hashes, WorkerState, EmailRow
    <3>3. pc \in Pcs
      BY DEF Pcs
    <3>4. worker' = [worker EXCEPT ![w] = [v EXCEPT !.pc = pc, !.hash = h, !.body = b]]
      BY <2>2 DEF ReadAttachments, WorkersOK
    <3> HIDE DEF h, b, pc
    <3>5. [v EXCEPT !.pc = pc, !.hash = h, !.body = b] \in WorkerState
      BY <3>1, <3>2, <3>3 DEF WorkerState
    <3>6. [v EXCEPT !.pc = pc, !.hash = h, !.body = b].e = v.e
      BY <3>1 DEF WorkerState
    <3>7. WorkersOK'
      BY <3>1, <3>4, <3>5, <3>6, WorkerMoves
    <3> QED
      BY <2>2, <3>7 DEF ReadAttachments, UnchangedBySend
  <2>3. CASE CheckApprover(w) \/ CheckSuppressed(w)
    <3>1. PICK pc \in Pcs : Goto(w, pc)
      BY <2>3 DEF CheckApprover, CheckSuppressed, Pcs
    <3>2. WorkersOK'
      BY <2>3, <3>1, GotoType DEF CheckApprover, CheckSuppressed
    <3> QED
      BY <2>3, <3>2 DEF CheckApprover, CheckSuppressed, UnchangedBySend
  <2>4. CASE CheckProspect(w)
    <3>1. CASE Goto(w, "cancel")
      <4>1. WorkersOK'
        BY <2>4, <3>1, GotoType DEF CheckProspect, Pcs
      <4> QED
        BY <2>4, <4>1 DEF CheckProspect, UnchangedBySend
    <3>2. CASE worker' = [worker EXCEPT ![w].pc = "ready", ![w].day = day]
      <4>1. worker[w].e \in Emails /\ worker[w] \in WorkerState
        BY <2>4 DEF CheckProspect, WorkersOK
      <4>2. [worker[w] EXCEPT !.pc = "ready", !.day = day] \in WorkerState
        BY <4>1 DEF WorkerState, Pcs
      <4>3. [worker[w] EXCEPT !.pc = "ready", !.day = day].e = worker[w].e
        BY <4>1 DEF WorkerState
      <4>4. worker' = [worker EXCEPT ![w] = [worker[w] EXCEPT !.pc = "ready", !.day = day]]
        BY <3>2 DEF WorkersOK
      <4>5. WorkersOK'
        BY <4>1, <4>2, <4>3, <4>4, WorkerMoves
      <4> QED
        BY <2>4, <4>5 DEF CheckProspect, UnchangedBySend
    <3> QED
      BY <2>4, <3>1, <3>2 DEF CheckProspect
  <2>5. worker[w].pc # "idle" => worker[w].e \in Emails
    BY DEF WorkersOK
  <2>6. CASE Withdraw(w)
    <3>1. WorkersOK'
      BY <2>6, ReturnType DEF Withdraw
    <3>2. email' \in [Emails -> EmailRow]
      <4>1. CASE UNCHANGED email
        BY <4>1
      <4>2. CASE ~UNCHANGED email
        <5>1. PICK st \in Statuses : \E row \in EmailGuard(email[worker[w].e], [email[worker[w].e] EXCEPT !.status = st], NoUser, admins) :
                email' = [email EXCEPT ![worker[w].e] = row]
          BY <2>6, <4>2 DEF Withdraw, Statuses
        <5>2. worker[w].e \in Emails
          BY <2>5, <2>6 DEF Withdraw
        <5>3. PICK row \in EmailRow : email' = [email EXCEPT ![worker[w].e] = row]
          BY <5>1, <5>2, StatusStoreType
        <5> QED
          BY <5>2, <5>3
      <4> QED
        BY <4>1, <4>2
    <3> QED
      BY <2>6, <3>1, <3>2 DEF Withdraw, UnchangedBySend
  <2>7. CASE Claim(w)
    <3> DEFINE e == worker[w].e
    <3>1. e \in Emails /\ worker[w] \in WorkerState
      BY <2>5, <2>7 DEF Claim, WorkersOK
    <3>2. CASE Return(w) /\ UNCHANGED <<email, sentCount, overdue, acked, claimed>>
      BY <2>7, <3>2, ReturnType DEF Claim, UnchangedBySend
    <3>3. CASE /\ \E row \in ClaimedRows(w) : email' = [email EXCEPT ![e] = row]
               /\ sentCount' = [sentCount EXCEPT ![worker[w].day] = @ + 1]
               /\ worker' = [worker EXCEPT ![w].pc = "claimed", ![w].no = approvals[e]]
               /\ overdue' = overdue \ {e}
               /\ acked' = acked \ {e}
               /\ claimed' = claimed \union {<<e, approvals[e]>>}
      <4>1. PICK row \in EmailRow : email' = [email EXCEPT ![e] = row]
        BY <3>1, <3>3, StatusStoreType DEF ClaimedRows, Statuses
      <4>0. approvals[e] \in Nos
        BY <3>1, <3>3 DEF ClaimedRows, Counted
      <4>2. [worker[w] EXCEPT !.pc = "claimed", !.no = approvals[e]] \in WorkerState
        BY <3>1, <4>0 DEF WorkerState, Pcs
      <4>3. [worker[w] EXCEPT !.pc = "claimed", !.no = approvals[e]].e = e
        BY <3>1 DEF WorkerState
      <4>4. WorkersOK'
        <5>1. worker' = [worker EXCEPT ![w] = [worker[w] EXCEPT !.pc = "claimed", !.no = approvals[e]]]
          BY <3>3 DEF WorkersOK
        <5> QED
          BY <3>1, <4>2, <4>3, <5>1, WorkerMoves
      <4>5. sentCount' \in [Days -> Nat]
        BY <3>3, CountType
      <4>6. claimed' \subseteq Emails \X Nos
        BY <3>1, <3>3, <4>0
      <4>7. email' \in [Emails -> EmailRow]
        BY <3>1, <4>1
      <4> QED
        BY <2>7, <3>1, <3>3, <4>4, <4>5, <4>6, <4>7 DEF Claim, UnchangedBySend
    <3> QED
      BY <2>7, <3>2, <3>3 DEF Claim
  <2>8. ASSUME NEW answer \in {"accepted", "refused", "unknown"}, NEW taken \in BOOLEAN,
               Provider(w, answer, taken)
        PROVE  TypeOK'
    <3>1. WorkersOK'
      BY <2>8, GotoType DEF Provider, Pcs
    <3>2. worker[w].e \in Emails /\ worker[w] \in WorkerState
      BY <2>5, <2>8 DEF Provider, WorkersOK
    <3>3. out' \in [Emails -> [Nos -> Seq(Hashes \union {NoHash})]]
      <4>1. worker[w].body \in Hashes \union {NoHash}
        BY <3>2 DEF WorkerState
      <4>2. \/ out' = out
            \/ out' = [out EXCEPT ![worker[w].e][worker[w].no] = Append(@, worker[w].body)]
        BY <2>8 DEF Provider
      <4>3. CASE out' = out
        BY <4>3
      <4>4. CASE out' = [out EXCEPT ![worker[w].e][worker[w].no] = Append(@, worker[w].body)]
        <5> DEFINE e == worker[w].e
                   n == worker[w].no
                   h == worker[w].body
        <5>1. out \in [Emails -> [Nos -> Seq(Hashes \union {NoHash})]] /\ e \in Emails
              /\ h \in Hashes \union {NoHash} /\ out' = [out EXCEPT ![e][n] = Append(@, h)]
          BY <3>2, <4>1, <4>4
        <5> HIDE DEF e, n, h, TypeOK
        <5> QED
          BY <5>1, OutType
      <4> QED
        BY <4>2, <4>3, <4>4
    <3>4. acceptedOn' \in [Days -> Nat]
      BY <2>8, CountType DEF Provider
    <3>5. mailbox' \subseteq Emails /\ acked' \subseteq Emails
      BY <2>8, <3>2 DEF Provider
    <3> QED
      BY <2>8, <3>1, <3>3, <3>4, <3>5 DEF Provider, UnchangedBySend
  <2>9. ASSUME NEW st \in {"sent", "failed"}, worker[w].pc # "idle", Settle(worker[w].e, st)
        PROVE  email' \in [Emails -> EmailRow]
    <3>1. worker[w].e \in Emails /\ st \in Statuses
      BY <2>5, <2>9 DEF Statuses
    <3>2. PICK row \in Settled(worker[w].e, st) : email' = [email EXCEPT ![worker[w].e] = row]
      BY <2>9 DEF Settle
    <3>3. email[worker[w].e] \in EmailRow
      BY <3>1
    <3>4. row \in EmailRow
      <4>1. CASE email[worker[w].e].status = "sending"
        BY <3>1, <3>2, <3>3, <4>1, StatusStoreType DEF Settled
      <4>2. CASE email[worker[w].e].status # "sending"
        BY <3>2, <3>3, <4>2 DEF Settled
      <4> QED
        BY <4>1, <4>2
    <3> QED
      BY <3>1, <3>2, <3>4
  <2>10. CASE RecordSent(w)
    <3>1. StopProspectOf(worker[w].e) \in [Prospects -> {"new", "active", "replied", "stopped"}]
      BY DEF StopProspectOf
    <3> QED
      BY <2>9, <2>10, <3>1, ReturnType DEF RecordSent
  <2>11. CASE RecordSentFails(w) \/ MarkFailedFails(w)
    BY <2>11, ReturnType DEF RecordSentFails, MarkFailedFails, UnchangedBySend
  <2>12. CASE MarkFailed(w)
    <3>1. sentCount' \in [Days -> Nat]
      <4>1. ASSUME NEW d, sentCount' = [sentCount EXCEPT ![d] = @ - 1], sentCount[d] > 0
            PROVE  sentCount' \in [Days -> Nat]
        <5>1. d \in Days => sentCount[d] - 1 \in Nat
          BY <4>1
        <5> QED
          BY <4>1, <5>1
      <4> QED
        BY <2>12, <4>1 DEF MarkFailed
    <3> QED
      BY <2>9, <2>12, <3>1, ReturnType DEF MarkFailed, UnchangedBySend
  <2>13. CASE SweepFail(w)
    BY <2>9, <2>13, ReturnType DEF SweepFail, UnchangedBySend
  <2> QED
    BY <1>6, <2>1, <2>2, <2>3, <2>4, <2>6, <2>7, <2>8, <2>10, <2>11, <2>12, <2>13 DEF Progress
<1>7. ASSUME NEW w \in Workers, Crash(w) PROVE TypeOK'
  BY <1>7, ReturnType, SendAssumption DEF Crash
<1> QED
  BY <1>1, <1>2, <1>3, <1>4, <1>5, <1>6, <1>7 DEF Next, vars, WorkersOK

-----------------------------------------------------------------------------
(* Each approval sends at most once, with what was approved.               *)

\* An approved email is at its last approval, which pins what the row pins and
\* under which nothing was claimed yet.
OpenApproval ==
  \A e \in Emails : email[e].status = "approved" =>
    /\ approvals[e] \in Nos
    /\ grant[e][approvals[e]] = email[e].approvedHash
    /\ <<e, approvals[e]>> \notin claimed

\* Claims are of approvals that were given, and only a claim sends.
ClaimsGiven ==
  /\ \A e \in Emails, n \in Nos : <<e, n>> \in claimed => n <= approvals[e]
  /\ \A e \in Emails, n \in Nos : <<e, n>> \notin claimed => out[e][n] = <<>>

\* A worker between its claim and the provider holds an approval on which
\* nothing was sent, with the content that approval pins.
Holding ==
  \A w \in Workers : worker[w].pc = "claimed" =>
    /\ <<worker[w].e, worker[w].no>> \in claimed
    /\ out[worker[w].e][worker[w].no] = <<>>
    /\ worker[w].body = grant[worker[w].e][worker[w].no]

\* No two workers hold the same approval.
Alone ==
  \A v, w \in Workers :
    worker[v].pc = "claimed" /\ worker[w].pc = "claimed"
      /\ worker[v].e = worker[w].e /\ worker[v].no = worker[w].no => v = w

\* Past the hash check, the hash is that of the content to be sent.
HashOfBody ==
  \A w \in Workers : worker[w].pc \in {"hashed", "approver", "address", "ready"}
    => worker[w].hash = worker[w].body

ApprovalInv == OpenApproval /\ ClaimsGiven /\ Holding /\ Alone /\ HashOfBody /\ OncePerApproval

\* Of the type invariant, what concerns the numbered approvals.
LEMMA CountsType ==
  ASSUME TypeOK
  PROVE  /\ claimed \subseteq Emails \X Nos
         /\ approvals \in [Emails -> 0..MaxApprovals]
         /\ \A w \in Workers : worker[w].no \in Nos \union {0}
                             /\ (worker[w].pc # "idle" => worker[w].e \in Emails)
  BY DEF TypeOK, WorkersOK, WorkerState

\* A worker that holds an approval holds one of an email, with a number.
LEMMA HeldType ==
  ASSUME TypeOK, ApprovalInv, NEW w \in Workers, worker[w].pc = "claimed"
  PROVE  /\ worker[w].e \in Emails /\ worker[w].no \in Nos
         /\ <<worker[w].e, worker[w].no>> \in claimed
         /\ out[worker[w].e][worker[w].no] = <<>>
         /\ worker[w].body = grant[worker[w].e][worker[w].no]
<1>1. <<worker[w].e, worker[w].no>> \in claimed
  BY DEF ApprovalInv, Holding
<1>2. worker[w].e \in Emails /\ worker[w].no \in Nos
  BY <1>1, CountsType
<1> QED
  BY <1>1, <1>2 DEF ApprovalInv, Holding

LEMMA ApprovalInit == Init => ApprovalInv
  BY DEF Init, ApprovalInv, OpenApproval, ClaimsGiven, Holding, Alone, HashOfBody,
         OncePerApproval, Idle, Blank, InsertedRow

\* A step that approves nothing, claims nothing and sends nothing.
NoNewApproval ==
  \A e \in Emails : email'[e].status = "approved" =>
    email[e].status = "approved" /\ email'[e].approvedHash = email[e].approvedHash

Checked(v) ==
  v.pc \in {"hashed", "approver", "address", "ready"} => v.hash = v.body

WorkersQuiet ==
  \A w \in Workers :
    /\ worker'[w].pc = "claimed" => worker'[w] = worker[w]
    /\ Checked(worker'[w])

Quiet ==
  NoNewApproval /\ WorkersQuiet /\ UNCHANGED <<approvals, grant, claimed, out>>

LEMMA QuietStep ==
  ASSUME ApprovalInv, NoNewApproval, WorkersQuiet,
         UNCHANGED <<approvals, grant, claimed, out>>
  PROVE  ApprovalInv'
<1>1. OpenApproval'
  BY DEF ApprovalInv, OpenApproval, NoNewApproval
<1>2. ClaimsGiven' /\ OncePerApproval'
  BY DEF ApprovalInv, ClaimsGiven, OncePerApproval
<1>3. Holding' /\ Alone'
  BY DEF ApprovalInv, Holding, Alone, WorkersQuiet
<1>4. HashOfBody'
  BY DEF HashOfBody, WorkersQuiet, Checked
<1> QED
  BY <1>1, <1>2, <1>3, <1>4 DEF ApprovalInv

LEMMA WorkersStay == ApprovalInv /\ UNCHANGED worker => WorkersQuiet
  BY DEF ApprovalInv, HashOfBody, WorkersQuiet, Checked

LEMMA OneWorkerQuiet ==
  ASSUME TypeOK, ApprovalInv, NEW w \in Workers, NEW v,
         worker' = [worker EXCEPT ![w] = v], v.pc # "claimed", Checked(v)
  PROVE  WorkersQuiet
  BY DEF ApprovalInv, HashOfBody, WorkersQuiet, Checked, TypeOK, WorkersOK

LEMMA ReturnQuiet ==
  ASSUME TypeOK, ApprovalInv, NEW w \in Workers, Return(w)
  PROVE  WorkersQuiet
<1>1. Idle.pc = "idle" /\ Checked(Idle)
  BY DEF Idle, Checked
<1>2. worker' = [worker EXCEPT ![w] = Idle]
  BY DEF Return
<1> HIDE DEF Idle
<1> QED
  BY <1>1, <1>2, OneWorkerQuiet

\* One row changed by an UPDATE that does not ask for approved.
LEMMA RowQuiet ==
  ASSUME TypeOK, NEW e \in Emails, NEW new \in EmailRow,
         new.status # "approved" \/ email[e].status = "approved",
         NEW actor, NEW row \in EmailGuard(email[e], new, actor, admins),
         email' = [email EXCEPT ![e] = row]
  PROVE  NoNewApproval
<1>1. row.status = "approved" =>
        email[e].status = "approved" /\ row.approvedHash = email[e].approvedHash
  BY GuardKeepsApproval DEF TypeOK
<1> QED
  BY <1>1 DEF NoNewApproval, TypeOK

LEMMA StatusQuiet ==
  ASSUME TypeOK, NEW e \in Emails, NEW st \in Statuses \ {"approved"}, NEW actor,
         NEW row \in EmailGuard(email[e], [email[e] EXCEPT !.status = st], actor, admins),
         email' = [email EXCEPT ![e] = row]
  PROVE  NoNewApproval
<1>1. email[e] \in EmailRow
  BY DEF TypeOK
<1>2. [email[e] EXCEPT !.status = st] \in EmailRow /\ [email[e] EXCEPT !.status = st].status = st
  BY <1>1, StatusType DEF EmailRow
<1> QED
  BY <1>2, RowQuiet

LEMMA SettleQuiet ==
  ASSUME TypeOK, NEW e \in Emails, NEW st \in {"sent", "failed"}, Settle(e, st)
  PROVE  NoNewApproval
<1>1. PICK row \in Settled(e, st) : email' = [email EXCEPT ![e] = row]
  BY DEF Settle
<1>2. CASE row = email[e]
  BY <1>1, <1>2 DEF NoNewApproval, TypeOK
<1>3. CASE row \in EmailGuard(email[e], [email[e] EXCEPT !.status = st], NoUser, admins)
  BY <1>1, <1>3, StatusQuiet DEF Statuses
<1> QED
  BY <1>1, <1>2, <1>3 DEF Settled

LEMMA CancelQuiet ==
  ASSUME TypeOK,
         \A e \in Emails : email'[e] \in {email[e], [email[e] EXCEPT !.status = "cancelled"]}
  PROVE  NoNewApproval
<1>1. ASSUME NEW e \in Emails
      PROVE  [email[e] EXCEPT !.status = "cancelled"].status = "cancelled"
  BY DEF TypeOK, EmailRow
<1> QED
  BY <1>1 DEF NoNewApproval

\* A new approval pins what the trigger stamped, under a number of its own.
LEMMA ApproveStepInv ==
  ASSUME TypeOK, ApprovalInv, NEW u \in Users, NEW e \in Emails, Approve(u, e)
  PROVE  ApprovalInv'
<1> DEFINE n == approvals[e] + 1
<1>1. PICK r1 \in Submitted(e, u) :
        \E r2 \in EmailGuard(r1, [r1 EXCEPT !.status = "approved"], u, admins) :
          /\ email' = [email EXCEPT ![e] = r2]
          /\ grant' = [grant EXCEPT ![e][n] = r2.approvedHash]
  BY DEF Approve
<1>2. PICK r2 : /\ email' = [email EXCEPT ![e] = r2]
                /\ grant' = [grant EXCEPT ![e][n] = r2.approvedHash]
  BY <1>1
<1>3. n \in Nos /\ approvals' = [approvals EXCEPT ![e] = n] /\ approvals[e] \in Nat
  BY SendAssumption DEF Approve, TypeOK, Nos
<1> HIDE DEF n
<1>4. <<e, n>> \notin claimed
  BY <1>3 DEF ApprovalInv, ClaimsGiven, Nos, n
<1>5. UNCHANGED <<claimed, out, worker>>
  BY DEF Approve, sendVars
<1>6. \A d \in Emails, m \in Nos : <<d, m>> # <<e, n>> => grant'[d][m] = grant[d][m]
  BY <1>2, <1>3 DEF TypeOK
<1>7. grant'[e][n] = r2.approvedHash
  BY <1>2, <1>3 DEF TypeOK
<1>8. OpenApproval'
  <2>1. ASSUME NEW d \in Emails, email'[d].status = "approved", d # e
        PROVE  /\ approvals'[d] \in Nos
               /\ grant'[d][approvals'[d]] = email'[d].approvedHash
               /\ <<d, approvals'[d]>> \notin claimed'
    <3>1. email'[d] = email[d] /\ approvals'[d] = approvals[d]
      BY <1>2, <1>3, <2>1 DEF TypeOK
    <3> QED
      BY <1>5, <1>6, <2>1, <3>1 DEF ApprovalInv, OpenApproval
  <2>2. /\ approvals'[e] = n
        /\ email'[e] = r2
    BY <1>2, <1>3 DEF TypeOK
  <2> QED
    BY <1>3, <1>4, <1>5, <1>7, <2>1, <2>2 DEF OpenApproval
<1>9. ClaimsGiven'
  <2>1. \A d \in Emails : approvals[d] \in Nat /\ approvals'[d] \in Nat /\ approvals[d] <= approvals'[d]
    BY <1>3, SendAssumption DEF TypeOK, n, Nos
  <2> QED
    BY <1>5, <2>1, CountsType DEF ApprovalInv, ClaimsGiven, Nos
<1>10. Holding' /\ Alone' /\ HashOfBody'
  <2>1. ASSUME NEW w \in Workers, worker[w].pc = "claimed"
        PROVE  grant'[worker[w].e][worker[w].no] = grant[worker[w].e][worker[w].no]
    BY <1>4, <1>6, <2>1, HeldType
  <2> QED
    BY <1>5, <2>1 DEF ApprovalInv, Holding, Alone, HashOfBody
<1>11. OncePerApproval'
  BY <1>4, <1>5, <1>6 DEF ApprovalInv, OncePerApproval, ClaimsGiven
<1> QED
  BY <1>8, <1>9, <1>10, <1>11 DEF ApprovalInv


\* The claim of sendApproved that wins: its transaction's effect on the row,
\* the worker and the approvals claimed.
Takes(w) ==
  /\ worker[w].pc = "ready"
  /\ \E row \in ClaimedRows(w) : email' = [email EXCEPT ![worker[w].e] = row]
  /\ worker' = [worker EXCEPT ![w].pc = "claimed", ![w].no = approvals[worker[w].e]]
  /\ claimed' = claimed \union {<<worker[w].e, approvals[worker[w].e]>>}
  /\ UNCHANGED <<approvals, grant, out>>

\* It takes an open approval, and is the only worker to hold it.
LEMMA TakesInv ==
  ASSUME TypeOK, ApprovalInv, NEW w \in Workers, Takes(w)
  PROVE  ApprovalInv'
<1> DEFINE e == worker[w].e
           n == approvals[e]
<1>1. e \in Emails /\ worker[w].pc = "ready"
  BY DEF Takes, TypeOK, WorkersOK
<1>2. UNCHANGED <<approvals, grant, out>>
  BY DEF Takes
<1>3. /\ \E row \in ClaimedRows(w) : email' = [email EXCEPT ![e] = row]
       /\ worker' = [worker EXCEPT ![w].pc = "claimed", ![w].no = n]
       /\ claimed' = claimed \union {<<e, n>>}
  BY DEF Takes
<1>4. email[e].status = "approved" /\ email[e].approvedHash = worker[w].hash
  BY <1>3 DEF ClaimedRows
<1>5. n \in Nos /\ grant[e][n] = worker[w].body /\ <<e, n>> \notin claimed
  BY <1>1, <1>4 DEF ApprovalInv, OpenApproval, HashOfBody
<1>6. out[e][n] = <<>>
  BY <1>1, <1>5 DEF ApprovalInv, ClaimsGiven
<1>7. PICK row \in ClaimedRows(w) : email' = [email EXCEPT ![e] = row]
  BY <1>3
<1>8. row.status # "approved"
  <2>1. row = GuardStores(email[e], [email[e] EXCEPT !.status = "sending"], NoUser)
    BY <1>4, <1>7 DEF ClaimedRows, EmailGuard
  <2>2. email[e] \in EmailRow
    BY <1>1 DEF TypeOK
  <2>3. row.status = "sending"
    BY <1>4, <2>1, <2>2 DEF GuardStores, StatusStored, RowHash, EmailRow
  <2> QED
    BY <2>3
<1>9. OpenApproval'
  <2>1. ASSUME NEW d \in Emails, email'[d].status = "approved"
        PROVE  d # e /\ email'[d] = email[d]
    BY <1>1, <1>7, <1>8, <2>1 DEF TypeOK
  <2> QED
    BY <1>2, <1>3, <2>1 DEF ApprovalInv, OpenApproval
<1>10. ClaimsGiven'
  BY <1>1, <1>2, <1>3, <1>5, CountsType DEF ApprovalInv, ClaimsGiven, Nos
<1>11. /\ worker'[w].pc = "claimed" /\ worker'[w].e = e /\ worker'[w].no = n
      /\ worker'[w].body = worker[w].body
      /\ \A v \in Workers \ {w} : worker'[v] = worker[v]
  BY <1>3 DEF TypeOK, WorkersOK, WorkerState
<1> HIDE DEF e, n
<1>12. Holding'
  <2>1. ASSUME NEW v \in Workers, v # w, worker'[v].pc = "claimed"
        PROVE  /\ <<worker'[v].e, worker'[v].no>> \in claimed'
               /\ out'[worker'[v].e][worker'[v].no] = <<>>
               /\ worker'[v].body = grant'[worker'[v].e][worker'[v].no]
    <3>1. worker'[v] = worker[v]
      BY <1>11, <2>1
    <3>2. /\ <<worker[v].e, worker[v].no>> \in claimed
          /\ out[worker[v].e][worker[v].no] = <<>>
          /\ worker[v].body = grant[worker[v].e][worker[v].no]
      BY <2>1, <3>1 DEF ApprovalInv, Holding
    <3>3. claimed \subseteq claimed' /\ out' = out /\ grant' = grant
      BY <1>2, <1>3
    <3> QED
      BY <3>1, <3>2, <3>3
  <2>2. /\ <<worker'[w].e, worker'[w].no>> \in claimed'
        /\ out'[worker'[w].e][worker'[w].no] = <<>>
        /\ worker'[w].body = grant'[worker'[w].e][worker'[w].no]
    BY <1>2, <1>3, <1>5, <1>6, <1>11
  <2> QED
    BY <2>1, <2>2 DEF Holding
<1>13. Alone'
  BY <1>5, <1>11 DEF ApprovalInv, Alone, Holding
<1>14. HashOfBody'
  BY <1>11 DEF ApprovalInv, HashOfBody
<1> QED
  BY <1>2, <1>9, <1>10, <1>12, <1>13, <1>14 DEF ApprovalInv, OncePerApproval

\* The one message of a claim goes to the provider.
LEMMA ProviderInv ==
  ASSUME TypeOK, ApprovalInv, NEW w \in Workers, NEW answer, NEW taken \in BOOLEAN,
         Provider(w, answer, taken)
  PROVE  ApprovalInv'
<1> DEFINE e == worker[w].e
           n == worker[w].no
<1>1. worker[w].pc = "claimed" /\ UNCHANGED <<email, approvals, grant, claimed>>
  BY DEF Provider
<1>2. /\ <<e, n>> \in claimed /\ e \in Emails /\ n \in Nos
      /\ out[e][n] = <<>> /\ worker[w].body = grant[e][n]
  BY <1>1, HeldType
<1>3. /\ worker'[w].pc \in {"accepted", "refused", "unknown"}
      /\ \A v \in Workers \ {w} : worker'[v] = worker[v]
  BY DEF Provider, Goto, TypeOK, WorkersOK, WorkerState
<1>4. /\ out'[e][n] \in {<<>>, <<grant[e][n]>>}
      /\ \A d \in Emails, m \in Nos : <<d, m>> # <<e, n>> => out'[d][m] = out[d][m]
  <2>1. CASE out' = out
    BY <1>2, <2>1
  <2>2. CASE out' = [out EXCEPT ![e][n] = Append(@, worker[w].body)]
    <3>1. Append(<<>>, worker[w].body) = <<worker[w].body>>
      OBVIOUS
    <3> QED
      BY <1>2, <2>2, <3>1 DEF TypeOK
  <2> QED
    BY <2>1, <2>2 DEF Provider
<1> HIDE DEF e, n
<1>5. Holding'
  <2>1. ASSUME NEW v \in Workers, v # w, worker[v].pc = "claimed"
        PROVE  <<worker[v].e, worker[v].no>> # <<e, n>> /\ <<worker[v].e, worker[v].no>> \in claimed
    BY <1>1, <2>1 DEF ApprovalInv, Alone, Holding, e, n
  <2>2. claimed \subseteq Emails \X Nos
    BY DEF TypeOK
  <2> QED
    BY <1>1, <1>3, <1>4, <2>1, <2>2 DEF ApprovalInv, Holding
<1>6. Alone' /\ HashOfBody'
  BY <1>3 DEF ApprovalInv, Alone, HashOfBody
<1>7. OpenApproval' /\ ClaimsGiven' /\ OncePerApproval'
  BY <1>1, <1>2, <1>4 DEF ApprovalInv, OpenApproval, ClaimsGiven, OncePerApproval
<1> QED
  BY <1>5, <1>6, <1>7 DEF ApprovalInv

\* Every other step of the system is quiet.
LEMMA StepKinds ==
  ASSUME TypeOK, ApprovalInv, [Next]_vars
  PROVE  \/ Quiet
         \/ \E u \in Users, e \in Emails : Approve(u, e)
         \/ \E w \in Workers : Takes(w)
         \/ \E w \in Workers, answer \in {"accepted", "refused", "unknown"}, taken \in BOOLEAN :
              Provider(w, answer, taken)
<1> USE DEF rowVars, people, outreach, clock, sendVars, ghosts
<1>0. UNCHANGED email => NoNewApproval
  BY DEF NoNewApproval
<1>1. ASSUME NEW e \in Emails, SaveDraft(e) PROVE Quiet
  <2>1. NoNewApproval
    BY <1>1 DEF SaveDraft, InsertedRow, NoNewApproval, TypeOK
  <2> QED
    BY <1>1, <2>1, WorkersStay DEF SaveDraft, Quiet
<1>2. ASSUME NEW e \in Emails, GrowOld(e) PROVE Quiet
  BY <1>0, <1>2, WorkersStay DEF GrowOld, Quiet
<1>4. ASSUME NEW u \in Users, NEW e \in Emails, Review(u, e), ~Approve(u, e) PROVE Quiet
  <2>1. CASE LoadForApproval(u, e) \/ ApproveConflict(u, e)
    BY <1>0, <2>1, WorkersStay DEF LoadForApproval, ApproveConflict, Quiet
  <2>2. ASSUME NEW a \in Addresses, NEW t \in Texts, Edit(u, e, a, t) PROVE Quiet
    <3> DEFINE new == [email[e] EXCEPT !.to = a, !.text = t]
    <3>1. email[e] \in EmailRow
      BY DEF TypeOK
    <3>2. new \in EmailRow
      BY <3>1, EditType
    <3>3. new.status = email[e].status
      BY <3>1 DEF EmailRow
    <3>4. PICK r1 \in EmailGuard(email[e], new, u, admins) :
            \E r2 \in IF email[e].status = "draft"
                      THEN EmailGuard(r1, [r1 EXCEPT !.status = "pending_approval"], u, admins)
                      ELSE {r1} :
              email' = [email EXCEPT ![e] = r2]
      BY <2>2 DEF Edit
    <3> HIDE DEF new
    <3>5. r1 \in EmailRow
      BY <3>1, <3>2, GuardType
    <3>6. PICK r2 \in EmailRow :
            /\ email' = [email EXCEPT ![e] = r2]
            /\ r2.status = "approved" => r1.status = "approved" /\ r2.approvedHash = r1.approvedHash
      <4>1. CASE email[e].status = "draft"
        <5>1. PICK r2 \in EmailGuard(r1, [r1 EXCEPT !.status = "pending_approval"], u, admins) :
                email' = [email EXCEPT ![e] = r2]
          BY <3>4, <4>1
        <5>2. "pending_approval" \in Statuses
          BY DEF Statuses
        <5>3. r2 \in EmailRow
          BY <3>5, <5>1, <5>2, StatusStoreType
        <5>4. [r1 EXCEPT !.status = "pending_approval"] \in EmailRow
              /\ [r1 EXCEPT !.status = "pending_approval"].status # "approved"
          BY <3>5, <5>2, StatusType DEF EmailRow
        <5> DEFINE asked == [r1 EXCEPT !.status = "pending_approval"]
        <5> HIDE DEF asked
        <5>5. r2 \in EmailGuard(r1, asked, u, admins) /\ asked \in EmailRow /\ asked.status # "approved"
          BY <5>1, <5>4 DEF asked
        <5>6. r2.status = "approved" => r1.status = "approved" /\ r2.approvedHash = r1.approvedHash
          BY <3>5, <5>5, GuardKeepsApproval
        <5> QED
          BY <5>1, <5>3, <5>6
      <4>2. CASE email[e].status # "draft"
        BY <3>4, <3>5, <4>2
      <4> QED
        BY <4>1, <4>2
    <3>7. NoNewApproval
      <4>1. r1.status = "approved" =>
              email[e].status = "approved" /\ r1.approvedHash = email[e].approvedHash
        BY <3>1, <3>2, <3>3, <3>4, GuardKeepsApproval
      <4>2. email \in [Emails -> EmailRow]
        BY DEF TypeOK
      <4> QED
        BY <3>6, <4>1, <4>2 DEF NoNewApproval
    <3> QED
      BY <2>2, <3>7, WorkersStay DEF Edit, Quiet
  <2>3. ASSUME NEW old \in EmailRow, NEW seen \in SUBSET Files, NEW row \in Synced(old, seen),
               row.status = "approved"
        PROVE  old.status = "approved" /\ row.approvedHash = old.approvedHash
    <3> DEFINE new == [old EXCEPT !.hashes = seen]
    <3>1. new \in EmailRow /\ new.status = old.status
      BY DEF EmailRow
    <3>2. row \in EmailGuard(old, new, NoUser, admins)
      BY <2>3 DEF Synced
    <3> HIDE DEF new
    <3> QED
      BY <2>3, <3>1, <3>2, GuardKeepsApproval
  <2>4. ASSUME NEW seen \in SUBSET Files, NEW row \in Synced(email[e], seen),
               email' = [email EXCEPT ![e] = row]
        PROVE  NoNewApproval
    <3>1. email \in [Emails -> EmailRow]
      BY DEF TypeOK
    <3> QED
      BY <2>3, <2>4, <3>1 DEF NoNewApproval
  <2>5. ASSUME NEW f \in Files, AddAttachment(u, e, f) PROVE Quiet
    <3>1. files[e] \union {f} \in SUBSET Files
      BY DEF TypeOK
    <3>2. NoNewApproval
      BY <2>4, <2>5, <3>1 DEF AddAttachment
    <3> QED
      BY <2>5, <3>2, WorkersStay DEF AddAttachment, Quiet
  <2>6. ASSUME NEW f \in Files, RemoveAttachment(u, e, f) PROVE Quiet
    <3>1. files[e] \ {f} \in SUBSET Files
      BY DEF TypeOK
    <3>2. NoNewApproval
      BY <2>4, <2>6, <3>1 DEF RemoveAttachment
    <3> QED
      BY <2>6, <3>2, WorkersStay DEF RemoveAttachment, Quiet
  <2>7. ASSUME NEW f \in Files, NEW g \in Files, AddOverlapping(u, e, f, g) PROVE Quiet
    <3>1. files[e] \union {f} \in SUBSET Files /\ files[e] \union {g} \in SUBSET Files
          /\ email[e] \in EmailRow
      BY DEF TypeOK
    <3>2. PICK r1 \in Synced(email[e], files[e] \union {f}) :
            \E r2 \in Synced(r1, files[e] \union {g}) : email' = [email EXCEPT ![e] = r2]
      BY <2>7 DEF AddOverlapping
    <3>3. PICK r2 \in Synced(r1, files[e] \union {g}) : email' = [email EXCEPT ![e] = r2]
      BY <3>2
    <3>4. r1 \in EmailRow
      BY <3>1, <3>2, SyncedType
    <3>5. r2.status = "approved" => email[e].status = "approved" /\ r2.approvedHash = email[e].approvedHash
      BY <2>3, <3>1, <3>2, <3>3, <3>4
    <3>6. NoNewApproval
      BY <3>3, <3>5 DEF NoNewApproval, TypeOK
    <3> QED
      BY <2>7, <3>6, WorkersStay DEF AddOverlapping, Quiet
  <2>8. {"rejected", "cancelled", "pending_approval"} \subseteq Statuses \ {"approved"}
    BY DEF Statuses
  <2>9. ASSUME NEW redraft \in BOOLEAN, Reject(u, e, redraft) PROVE Quiet
    BY <2>8, <2>9, StatusQuiet, WorkersStay DEF Reject, Quiet
  <2>10. CASE CancelEmail(u, e)
    BY <2>8, <2>10, StatusQuiet, WorkersStay DEF CancelEmail, Quiet
  <2>11. CASE ReopenFailed(u, e)
    BY <2>8, <2>11, StatusQuiet, WorkersStay DEF ReopenFailed, Quiet
  <2> QED
    BY <1>4, <2>1, <2>2, <2>5, <2>6, <2>7, <2>9, <2>10, <2>11 DEF Review
<1>5. ASSUME Environment PROVE Quiet
  <2>1. NoNewApproval
    <3>1. ASSUME NEW p \in Prospects, NEW st, EndSequence(p, st) PROVE NoNewApproval
      BY <3>1, CancelQuiet DEF EndSequence, CancelUnsent
    <3>2. ASSUME NEW a \in Addresses, Suppress(a) PROVE NoNewApproval
      BY <3>2, CancelQuiet DEF Suppress, CancelUnsent
    <3> QED
      BY <1>0, <1>5, <3>1, <3>2 DEF Environment, StopOnReply, SetProspectStatus, RemoveSuppression,
         StartProspect, StopQuietly, SetPaused, SetAdmin, Midnight
  <2>2. UNCHANGED <<approvals, grant, claimed, out, worker>>
    BY <1>5 DEF Environment, StopOnReply, SetProspectStatus, EndSequence, Suppress,
       RemoveSuppression, StartProspect, StopQuietly, SetPaused, SetAdmin, Midnight
  <2> QED
    BY <2>1, <2>2, WorkersStay DEF Quiet
<1>6. ASSUME NEW w \in Workers, NEW e \in Emails, BeginSend(w, e) \/ Sweep(w, e) PROVE Quiet
  <2>1. PICK pc \in {"begun", "found", "missing"} :
          worker' = [worker EXCEPT ![w] = [Idle EXCEPT !.pc = pc, !.e = e]]
    BY <1>6 DEF BeginSend, Sweep, SweepLook
  <2>2. [Idle EXCEPT !.pc = pc, !.e = e].pc # "claimed" /\ Checked([Idle EXCEPT !.pc = pc, !.e = e])
    BY DEF Idle, Checked
  <2>3. WorkersQuiet
    BY <2>1, <2>2, OneWorkerQuiet
  <2> QED
    BY <1>0, <1>6, <2>3 DEF BeginSend, Sweep, SweepLook, UnchangedBySend, Quiet
<1>7. ASSUME NEW w \in Workers, Claim(w) PROVE Quiet \/ Takes(w)
  <2>1. CASE Return(w) /\ UNCHANGED <<email, claimed>>
    BY <1>0, <1>7, <2>1, ReturnQuiet DEF Claim, Quiet
  <2> QED
    BY <1>7, <2>1 DEF Claim, Takes
<1>9. ASSUME NEW w \in Workers, Progress(w), ~Claim(w),
             \A answer \in {"accepted", "refused", "unknown"}, taken \in BOOLEAN :
               ~Provider(w, answer, taken)
      PROVE  Quiet
  <2>1. worker[w].pc # "idle" => worker[w].e \in Emails
    BY DEF TypeOK, WorkersOK
  <2>2. worker[w] \in WorkerState /\ worker \in [Workers -> WorkerState]
    BY DEF TypeOK, WorkersOK
  <2>3. CASE ReadEmail(w)
    <3>1. CASE Return(w)
      BY <1>0, <2>3, <3>1, ReturnQuiet DEF ReadEmail, Quiet
    <3>2. CASE worker' = [worker EXCEPT ![w].pc = "row", ![w].row = email[worker[w].e]]
      <4> DEFINE v == [worker[w] EXCEPT !.pc = "row", !.row = email[worker[w].e]]
      <4>1. v.pc = "row" /\ worker' = [worker EXCEPT ![w] = v]
        BY <2>2, <3>2 DEF WorkerState
      <4>2. v.pc # "claimed" /\ Checked(v)
        BY <4>1 DEF Checked
      <4> HIDE DEF v
      <4>3. WorkersQuiet
        BY <4>1, <4>2, OneWorkerQuiet
      <4> QED
        BY <1>0, <2>3, <4>3 DEF ReadEmail, Quiet
    <3> QED
      BY <2>3, <3>1, <3>2 DEF ReadEmail
  <2>4. CASE ReadAttachments(w)
    <3> DEFINE h == ActualHash(worker[w].row, files[worker[w].e])
               pc == IF h = worker[w].row.approvedHash THEN "hashed" ELSE "void"
               v == [worker[w] EXCEPT !.pc = pc, !.hash = h,
                       !.body = <<worker[w].row.to, worker[w].row.text, files[worker[w].e]>>]
    <3>1. worker' = [worker EXCEPT ![w] = v]
      BY <2>2, <2>4 DEF ReadAttachments
    <3>2. v.pc = pc /\ v.hash = v.body
      BY <2>2 DEF ActualHash, ContentHash, WorkerState
    <3>3. v.pc # "claimed" /\ Checked(v)
      BY <3>2 DEF Checked
    <3> HIDE DEF v
    <3>4. WorkersQuiet
      BY <3>1, <3>3, OneWorkerQuiet
    <3> QED
      BY <1>0, <2>4, <3>4 DEF ReadAttachments, UnchangedBySend, Quiet
  <2>5. ASSUME NEW pc \in {"approver", "void", "address", "cancel", "ready"}, NEW d,
               worker[w].pc \in {"hashed", "approver", "address"},
               \/ Goto(w, pc)
               \/ worker' = [worker EXCEPT ![w].pc = pc, ![w].day = d]
        PROVE  WorkersQuiet
    <3>1. worker[w].hash = worker[w].body
      BY <2>5 DEF ApprovalInv, HashOfBody
    <3>2. PICK v : /\ worker' = [worker EXCEPT ![w] = v] /\ v.pc = pc /\ v.hash = v.body
      <4>1. CASE Goto(w, pc)
        <5>1. worker' = [worker EXCEPT ![w] = [worker[w] EXCEPT !.pc = pc]]
          BY <2>2, <4>1 DEF Goto
        <5>2. [worker[w] EXCEPT !.pc = pc].pc = pc /\ [worker[w] EXCEPT !.pc = pc].hash = [worker[w] EXCEPT !.pc = pc].body
          BY <2>2, <3>1 DEF WorkerState
        <5> QED
          BY <5>1, <5>2
      <4>2. CASE worker' = [worker EXCEPT ![w].pc = pc, ![w].day = d]
        <5> DEFINE v == [worker[w] EXCEPT !.pc = pc, !.day = d]
        <5>1. worker' = [worker EXCEPT ![w] = v]
          BY <2>2, <4>2
        <5>2. v.pc = pc /\ v.hash = v.body
          BY <2>2, <3>1 DEF WorkerState
        <5> HIDE DEF v
        <5> QED
          BY <5>1, <5>2
      <4> QED
        BY <2>5, <4>1, <4>2
    <3>3. v.pc # "claimed" /\ Checked(v)
      BY <3>2 DEF Checked
    <3> QED
      BY <3>2, <3>3, OneWorkerQuiet
  <2>6. CASE CheckApprover(w)
    <3>1. WorkersQuiet
      BY <2>5, <2>6 DEF CheckApprover
    <3> QED
      BY <1>0, <2>6, <3>1 DEF CheckApprover, Quiet
  <2>7. CASE CheckSuppressed(w)
    <3>1. WorkersQuiet
      BY <2>5, <2>7 DEF CheckSuppressed
    <3> QED
      BY <1>0, <2>7, <3>1 DEF CheckSuppressed, Quiet
  <2>8. CASE CheckProspect(w)
    <3>1. WorkersQuiet
      BY <2>5, <2>8 DEF CheckProspect
    <3> QED
      BY <1>0, <2>8, <3>1 DEF CheckProspect, Quiet
  <2>9. CASE Withdraw(w)
    <3>1. NoNewApproval
      <4>1. {"pending_approval", "cancelled"} \subseteq Statuses \ {"approved"}
        BY DEF Statuses
      <4> QED
        BY <1>0, <2>1, <2>9, <4>1, StatusQuiet DEF Withdraw
    <3> QED
      BY <2>9, <3>1, ReturnQuiet DEF Withdraw, Quiet
  <2>10. CASE RecordSent(w)
    BY <2>1, <2>10, SettleQuiet, ReturnQuiet DEF RecordSent, Quiet
  <2>11. CASE RecordSentFails(w) \/ MarkFailedFails(w)
    BY <1>0, <2>11, ReturnQuiet DEF RecordSentFails, MarkFailedFails, Quiet
  <2>12. CASE MarkFailed(w)
    BY <2>1, <2>12, SettleQuiet, ReturnQuiet DEF MarkFailed, Quiet
  <2>13. CASE SweepFail(w)
    BY <2>1, <2>13, SettleQuiet, ReturnQuiet DEF SweepFail, Quiet
  <2> QED
    BY <1>9, <2>3, <2>4, <2>6, <2>7, <2>8, <2>9, <2>10, <2>11, <2>12, <2>13 DEF Progress
<1>10. ASSUME NEW w \in Workers, Crash(w) PROVE Quiet
  BY <1>0, <1>10, ReturnQuiet DEF Crash, Quiet
<1>11. CASE UNCHANGED vars
  BY <1>0, <1>11, WorkersStay DEF vars, Quiet
<1> QED
  BY <1>1, <1>2, <1>4, <1>5, <1>6, <1>7, <1>9, <1>10, <1>11
  DEF Next, Review, Progress

LEMMA ApprovalStep == TypeOK /\ ApprovalInv /\ [Next]_vars => ApprovalInv'
  BY StepKinds, QuietStep, ApproveStepInv, TakesInv, ProviderInv DEF Quiet

-----------------------------------------------------------------------------
\* The approvals, claims and messages are consistent in every reachable state.
THEOREM ApprovalsConsistent == Spec => [](TypeOK /\ ApprovalInv)
<1>1. Init => TypeOK /\ ApprovalInv
  BY TypeInit, ApprovalInit
<1>2. ApprovalInv => Counted
  BY DEF ApprovalInv, OpenApproval, Counted
<1>3. TypeOK /\ ApprovalInv /\ [Next]_vars => (TypeOK /\ ApprovalInv)'
  BY <1>2, TypeStep, ApprovalStep
<1> QED
  BY <1>1, <1>3, PTL DEF Spec

\* Every variable keeps its type, whatever the workers and reviewers do.
THEOREM TypeCorrect == Spec => []TypeOK
  BY ApprovalsConsistent, PTL

\* sendApproved hands the provider at most one message per approval, and only
\* the content that was approved: re-run jobs, lapsed leases, overlapping
\* workers, crashes, frozen processes and edits included.
THEOREM SentOncePerApproval == Spec => []OncePerApproval
<1>1. ApprovalInv => OncePerApproval
  BY DEF ApprovalInv
<1> QED
  BY <1>1, ApprovalsConsistent, PTL

-----------------------------------------------------------------------------
(* How a step changes a row. *)

\* The row does not enter sent or sending, and stays approved only with its
\* recipient.
Kept(old, row) ==
  /\ row.status \in {"sent", "sending"} => old.status = row.status
  /\ row.status = "approved" => old.status = "approved" /\ row.to = old.to

Plain == \A e \in Emails : Kept(email[e], email'[e])

LEMMA GuardKept ==
  ASSUME NEW old \in EmailRow, NEW new \in EmailRow, NEW actor, NEW A,
         NEW row \in EmailGuard(old, new, actor, A),
         new.status \notin {"sent", "sending", "approved"} \/ new.status = old.status
  PROVE  Kept(old, row)
<1>1. row = GuardStores(old, new, actor)
  BY DEF EmailGuard
<1>2. row.status = StatusStored(old, new) /\ row.to = new.to
  BY <1>1 DEF GuardStores, EmailRow
<1>3. row.status \in {new.status, "pending_approval"}
  BY <1>2 DEF StatusStored
<1>4. ASSUME row.status = "approved" PROVE old.status = "approved" /\ row.to = old.to
  <2>1. new.status = "approved" /\ old.status = "approved"
    BY <1>3, <1>4
  <2>2. RowHash(new) = RowHash(old)
    BY <1>2, <1>4, <2>1 DEF StatusStored
  <2> QED
    BY <1>2, <2>1, <2>2 DEF RowHash, ContentHash
<1> QED
  BY <1>3, <1>4 DEF Kept

LEMMA StatusKept ==
  ASSUME NEW old \in EmailRow, NEW st \in Statuses \ {"sent", "sending", "approved"},
         NEW actor, NEW A, NEW row \in EmailGuard(old, [old EXCEPT !.status = st], actor, A)
  PROVE  Kept(old, row)
<1>1. [old EXCEPT !.status = st] \in EmailRow /\ [old EXCEPT !.status = st].status = st
  BY StatusType DEF EmailRow
<1> HIDE DEF EmailRow
<1> QED
  BY <1>1, GuardKept

LEMMA SyncedKept ==
  ASSUME NEW old \in EmailRow, NEW seen \in SUBSET Files, NEW row \in Synced(old, seen)
  PROVE  Kept(old, row)
<1> DEFINE new == [old EXCEPT !.hashes = seen]
<1>1. new \in EmailRow /\ new.status = old.status
  BY DEF EmailRow
<1>2. row \in EmailGuard(old, new, NoUser, admins)
  BY DEF Synced
<1> HIDE DEF new
<1> QED
  BY <1>1, <1>2, GuardKept

\* One row changed, the others as they were.
LEMMA OneRow ==
  ASSUME TypeOK, NEW e, NEW row, email' = [email EXCEPT ![e] = row]
  PROVE  /\ \A d \in Emails : d # e => Kept(email[d], email'[d])
         /\ e \in Emails => email'[e] = row
  BY DEF TypeOK, Kept

LEMMA OneKept ==
  ASSUME TypeOK, NEW e \in Emails, NEW row, email' = [email EXCEPT ![e] = row],
         Kept(email[e], row)
  PROVE  Plain
  BY OneRow DEF Plain

LEMMA StatusPlain ==
  ASSUME TypeOK, NEW e \in Emails, NEW st \in {"pending_approval", "rejected", "cancelled", "failed"},
         NEW actor,
         NEW row \in EmailGuard(email[e], [email[e] EXCEPT !.status = st], actor, admins),
         email' = [email EXCEPT ![e] = row]
  PROVE  Plain
<1>1. st \in Statuses \ {"sent", "sending", "approved"} /\ email[e] \in EmailRow
  BY DEF Statuses, TypeOK
<1>2. Kept(email[e], row)
  BY <1>1, StatusKept
<1> QED
  BY <1>2, OneKept

LEMMA FailedPlain ==
  ASSUME TypeOK, NEW e \in Emails, Settle(e, "failed")
  PROVE  Plain
<1>1. PICK row \in Settled(e, "failed") : email' = [email EXCEPT ![e] = row]
  BY DEF Settle
<1>2. CASE row = email[e]
  BY <1>1, <1>2, OneKept DEF Kept
<1>3. CASE row \in EmailGuard(email[e], [email[e] EXCEPT !.status = "failed"], NoUser, admins)
  BY <1>1, <1>3, StatusPlain
<1> QED
  BY <1>1, <1>2, <1>3 DEF Settled

LEMMA CancelPlain ==
  ASSUME TypeOK, NEW hit, email' = CancelUnsent(hit)
  PROVE  /\ Plain
         /\ \A e \in Emails \cap hit : email'[e].status # "approved"
<1>1. ASSUME NEW e \in Emails
      PROVE  /\ Kept(email[e], email'[e])
             /\ e \in hit => email'[e].status # "approved"
  <2>1. email[e] \in EmailRow
    BY DEF TypeOK
  <2>2. CASE email[e].status \in Unsent /\ e \in hit
    <3>1. email'[e] = [email[e] EXCEPT !.status = "cancelled"]
      BY <2>2 DEF CancelUnsent
    <3>2. email'[e].status = "cancelled"
      BY <2>1, <3>1 DEF EmailRow
    <3> QED
      BY <3>2 DEF Kept
  <2>3. CASE ~(email[e].status \in Unsent /\ e \in hit)
    <3>1. email'[e] = email[e]
      BY <2>3 DEF CancelUnsent
    <3> QED
      BY <2>3, <3>1 DEF Kept, Unsent
  <2> QED
    BY <2>2, <2>3
<1> QED
  BY <1>1 DEF Plain

\* Only an approval, a winning claim and recordSent change a row otherwise.
LEMMA RowSteps ==
  ASSUME TypeOK, [Next]_vars
  PROVE  \/ Plain
         \/ \E u \in Users, e \in Emails : Approve(u, e)
         \/ \E w \in Workers : Takes(w)
         \/ \E w \in Workers : RecordSent(w)
<1> USE DEF rowVars, people, outreach, clock, sendVars, ghosts
<1>0. UNCHANGED email => Plain
  BY DEF Plain, Kept
<1>1. ASSUME NEW e \in Emails, SaveDraft(e) PROVE Plain
  <2>1. PICK st \in {"draft", "pending_approval"}, t \in Texts, a \in Addresses :
          email' = [email EXCEPT ![e] = InsertedRow(st, a, t)]
    BY <1>1 DEF SaveDraft
  <2>2. Kept(email[e], InsertedRow(st, a, t))
    BY DEF Kept, InsertedRow
  <2> QED
    BY <2>1, <2>2, OneKept
<1>2. ASSUME NEW u \in Users, NEW e \in Emails, Review(u, e), ~Approve(u, e) PROVE Plain
  <2>0. email[e] \in EmailRow /\ files[e] \subseteq Files
    BY DEF TypeOK
  <2>1. CASE LoadForApproval(u, e) \/ ApproveConflict(u, e)
    BY <1>0, <2>1 DEF LoadForApproval, ApproveConflict
  <2>2. ASSUME NEW a \in Addresses, NEW t \in Texts, Edit(u, e, a, t) PROVE Plain
    <3> DEFINE new == [email[e] EXCEPT !.to = a, !.text = t]
    <3>1. new \in EmailRow /\ new.status = email[e].status
      BY <2>0, EditType DEF EmailRow
    <3>2. PICK r1 \in EmailGuard(email[e], new, u, admins) :
            \E r2 \in IF email[e].status = "draft"
                      THEN EmailGuard(r1, [r1 EXCEPT !.status = "pending_approval"], u, admins)
                      ELSE {r1} :
              email' = [email EXCEPT ![e] = r2]
      BY <2>2 DEF Edit
    <3> HIDE DEF new
    <3>3. r1 \in EmailRow /\ Kept(email[e], r1)
      BY <2>0, <3>1, <3>2, GuardType, GuardKept
    <3>4. PICK r2 : email' = [email EXCEPT ![e] = r2] /\ Kept(r1, r2)
      <4>1. CASE email[e].status = "draft"
        <5>1. "pending_approval" \in Statuses \ {"sent", "sending", "approved"}
          BY DEF Statuses
        <5> QED
          BY <3>2, <3>3, <4>1, <5>1, StatusKept
      <4>2. CASE email[e].status # "draft"
        BY <3>2, <4>2 DEF Kept
      <4> QED
        BY <4>1, <4>2
    <3>5. Kept(email[e], r2)
      BY <3>3, <3>4 DEF Kept
    <3> QED
      BY <3>4, <3>5, OneKept
  <2>3. ASSUME NEW f \in Files, AddAttachment(u, e, f) \/ RemoveAttachment(u, e, f) PROVE Plain
    <3>1. PICK seen \in SUBSET Files :
            \E row \in Synced(email[e], seen) : email' = [email EXCEPT ![e] = row]
      <4>1. files[e] \union {f} \in SUBSET Files /\ files[e] \ {f} \in SUBSET Files
        BY <2>0
      <4> QED
        BY <2>3, <4>1 DEF AddAttachment, RemoveAttachment
    <3> QED
      BY <2>0, <3>1, SyncedKept, OneKept
  <2>4. ASSUME NEW f \in Files, NEW g \in Files, AddOverlapping(u, e, f, g) PROVE Plain
    <3>1. files[e] \union {f} \in SUBSET Files /\ files[e] \union {g} \in SUBSET Files
      BY <2>0
    <3>2. PICK r1 \in Synced(email[e], files[e] \union {f}) :
            \E r2 \in Synced(r1, files[e] \union {g}) : email' = [email EXCEPT ![e] = r2]
      BY <2>4 DEF AddOverlapping
    <3>3. PICK r2 \in Synced(r1, files[e] \union {g}) : email' = [email EXCEPT ![e] = r2]
      BY <3>2
    <3>4. r1 \in EmailRow
      BY <2>0, <3>1, <3>2, SyncedType
    <3>5. Kept(email[e], r1) /\ Kept(r1, r2)
      BY <2>0, <3>1, <3>2, <3>3, <3>4, SyncedKept
    <3>6. Kept(email[e], r2)
      BY <3>5 DEF Kept
    <3> QED
      BY <3>3, <3>6, OneKept
  <2>5. ASSUME NEW redraft \in BOOLEAN, Reject(u, e, redraft) PROVE Plain
    BY <2>5, StatusPlain DEF Reject
  <2>6. CASE CancelEmail(u, e)
    BY <2>6, StatusPlain DEF CancelEmail
  <2>7. CASE ReopenFailed(u, e)
    BY <2>7, StatusPlain DEF ReopenFailed
  <2> QED
    BY <1>2, <2>1, <2>2, <2>3, <2>4, <2>5, <2>6, <2>7 DEF Review
<1>3. ASSUME Environment PROVE Plain
  BY <1>0, <1>3, CancelPlain DEF Environment, Suppress, RemoveSuppression, StartProspect, StopOnReply,
     SetProspectStatus, EndSequence, StopQuietly, SetPaused, SetAdmin, Midnight
<1>4. ASSUME NEW w \in Workers, Progress(w), ~RecordSent(w) PROVE Plain \/ Takes(w)
  <2>1. worker[w].pc # "idle" => worker[w].e \in Emails
    BY DEF TypeOK, WorkersOK
  <2>2. CASE Claim(w)
    BY <1>0, <2>2 DEF Claim, Takes
  <2>3. CASE Withdraw(w)
    BY <1>0, <2>1, <2>3, StatusPlain DEF Withdraw
  <2>4. CASE MarkFailed(w) \/ SweepFail(w)
    BY <2>1, <2>4, FailedPlain DEF MarkFailed, SweepFail
  <2> QED
    BY <1>0, <1>4, <2>2, <2>3, <2>4 DEF Progress, ReadEmail, ReadAttachments, CheckApprover,
       CheckSuppressed, CheckProspect, Provider, RecordSentFails, MarkFailedFails
<1>5. CASE \/ \E e \in Emails : GrowOld(e)
           \/ \E w \in Workers, e \in Emails : BeginSend(w, e) \/ Sweep(w, e)
           \/ \E w \in Workers : Crash(w)
           \/ UNCHANGED vars
  BY <1>0, <1>5 DEF GrowOld, BeginSend, Sweep, SweepLook, Crash, vars
<1> QED
  BY <1>1, <1>2, <1>3, <1>4, <1>5 DEF Next, Review

\* Only an opt-out and a reply add to what speaks against an email.
OutreachKept ==
  /\ suppressed' \subseteq suppressed
  /\ \A p \in Prospects : prospect'[p] = "replied" => prospect[p] = "replied"

LEMMA OutreachSteps ==
  ASSUME TypeOK, [Next]_vars
  PROVE  \/ OutreachKept
         \/ \E a \in Addresses : Suppress(a)
         \/ \E p \in Prospects : StopOnReply(p)
<1> USE DEF OutreachKept, rowVars, people, outreach, clock, sendVars, ghosts, StopProspectOf
<1>1. ASSUME NEW u \in Users, NEW e \in Emails, Review(u, e) PROVE OutreachKept
  <2>1. CASE UNCHANGED outreach
    BY <2>1
  <2>2. ASSUME NEW redraft \in BOOLEAN, Reject(u, e, redraft) PROVE OutreachKept
    BY <2>2 DEF Reject
  <2>3. CASE CancelEmail(u, e)
    BY <2>3 DEF CancelEmail
  <2> QED
    BY <1>1, <2>1, <2>2, <2>3 DEF Review, LoadForApproval, ApproveConflict, Approve, Edit,
       AddAttachment, RemoveAttachment, AddOverlapping, ReopenFailed
<1>2. ASSUME NEW w \in Workers, Progress(w) PROVE OutreachKept
  <2>1. CASE UNCHANGED outreach
    BY <2>1
  <2>2. CASE RecordSent(w)
    BY <2>2 DEF RecordSent
  <2> QED
    BY <1>2, <2>1, <2>2 DEF Progress, ReadEmail, ReadAttachments, CheckApprover,
       CheckSuppressed, CheckProspect, Withdraw, Claim, Provider, RecordSentFails, MarkFailed,
       MarkFailedFails, SweepFail, UnchangedBySend
<1>3. ASSUME Environment,
             \A a \in Addresses : ~Suppress(a), \A p \in Prospects : ~StopOnReply(p)
      PROVE  OutreachKept
  <2>1. CASE UNCHANGED outreach
    BY <2>1
  <2>2. ASSUME NEW p \in Prospects, SetProspectStatus(p) \/ StopQuietly(p) \/ StartProspect(p)
        PROVE  OutreachKept
    BY <2>2 DEF SetProspectStatus, EndSequence, StopQuietly, StartProspect, TypeOK
  <2>3. ASSUME NEW a \in Addresses, RemoveSuppression(a) PROVE OutreachKept
    BY <2>3 DEF RemoveSuppression
  <2> QED
    BY <1>3, <2>1, <2>2, <2>3 DEF Environment, SetPaused, SetAdmin, Midnight
<1>4. CASE \/ \E e \in Emails : SaveDraft(e) \/ GrowOld(e)
           \/ \E w \in Workers, e \in Emails : BeginSend(w, e) \/ Sweep(w, e)
           \/ \E w \in Workers : Crash(w)
           \/ UNCHANGED vars
  BY <1>4 DEF SaveDraft, GrowOld, BeginSend, Sweep, SweepLook, Crash, UnchangedBySend, vars
<1> QED
  BY <1>1, <1>2, <1>3, <1>4 DEF Next

\* Only an approval notes what spoke against its email.
LEMMA ObjectedSteps ==
  ASSUME [Next]_vars
  PROVE  UNCHANGED objected \/ \E u \in Users, e \in Emails : Approve(u, e)
<1> USE DEF ghosts
<1>1. ASSUME NEW u \in Users, NEW e \in Emails, Review(u, e), ~Approve(u, e)
      PROVE  UNCHANGED objected
  BY <1>1 DEF Review, LoadForApproval, ApproveConflict, Edit, AddAttachment, RemoveAttachment,
     AddOverlapping, Reject, CancelEmail, ReopenFailed
<1>2. ASSUME NEW w \in Workers, Progress(w) PROVE UNCHANGED objected
  BY <1>2 DEF Progress, ReadEmail, ReadAttachments, CheckApprover, CheckSuppressed, CheckProspect,
     Withdraw, Claim, Provider, RecordSent, RecordSentFails, MarkFailed, MarkFailedFails, SweepFail
<1>3. CASE \/ Environment
           \/ \E e \in Emails : SaveDraft(e) \/ GrowOld(e)
           \/ \E w \in Workers, e \in Emails : BeginSend(w, e) \/ Sweep(w, e)
           \/ \E w \in Workers : Crash(w)
           \/ UNCHANGED vars
  BY <1>3 DEF Environment, Suppress, RemoveSuppression, StartProspect, StopOnReply,
     SetProspectStatus, EndSequence, StopQuietly, SetPaused, SetAdmin, Midnight, SaveDraft, GrowOld,
     BeginSend, Sweep, SweepLook, Crash, vars
<1> QED
  BY <1>1, <1>2, <1>3 DEF Next

-----------------------------------------------------------------------------
(* No recipient who opted out, and no prospect who replied, is claimed.    *)

\* What speaks against an approved email spoke against it when it was approved.
NoNewObjection ==
  \A e \in Emails : email[e].status = "approved" => Objections(e) \subseteq objected[e]

LEMMA ObjectionStep == TypeOK /\ NoNewObjection /\ [Next]_vars => NoNewObjection'
<1> SUFFICES ASSUME TypeOK, NoNewObjection, [Next]_vars,
                    NEW e \in Emails, email'[e].status = "approved"
             PROVE  Objections(e)' \subseteq objected'[e]
  BY DEF NoNewObjection
<1>1. ASSUME NEW u \in Users, Approve(u, e) PROVE Objections(e)' \subseteq objected'[e]
  <2>1. objected'[e] = Objections(e) /\ UNCHANGED <<suppressed, prospect>>
    BY <1>1 DEF Approve, TypeOK, outreach
  <2>2. email'[e].to = email[e].to
    <3>1. PICK r1 \in Submitted(e, u) :
            \E r2 \in EmailGuard(r1, [r1 EXCEPT !.status = "approved"], u, admins) :
              email' = [email EXCEPT ![e] = r2]
      BY <1>1 DEF Approve
    <3>2. email[e] \in EmailRow
      BY DEF TypeOK
    <3>3. r1 \in EmailRow /\ r1.to = email[e].to
      <4>1. CASE email[e].status = "draft"
        <5> DEFINE new == [email[e] EXCEPT !.status = "pending_approval"]
        <5>1. new \in EmailRow /\ new.to = email[e].to
          <6>1. "pending_approval" \in Statuses
            BY DEF Statuses
          <6> QED
            BY <3>2, <6>1, StatusType DEF EmailRow
        <5>2. r1 \in EmailGuard(email[e], new, u, admins)
          BY <3>1, <4>1 DEF Submitted
        <5>3. new \in EmailRow => r1.to = new.to
          BY <5>2 DEF EmailGuard, GuardStores, EmailRow
        <5> HIDE DEF new
        <5>4. r1 \in EmailRow
          BY <3>2, <5>1, <5>2, GuardType
        <5> QED
          BY <5>1, <5>3, <5>4
      <4>2. CASE email[e].status # "draft"
        BY <3>1, <3>2, <4>2 DEF Submitted
      <4> QED
        BY <4>1, <4>2
    <3>4. PICK r2 \in EmailGuard(r1, [r1 EXCEPT !.status = "approved"], u, admins) :
            email' = [email EXCEPT ![e] = r2]
      BY <3>1
    <3>5. r2.to = r1.to
      BY <3>3, <3>4 DEF EmailGuard, GuardStores, EmailRow
    <3> QED
      BY <3>3, <3>4, <3>5 DEF TypeOK
  <2> QED
    BY <2>1, <2>2 DEF Objections
<1>2. ASSUME ~\E u \in Users : Approve(u, e)
      PROVE  /\ email[e].status = "approved" /\ email'[e].to = email[e].to
             /\ objected'[e] = objected[e]
  <2>1. Kept(email[e], email'[e])
    <3>1. ASSUME NEW u \in Users, NEW d \in Emails, Approve(u, d) PROVE Kept(email[e], email'[e])
      <4>1. d # e
        BY <1>2, <3>1
      <4> QED
        BY <3>1, <4>1, OneRow DEF Approve
    <3>2. ASSUME NEW w \in Workers, Takes(w) PROVE Kept(email[e], email'[e])
      <4>1. PICK row \in ClaimedRows(w) : email' = [email EXCEPT ![worker[w].e] = row]
        BY <3>2 DEF Takes
      <4>2. CASE worker[w].e = e
        <5>1. /\ email[e].status = "approved"
              /\ row = GuardStores(email[e], [email[e] EXCEPT !.status = "sending"], NoUser)
          BY <4>1, <4>2 DEF ClaimedRows, EmailGuard
        <5>2. row.status # "approved"
          BY <5>1 DEF GuardStores, StatusStored, RowHash, TypeOK, EmailRow
        <5> QED
          BY <4>1, <4>2, <5>2, OneRow
      <4> QED
        BY <4>1, <4>2, OneRow
    <3>3. ASSUME NEW w \in Workers, RecordSent(w) PROVE Kept(email[e], email'[e])
      <4>1. PICK row \in Settled(worker[w].e, "sent") : email' = [email EXCEPT ![worker[w].e] = row]
        BY <3>3 DEF RecordSent, Settle
      <4>2. CASE worker[w].e = e
        <5>1. CASE row = email[e]
          BY <4>1, <4>2, <5>1 DEF Kept, TypeOK
        <5>2. CASE row \in EmailGuard(email[e], [email[e] EXCEPT !.status = "sent"], NoUser, admins)
          <6>1. row = GuardStores(email[e], [email[e] EXCEPT !.status = "sent"], NoUser)
            BY <5>2 DEF EmailGuard
          <6>2. row.status # "approved"
            BY <6>1 DEF GuardStores, StatusStored, RowHash, TypeOK, EmailRow
          <6> QED
            BY <4>1, <4>2, <6>2, OneRow
        <5> QED
          BY <4>1, <4>2, <5>1, <5>2 DEF Settled
      <4> QED
        BY <4>1, <4>2, OneRow
    <3> QED
      BY <3>1, <3>2, <3>3, RowSteps DEF Plain
  <2>2. objected'[e] = objected[e]
    <3>1. UNCHANGED objected \/ \E u \in Users, d \in Emails : Approve(u, d)
      BY ObjectedSteps
    <3>2. ASSUME NEW u \in Users, NEW d \in Emails, Approve(u, d) PROVE objected'[e] = objected[e]
      <4>1. d # e
        BY <1>2, <3>2
      <4> QED
        BY <3>2, <4>1 DEF Approve, TypeOK
    <3> QED
      BY <3>1, <3>2
  <2> QED
    BY <2>1, <2>2 DEF Kept
<1>3. ASSUME ~\E u \in Users : Approve(u, e) PROVE Objections(e)' \subseteq Objections(e)
  <2>1. CASE OutreachKept
    BY <1>2, <1>3, <2>1, SendAssumption DEF OutreachKept, Objections
  <2>2. ASSUME NEW a \in Addresses, Suppress(a) PROVE Objections(e)' \subseteq Objections(e)
    <3>1. email' = CancelUnsent({d \in Emails : email[d].to = a})
      BY <2>2 DEF Suppress
    <3>2. email[e].to # a
      BY <3>1, CancelPlain
    <3>3. \A p \in Prospects : prospect'[p] = "replied" => prospect[p] = "replied"
      BY <2>2 DEF Suppress
    <3>4. suppressed' = suppressed \union {a}
      BY <2>2 DEF Suppress
    <3> QED
      BY <1>2, <1>3, <3>2, <3>3, <3>4, SendAssumption DEF Objections
  <2>3. ASSUME NEW p \in Prospects, StopOnReply(p) PROVE Objections(e)' \subseteq Objections(e)
    <3>1. email' = CancelUnsent({d \in Emails : ProspectOf[d] = p})
      BY <2>3 DEF StopOnReply, EndSequence
    <3>2. ProspectOf[e] # p
      BY <3>1, CancelPlain
    <3>3. UNCHANGED suppressed /\ prospect' = [prospect EXCEPT ![p] = "replied"]
      BY <2>3 DEF StopOnReply, EndSequence
    <3> QED
      BY <1>2, <1>3, <3>2, <3>3, SendAssumption DEF Objections, TypeOK
  <2> QED
    BY <2>1, <2>2, <2>3, OutreachSteps
<1> QED
  BY <1>1, <1>2, <1>3 DEF NoNewObjection

\* An opt-out or a reply stored after an approval keeps the email from being
\* claimed: suppress() and stopSequenceOnReply() cancel the unsent emails in
\* their own transactions, and a change of recipient takes the approval away.
THEOREM OptOutsRespected == Spec => ClaimRespectsOptOut
<1>1. Init => NoNewObjection
  BY DEF Init, NoNewObjection, Blank, InsertedRow
<1>2. TypeOK /\ NoNewObjection /\ [Next]_vars =>
        [\A e \in Emails : ClaimStep(e) => Objections(e) \subseteq objected[e]]_vars
  BY DEF NoNewObjection, ClaimStep
<1> QED
  BY <1>1, <1>2, ObjectionStep, TypeCorrect, PTL DEF Spec, ClaimRespectsOptOut

-----------------------------------------------------------------------------
(* What a step does to the workers, the counts and the mailbox.            *)

\* Local states that say something of the provider or of the daily count.
Telling == {"claimed", "refused", "accepted", "found"}

\* No worker enters one of them, and nothing is counted or sent.
Calm ==
  /\ UNCHANGED <<sentCount, acceptedOn, mailbox>>
  /\ \A w \in Workers : worker'[w].pc \in Telling => worker'[w] = worker[w]

LEMMA MoveCalm ==
  ASSUME TypeOK, NEW w \in Workers, NEW v, worker' = [worker EXCEPT ![w] = v],
         v.pc \notin Telling, UNCHANGED <<sentCount, acceptedOn, mailbox>>
  PROVE  Calm
  BY DEF Calm, TypeOK, WorkersOK

LEMMA ReturnCalm ==
  ASSUME TypeOK, NEW w \in Workers, Return(w), UNCHANGED <<sentCount, acceptedOn, mailbox>>
  PROVE  Calm
<1>1. Idle.pc \notin Telling
  BY DEF Idle, Telling
<1> HIDE DEF Idle
<1> QED
  BY <1>1, MoveCalm DEF Return

LEMMA GotoCalm ==
  ASSUME TypeOK, NEW w \in Workers, NEW pc, pc \notin Telling,
         UNCHANGED <<sentCount, acceptedOn, mailbox>>, Goto(w, pc)
  PROVE  Calm
<1>1. worker' = [worker EXCEPT ![w] = [worker[w] EXCEPT !.pc = pc]]
  BY DEF Goto, TypeOK, WorkersOK
<1>2. [worker[w] EXCEPT !.pc = pc].pc = pc
  BY DEF TypeOK, WorkersOK, WorkerState
<1> QED
  BY <1>1, <1>2, MoveCalm

LEMMA WorkerSteps ==
  ASSUME TypeOK, [Next]_vars
  PROVE  \/ Calm
         \/ \E w \in Workers, e \in Emails, answered \in BOOLEAN : SweepLook(w, e, answered)
         \/ \E w \in Workers : Claim(w) /\ Takes(w)
         \/ \E w \in Workers, answer \in {"accepted", "refused", "unknown"}, taken \in BOOLEAN :
              Provider(w, answer, taken)
         \/ \E w \in Workers : MarkFailed(w)
<1> USE DEF ghosts, sendVars
<1>1. UNCHANGED <<worker, sentCount, acceptedOn, mailbox>> => Calm
  BY DEF Calm
<1>2. ASSUME NEW u \in Users, NEW e \in Emails, Review(u, e) PROVE Calm
  BY <1>1, <1>2 DEF Review, LoadForApproval, ApproveConflict, Approve, Edit, AddAttachment,
     RemoveAttachment, AddOverlapping, Reject, CancelEmail, ReopenFailed
<1>3. CASE \/ Environment
           \/ \E e \in Emails : SaveDraft(e) \/ GrowOld(e)
           \/ UNCHANGED vars
  BY <1>1, <1>3 DEF Environment, Suppress, RemoveSuppression, StartProspect, StopOnReply,
     SetProspectStatus, EndSequence, StopQuietly, SetPaused, SetAdmin, Midnight, SaveDraft, GrowOld,
     vars
<1>4. ASSUME NEW w \in Workers, NEW e \in Emails, BeginSend(w, e) PROVE Calm
  <2>1. [Idle EXCEPT !.pc = "begun", !.e = e].pc \notin Telling
    BY DEF Idle, Telling
  <2> QED
    BY <1>4, <2>1, MoveCalm DEF BeginSend
<1>5. ASSUME NEW w \in Workers, Crash(w) PROVE Calm
  BY <1>5, ReturnCalm DEF Crash
<1>6. ASSUME NEW w \in Workers, Claim(w) PROVE Calm \/ Takes(w)
  <2>1. CASE Return(w) /\ UNCHANGED <<email, sentCount, overdue, acked, claimed>>
    BY <1>6, <2>1, ReturnCalm DEF Claim
  <2> QED
    BY <1>6, <2>1 DEF Claim, Takes
<1>7. ASSUME NEW w \in Workers, Progress(w), ~Claim(w), ~MarkFailed(w),
             \A answer \in {"accepted", "refused", "unknown"}, taken \in BOOLEAN :
               ~Provider(w, answer, taken)
      PROVE  Calm
  <2>0. worker \in [Workers -> WorkerState] /\ worker[w] \in WorkerState
    BY DEF TypeOK, WorkersOK
  <2>1. CASE ReadEmail(w)
    <3>1. CASE Return(w)
      BY <2>1, <3>1, ReturnCalm DEF ReadEmail
    <3>2. CASE worker' = [worker EXCEPT ![w].pc = "row", ![w].row = email[worker[w].e]]
      <4> DEFINE v == [worker[w] EXCEPT !.pc = "row", !.row = email[worker[w].e]]
      <4>1. worker' = [worker EXCEPT ![w] = v] /\ v.pc = "row"
        BY <2>0, <3>2 DEF WorkerState
      <4> HIDE DEF v
      <4>2. v.pc \notin Telling
        BY <4>1 DEF Telling
      <4> QED
        BY <2>1, <4>1, <4>2, MoveCalm DEF ReadEmail
    <3> QED
      BY <2>1, <3>1, <3>2 DEF ReadEmail
  <2>2. CASE ReadAttachments(w)
    <3> DEFINE h == ActualHash(worker[w].row, files[worker[w].e])
               pc == IF h = worker[w].row.approvedHash THEN "hashed" ELSE "void"
               v == [worker[w] EXCEPT !.pc = pc, !.hash = h,
                       !.body = <<worker[w].row.to, worker[w].row.text, files[worker[w].e]>>]
    <3>1. worker' = [worker EXCEPT ![w] = v] /\ v.pc = pc
      BY <2>0, <2>2 DEF ReadAttachments, WorkerState
    <3>2. pc \notin Telling
      BY DEF Telling
    <3> HIDE DEF v, pc
    <3> QED
      BY <2>2, <3>1, <3>2, MoveCalm DEF ReadAttachments
  <2>3. CASE CheckApprover(w)
    <3>1. "approver" \notin Telling /\ "void" \notin Telling
      BY DEF Telling
    <3> QED
      BY <2>3, <3>1, GotoCalm DEF CheckApprover
  <2>4. CASE CheckSuppressed(w)
    <3>1. "address" \notin Telling /\ "cancel" \notin Telling
      BY DEF Telling
    <3> QED
      BY <2>4, <3>1, GotoCalm DEF CheckSuppressed
  <2>5. CASE CheckProspect(w)
    <3>1. "ready" \notin Telling /\ "cancel" \notin Telling
      BY DEF Telling
    <3>2. CASE worker' = [worker EXCEPT ![w].pc = "ready", ![w].day = day]
      <4> DEFINE v == [worker[w] EXCEPT !.pc = "ready", !.day = day]
      <4>1. worker' = [worker EXCEPT ![w] = v] /\ v.pc = "ready"
        BY <2>0, <3>2 DEF WorkerState
      <4> HIDE DEF v
      <4> QED
        BY <2>5, <3>1, <4>1, MoveCalm DEF CheckProspect
    <3> QED
      BY <2>5, <3>1, <3>2, GotoCalm DEF CheckProspect
  <2>6. CASE Withdraw(w) \/ RecordSent(w) \/ RecordSentFails(w) \/ MarkFailedFails(w) \/ SweepFail(w)
    BY <2>6, ReturnCalm DEF Withdraw, RecordSent, RecordSentFails, MarkFailedFails, SweepFail
  <2> QED
    BY <1>7, <2>1, <2>2, <2>3, <2>4, <2>5, <2>6 DEF Progress
<1> QED
  BY <1>2, <1>3, <1>4, <1>5, <1>6, <1>7 DEF Next, Progress, Sweep

\* One worker goes on, with its email and its day; the others rest.
GoesOn(w, pc) ==
  /\ worker'[w].pc = pc /\ worker'[w].e = worker[w].e /\ worker'[w].day = worker[w].day
  /\ \A v \in Workers \ {w} : worker'[v] = worker[v]

LEMMA GotoMoves ==
  ASSUME TypeOK, NEW w \in Workers, NEW pc, Goto(w, pc)
  PROVE  GoesOn(w, pc)
  BY DEF GoesOn, Goto, TypeOK, WorkersOK, WorkerState

LEMMA TakesMoves ==
  ASSUME TypeOK, NEW w \in Workers, Takes(w)
  PROVE  GoesOn(w, "claimed")
<1>1. worker' = [worker EXCEPT ![w].pc = "claimed", ![w].no = approvals[worker[w].e]]
  BY DEF Takes
<1> QED
  BY <1>1 DEF GoesOn, TypeOK, WorkersOK, WorkerState

LEMMA ReturnMoves ==
  ASSUME TypeOK, NEW w \in Workers, Return(w)
  PROVE  worker'[w].pc = "idle" /\ \A v \in Workers \ {w} : worker'[v] = worker[v]
  BY DEF Return, Idle, TypeOK, WorkersOK

-----------------------------------------------------------------------------
(* What is recorded as sent is in the mailbox.                             *)

\* A worker that goes to record a message knows it was accepted.
KnownAccepted ==
  \A w \in Workers : worker[w].pc \in {"accepted", "found"} => worker[w].e \in mailbox

SentInv == SentWasAccepted /\ KnownAccepted

LEMMA SentRows ==
  ASSUME TypeOK, SentInv, [Next]_vars, NEW e \in Emails, email'[e].status = "sent"
  PROVE  e \in mailbox
<1>1. CASE Kept(email[e], email'[e])
  BY <1>1 DEF Kept, SentInv, SentWasAccepted
<1>2. ASSUME NEW u \in Users, NEW d \in Emails, Approve(u, d) PROVE e \in mailbox
  <2>1. CASE d # e
    BY <1>1, <1>2, <2>1, OneRow DEF Approve
  <2>2. CASE d = e
    <3>1. PICK r1 \in Submitted(e, u) :
            \E r2 \in EmailGuard(r1, [r1 EXCEPT !.status = "approved"], u, admins) :
              email' = [email EXCEPT ![e] = r2]
      BY <1>2, <2>2 DEF Approve
    <3>2. r1 \in EmailRow
      <4>1. email[e] \in EmailRow /\ "pending_approval" \in Statuses
        BY DEF TypeOK, Statuses
      <4> QED
        BY <3>1, <4>1, StatusStoreType DEF Submitted
    <3>3. PICK r2 \in EmailGuard(r1, [r1 EXCEPT !.status = "approved"], u, admins) :
            email' = [email EXCEPT ![e] = r2]
      BY <3>1
    <3>4. r2.status # "sent"
      BY <3>2, <3>3 DEF EmailGuard, GuardStores, StatusStored, EmailRow
    <3> QED
      BY <3>3, <3>4 DEF TypeOK
  <2> QED
    BY <2>1, <2>2
<1>3. ASSUME NEW w \in Workers, Takes(w) PROVE e \in mailbox
  <2>1. PICK row \in ClaimedRows(w) : email' = [email EXCEPT ![worker[w].e] = row]
    BY <1>3 DEF Takes
  <2>2. CASE worker[w].e = e
    <3>1. row = GuardStores(email[e], [email[e] EXCEPT !.status = "sending"], NoUser)
      BY <2>1, <2>2 DEF ClaimedRows, EmailGuard
    <3>2. row.status # "sent"
      BY <3>1 DEF GuardStores, StatusStored, TypeOK, EmailRow
    <3> QED
      BY <2>1, <2>2, <3>2, OneRow
  <2> QED
    BY <1>1, <2>1, <2>2, OneRow
<1>4. ASSUME NEW w \in Workers, RecordSent(w) PROVE e \in mailbox
  <2>1. PICK row \in Settled(worker[w].e, "sent") : email' = [email EXCEPT ![worker[w].e] = row]
    BY <1>4 DEF RecordSent, Settle
  <2>2. CASE worker[w].e = e
    BY <1>4, <2>2 DEF RecordSent, SentInv, KnownAccepted
  <2> QED
    BY <1>1, <2>1, <2>2, OneRow
<1> QED
  BY <1>1, <1>2, <1>3, <1>4, RowSteps DEF Plain

LEMMA SentStep == TypeOK /\ SentInv /\ [Next]_vars => SentInv'
<1> SUFFICES ASSUME TypeOK, SentInv, [Next]_vars PROVE SentInv'
  OBVIOUS
<1>1. mailbox \subseteq mailbox' /\ KnownAccepted'
  <2> USE DEF SentInv, KnownAccepted
  <2>1. CASE Calm
    BY <2>1 DEF Calm, Telling
  <2>2. ASSUME NEW w \in Workers, NEW e \in Emails, NEW answered \in BOOLEAN,
               SweepLook(w, e, answered)
        PROVE  mailbox \subseteq mailbox' /\ KnownAccepted'
    <3> DEFINE pc == IF Found(e, answered) THEN "found" ELSE "missing"
               v == [Idle EXCEPT !.pc = pc, !.e = e]
    <3>1. worker' = [worker EXCEPT ![w] = v] /\ UNCHANGED mailbox
      BY <2>2 DEF SweepLook, ghosts
    <3>2. v.pc = pc /\ v.e = e
      BY DEF Idle
    <3>3. v.pc \in {"accepted", "found"} => v.e \in mailbox
      BY <3>2 DEF Found
    <3> HIDE DEF v
    <3> QED
      BY <3>1, <3>3 DEF TypeOK, WorkersOK
  <2>3. ASSUME NEW w \in Workers, Claim(w), Takes(w)
        PROVE  mailbox \subseteq mailbox' /\ KnownAccepted'
    <3>1. UNCHANGED mailbox
      BY <2>3 DEF Claim
    <3>2. GoesOn(w, "claimed")
      BY <2>3, TakesMoves
    <3> QED
      BY <3>1, <3>2 DEF GoesOn
  <2>4. ASSUME NEW w \in Workers, NEW answer \in {"accepted", "refused", "unknown"},
               NEW taken \in BOOLEAN, Provider(w, answer, taken)
        PROVE  mailbox \subseteq mailbox' /\ KnownAccepted'
    <3>1. Goto(w, answer) /\ mailbox \subseteq mailbox'
      BY <2>4 DEF Provider
    <3>2. answer = "accepted" => worker[w].e \in mailbox'
      BY <2>4 DEF Provider
    <3> QED
      BY <3>1, <3>2, GotoMoves DEF GoesOn
  <2>5. ASSUME NEW w \in Workers, MarkFailed(w)
        PROVE  mailbox \subseteq mailbox' /\ KnownAccepted'
    BY <2>5, ReturnMoves DEF MarkFailed, ghosts
  <2> QED
    BY <2>1, <2>2, <2>3, <2>4, <2>5, WorkerSteps
<1>2. SentWasAccepted'
  BY <1>1, SentRows DEF SentWasAccepted
<1> QED
  BY <1>1, <1>2 DEF SentInv

\* An email shown as sent is in the mailbox: a sweep that did not find it, and
\* a worker that woke up late, never record a message that did not leave.
THEOREM SentMeansAccepted == Spec => []SentWasAccepted
<1>1. Init => SentInv
  BY DEF Init, SentInv, SentWasAccepted, KnownAccepted, Idle, Blank, InsertedRow
<1>2. SentInv => SentWasAccepted
  BY DEF SentInv
<1> QED
  BY <1>1, <1>2, SentStep, TypeCorrect, PTL DEF Spec

-----------------------------------------------------------------------------
(* The approver stands when an approval is stored and when it is claimed.  *)

LEMMA ApproverStep ==
  ASSUME TypeOK, ApprovalInv, [Next]_vars, NEW e \in Emails, ApproveStep(e) \/ ClaimStep(e)
  PROVE  email'[e].approvedBy \in admins
<1>0. email[e] \in EmailRow
  BY DEF TypeOK
<1>1. CASE Kept(email[e], email'[e])
  BY <1>1 DEF Kept, ApproveStep, ClaimStep
<1>2. ASSUME NEW u \in Users, NEW d \in Emails, Approve(u, d)
      PROVE  email'[e].approvedBy \in admins
  <2>1. CASE d # e
    BY <1>1, <1>2, <2>1, OneRow DEF Approve
  <2>2. CASE d = e
    <3>1. PICK r1 \in Submitted(e, u) :
            \E r2 \in EmailGuard(r1, [r1 EXCEPT !.status = "approved"], u, admins) :
              email' = [email EXCEPT ![e] = r2]
      BY <1>2, <2>2 DEF Approve
    <3>2. r1 \in EmailRow /\ r1.status # "approved"
      <4>1. CASE email[e].status = "draft"
        <5>1. "pending_approval" \in Statuses
          BY DEF Statuses
        <5>2. r1 \in EmailGuard(email[e], [email[e] EXCEPT !.status = "pending_approval"], u, admins)
          BY <3>1, <4>1 DEF Submitted
        <5>3. r1 \in EmailRow
          BY <1>0, <5>1, <5>2, StatusStoreType
        <5>4. r1.status # "approved"
          BY <1>0, <4>1, <5>2 DEF EmailGuard, GuardStores, StatusStored, EmailRow
        <5> QED
          BY <5>3, <5>4
      <4>2. CASE email[e].status # "draft"
        BY <1>0, <1>2, <2>2, <3>1, <4>2 DEF Submitted, Approve
      <4> QED
        BY <4>1, <4>2
    <3>3. PICK r2 \in EmailGuard(r1, [r1 EXCEPT !.status = "approved"], u, admins) :
            email' = [email EXCEPT ![e] = r2]
      BY <3>1
    <3> DEFINE new == [r1 EXCEPT !.status = "approved"]
    <3>4. Approving(r1, new)
      BY <3>2 DEF Approving, StatusStored, EmailRow
    <3>5. r2 = GuardStores(r1, new, u) /\ GuardAllows(r1, new, u, admins)
      BY <3>3 DEF EmailGuard
    <3>6. u \in admins
      BY <3>4, <3>5 DEF GuardAllows
    <3>7. new \in EmailRow
      BY <3>2, StatusType DEF Statuses, EmailRow
    <3> HIDE DEF new
    <3>8. r2.approvedBy = u
      BY <3>4, <3>5, <3>7 DEF GuardStores, EmailRow
    <3> QED
      BY <3>3, <3>6, <3>8 DEF TypeOK
  <2> QED
    BY <2>1, <2>2
<1>3. ASSUME NEW w \in Workers, Takes(w) PROVE email'[e].approvedBy \in admins
  <2>1. PICK row \in ClaimedRows(w) : email' = [email EXCEPT ![worker[w].e] = row]
    BY <1>3 DEF Takes
  <2>2. CASE worker[w].e = e
    <3> DEFINE old == email[e]
               new == [email[e] EXCEPT !.status = "sending"]
    <3>1. /\ old.status = "approved"
          /\ row = GuardStores(old, new, NoUser) /\ GuardAllows(old, new, NoUser, admins)
      BY <2>1, <2>2 DEF ClaimedRows, EmailGuard
    <3>2. new \in EmailRow /\ new.status = "sending" /\ RowHash(new) = RowHash(old)
          /\ new.approvedBy = old.approvedBy
      <4>1. "sending" \in Statuses
        BY DEF Statuses
      <4>2. new \in EmailRow
        BY <1>0, <4>1, StatusType
      <4> QED
        BY <1>0, <4>2 DEF EmailRow, RowHash, ContentHash
    <3> HIDE DEF old, new
    <3>3. StatusStored(old, new) = "sending"
      BY <3>1, <3>2 DEF StatusStored
    <3>4. Claiming(old, new) /\ ~Approving(old, new) /\ ~Reopening(old, new)
      BY <3>1, <3>3 DEF Claiming, Approving, Reopening
    <3>5. old.approvedBy \in admins
      BY <3>1, <3>4 DEF GuardAllows, ClaimAllowed
    <3>6. row.approvedBy = new.approvedBy
      BY <3>1, <3>2, <3>4 DEF GuardStores, EmailRow
    <3> QED
      BY <2>1, <2>2, <3>2, <3>5, <3>6, OneRow
  <2> QED
    BY <1>1, <2>1, <2>2, OneRow
<1>4. ASSUME NEW w \in Workers, RecordSent(w) PROVE email'[e].approvedBy \in admins
  <2>1. PICK row \in Settled(worker[w].e, "sent") : email' = [email EXCEPT ![worker[w].e] = row]
    BY <1>4 DEF RecordSent, Settle
  <2>2. CASE worker[w].e = e
    <3>1. CASE row = email[e]
      BY <2>1, <2>2, <3>1, OneRow DEF ApproveStep, ClaimStep
    <3>2. CASE row \in EmailGuard(email[e], [email[e] EXCEPT !.status = "sent"], NoUser, admins)
      <4>1. row = GuardStores(email[e], [email[e] EXCEPT !.status = "sent"], NoUser)
        BY <3>2 DEF EmailGuard
      <4>2. row.status \notin {"approved", "sending"}
        BY <1>0, <4>1 DEF GuardStores, StatusStored, RowHash, EmailRow
      <4> QED
        BY <2>1, <2>2, <4>2, OneRow DEF ApproveStep, ClaimStep
    <3> QED
      BY <2>1, <2>2, <3>1, <3>2 DEF Settled
  <2> QED
    BY <1>1, <2>1, <2>2, OneRow
<1> QED
  BY <1>1, <1>2, <1>3, <1>4, RowSteps DEF Plain

\* The approver is an active super admin both when the trigger stores the
\* approval and when it lets a worker claim it, though the code read both roles
\* in earlier transactions.
THEOREM ApproversStand == Spec => ApproverStands
<1>1. TypeOK /\ ApprovalInv /\ [Next]_vars =>
        [\A e \in Emails : ApproveStep(e) \/ ClaimStep(e) => email'[e].approvedBy \in admins]_vars
  BY ApproverStep
<1> QED
  BY <1>1, ApprovalsConsistent, PTL DEF Spec, ApproverStands

-----------------------------------------------------------------------------
(* The daily limit. *)

\* The workers that hold a slot of day d for a message the provider has not
\* taken: it may yet take it, or they may yet give the slot back.
Holders(d) == {w \in Workers : worker[w].pc \in {"claimed", "refused"} /\ worker[w].day = d}

\* Every message taken and every slot held is counted, within the limit.
Slots ==
  \A d \in Days :
    /\ IsFiniteSet(Holders(d))
    /\ acceptedOn[d] + Cardinality(Holders(d)) <= sentCount[d]
    /\ sentCount[d] <= DailyLimit

LEMMA FewerHolders ==
  ASSUME TypeOK, Slots, NEW d \in Days, Holders(d)' \subseteq Holders(d),
         acceptedOn'[d] = acceptedOn[d], sentCount'[d] = sentCount[d]
  PROVE  /\ IsFiniteSet(Holders(d)')
         /\ acceptedOn'[d] + Cardinality(Holders(d)') <= sentCount'[d]
         /\ sentCount'[d] <= DailyLimit
<1>1. IsFiniteSet(Holders(d)) /\ acceptedOn[d] + Cardinality(Holders(d)) <= sentCount[d]
      /\ sentCount[d] <= DailyLimit
  BY DEF Slots
<1>2. /\ IsFiniteSet(Holders(d)')
      /\ Cardinality(Holders(d)') <= Cardinality(Holders(d))
  BY <1>1, FS_Subset
<1>3. /\ Cardinality(Holders(d)) \in Nat /\ Cardinality(Holders(d)') \in Nat
      /\ acceptedOn[d] \in Nat /\ sentCount[d] \in Nat
  BY <1>1, <1>2, FS_CardinalityType DEF TypeOK
<1> QED
  BY <1>1, <1>2, <1>3

\* A holder that leaves frees one for the count: a message taken, or a slot
\* given back.
LEMMA OneHolderLess ==
  ASSUME TypeOK, Slots, NEW d \in Days, NEW w \in Holders(d),
         Holders(d)' \subseteq Holders(d) \ {w},
         acceptedOn'[d] \in Nat, sentCount'[d] \in Nat,
         \/ acceptedOn'[d] <= acceptedOn[d] + 1 /\ sentCount'[d] = sentCount[d]
         \/ acceptedOn'[d] = acceptedOn[d] /\ sentCount'[d] >= sentCount[d] - 1
            /\ sentCount'[d] <= sentCount[d]
  PROVE  /\ IsFiniteSet(Holders(d)')
         /\ acceptedOn'[d] + Cardinality(Holders(d)') <= sentCount'[d]
         /\ sentCount'[d] <= DailyLimit
<1>1. IsFiniteSet(Holders(d)) /\ acceptedOn[d] + Cardinality(Holders(d)) <= sentCount[d]
      /\ sentCount[d] <= DailyLimit
  BY DEF Slots
<1> DEFINE rest == Holders(d) \ {w}
<1>2. IsFiniteSet(rest) /\ Cardinality(rest) = Cardinality(Holders(d)) - 1
  BY <1>1, FS_RemoveElement
<1>3. /\ IsFiniteSet(Holders(d)')
      /\ Cardinality(Holders(d)') <= Cardinality(rest)
  BY <1>2, FS_Subset
<1>4. /\ Cardinality(Holders(d)) \in Nat /\ Cardinality(Holders(d)') \in Nat
      /\ Cardinality(rest) \in Nat
      /\ acceptedOn[d] \in Nat /\ sentCount[d] \in Nat /\ DailyLimit \in Nat
  BY <1>1, <1>2, <1>3, FS_CardinalityType, SendAssumption DEF TypeOK
<1> HIDE DEF rest
<1> QED
  BY <1>1, <1>2, <1>3, <1>4

LEMMA SlotStep == TypeOK /\ Slots /\ [Next]_vars => Slots'
<1> SUFFICES ASSUME TypeOK, Slots, [Next]_vars, NEW d \in Days
             PROVE  /\ IsFiniteSet(Holders(d)')
                    /\ acceptedOn'[d] + Cardinality(Holders(d)') <= sentCount'[d]
                    /\ sentCount'[d] <= DailyLimit
  BY DEF Slots
<1> DEFINE Goal == /\ IsFiniteSet(Holders(d)')
                   /\ acceptedOn'[d] + Cardinality(Holders(d)') <= sentCount'[d]
                   /\ sentCount'[d] <= DailyLimit
<1>0. acceptedOn[d] \in Nat /\ sentCount[d] \in Nat /\ sentCount[d] <= DailyLimit /\ DailyLimit \in Nat
  BY SendAssumption DEF TypeOK, Slots
<1>1. CASE Calm
  BY <1>1, FewerHolders DEF Calm, Telling, Holders
<1>2. ASSUME NEW w \in Workers, NEW e \in Emails, NEW answered \in BOOLEAN, SweepLook(w, e, answered)
      PROVE  Goal
  <2>1. UNCHANGED <<acceptedOn, sentCount>>
    BY <1>2 DEF SweepLook, ghosts
  <2>2. worker'[w].pc \in {"found", "missing"} /\ \A v \in Workers \ {w} : worker'[v] = worker[v]
    BY <1>2 DEF SweepLook, Idle, TypeOK, WorkersOK
  <2> QED
    BY <2>1, <2>2, FewerHolders DEF Holders
<1>3. ASSUME NEW w \in Workers, Claim(w), Takes(w) PROVE Goal
  <2>1. GoesOn(w, "claimed") /\ worker[w].pc = "ready"
    BY <1>3, TakesMoves DEF Takes
  <2>2. /\ sentCount[worker[w].day] < DailyLimit
        /\ sentCount' = [sentCount EXCEPT ![worker[w].day] = @ + 1]
        /\ UNCHANGED acceptedOn
    <3>1. ~Return(w)
      BY <2>1, ReturnMoves DEF GoesOn
    <3> QED
      BY <1>3, <3>1 DEF Claim
  <2>3. CASE worker[w].day # d
    <3>1. Holders(d)' \subseteq Holders(d)
      BY <2>1, <2>3 DEF Holders, GoesOn
    <3>2. sentCount'[d] = sentCount[d]
      BY <2>2, <2>3 DEF TypeOK
    <3> QED
      BY <2>2, <3>1, <3>2, FewerHolders
  <2>4. CASE worker[w].day = d
    <3>1. Holders(d)' = Holders(d) \union {w} /\ w \notin Holders(d)
      BY <2>1, <2>4 DEF Holders, GoesOn
    <3>2. IsFiniteSet(Holders(d)) /\ acceptedOn[d] + Cardinality(Holders(d)) <= sentCount[d]
      BY DEF Slots
    <3>3. IsFiniteSet(Holders(d)') /\ Cardinality(Holders(d)') = Cardinality(Holders(d)) + 1
      BY <3>1, <3>2, FS_AddElement
    <3>4. Cardinality(Holders(d)) \in Nat
      BY <3>2, FS_CardinalityType
    <3>5. sentCount'[d] = sentCount[d] + 1 /\ sentCount[d] < DailyLimit /\ acceptedOn'[d] = acceptedOn[d]
      BY <2>2, <2>4 DEF TypeOK
    <3> QED
      BY <1>0, <3>2, <3>3, <3>4, <3>5
  <2> QED
    BY <2>3, <2>4
<1>4. ASSUME NEW w \in Workers, NEW answer \in {"accepted", "refused", "unknown"},
             NEW taken \in BOOLEAN, Provider(w, answer, taken)
      PROVE  Goal
  <2>1. GoesOn(w, answer) /\ worker[w].pc = "claimed"
    BY <1>4, GotoMoves DEF Provider
  <2>2. UNCHANGED sentCount
    BY <1>4 DEF Provider
  <2>3. Holders(d)' \subseteq Holders(d)
    BY <2>1 DEF Holders, GoesOn
  <2>4. CASE ~taken \/ worker[w].day # d
    <3>1. acceptedOn'[d] = acceptedOn[d]
      BY <1>4, <2>4 DEF Provider, TypeOK
    <3> QED
      BY <2>2, <2>3, <3>1, FewerHolders
  <2>5. CASE taken /\ worker[w].day = d
    <3>1. answer # "refused"
      BY <1>4, <2>5 DEF Provider
    <3>2. w \in Holders(d) /\ Holders(d)' \subseteq Holders(d) \ {w}
      BY <2>1, <2>5, <3>1 DEF Holders, GoesOn
    <3>3. acceptedOn'[d] = acceptedOn[d] + 1
      BY <1>4, <2>5 DEF Provider, TypeOK
    <3> QED
      BY <1>0, <2>2, <3>2, <3>3, OneHolderLess
  <2> QED
    BY <2>4, <2>5
<1>5. ASSUME NEW w \in Workers, MarkFailed(w) PROVE Goal
  <2>1. worker'[w].pc = "idle" /\ \A v \in Workers \ {w} : worker'[v] = worker[v]
    BY <1>5, ReturnMoves DEF MarkFailed
  <2>2. Holders(d)' \subseteq Holders(d) \ {w} /\ UNCHANGED acceptedOn
    BY <1>5, <2>1 DEF Holders, MarkFailed, ghosts
  <2>3. CASE sentCount'[d] = sentCount[d]
    BY <2>2, <2>3, FewerHolders
  <2>4. CASE sentCount'[d] # sentCount[d]
    <3>1. /\ Refused(w) /\ worker[w].day = d /\ sentCount[d] > 0
          /\ sentCount' = [sentCount EXCEPT ![d] = @ - 1]
      BY <1>5, <2>4 DEF MarkFailed, TypeOK
    <3>2. sentCount'[d] = sentCount[d] - 1
      BY <3>1 DEF TypeOK
    <3>3. w \in Holders(d)
      BY <3>1 DEF Refused, Holders
    <3> QED
      BY <1>0, <2>2, <3>1, <3>2, <3>3, OneHolderLess
  <2> QED
    BY <2>3, <2>4
<1> QED
  BY <1>1, <1>2, <1>3, <1>4, <1>5, WorkerSteps

\* The daily cap: the messages the provider took on the slots of a day never
\* exceed the count, nor the count daily_send_limit, though refusals give slots
\* back and unknown outcomes, crashes and midnight come in between.
THEOREM DailyLimitHolds == Spec => []WithinDailyLimit
<1>1. Init => Slots
  <2> SUFFICES ASSUME Init PROVE Slots
    OBVIOUS
  <2>1. \A d \in Days : Holders(d) = {} /\ acceptedOn[d] = 0 /\ sentCount[d] = 0
    BY DEF Init, Holders, Idle
  <2>2. \A d \in Days : IsFiniteSet(Holders(d)) /\ Cardinality(Holders(d)) = 0
    BY <2>1, FS_EmptySet
  <2> HIDE DEF Init
  <2> QED
    BY <2>1, <2>2, SendAssumption DEF Slots
<1>2. TypeOK /\ Slots => WithinDailyLimit
  <2> SUFFICES ASSUME TypeOK, Slots, NEW d \in Days
               PROVE  acceptedOn[d] <= sentCount[d] /\ sentCount[d] <= DailyLimit
    BY DEF WithinDailyLimit
  <2>1. /\ acceptedOn[d] + Cardinality(Holders(d)) <= sentCount[d] /\ sentCount[d] <= DailyLimit
        /\ Cardinality(Holders(d)) \in Nat /\ acceptedOn[d] \in Nat /\ sentCount[d] \in Nat
    BY FS_CardinalityType DEF Slots, TypeOK
  <2> QED
    BY <2>1
<1> QED
  BY <1>1, <1>2, SlotStep, TypeCorrect, PTL DEF Spec

-----------------------------------------------------------------------------
(* EaSendPath implements EaApprovalTickets: the initial state maps to the  *)
(* initial state, a quiet step withdraws approvals or none, and an         *)
(* approval, a claim and a message each map to the step of that name.      *)

Ticket == [e \in Emails |-> [n \in Nos |-> TicketOf(e, n)]]

LEMMA TicketsInit == Init => Tickets!Init
  BY DEF Init, Tickets!Init, TicketOf, Nos

\* The approvals that a step withdraws.
Withdrawn ==
  {s \in Emails \X Nos : TicketOf(s[1], s[2]) = "open" /\ Ticket'[s[1]][s[2]] # "open"}

LEMMA QuietWithdraws ==
  ASSUME TypeOK, ApprovalInv, Quiet
  PROVE  Tickets!Withdraw(Withdrawn)
<1>1. ASSUME NEW e \in Emails, NEW n \in Nos
      PROVE  /\ Ticket[e][n] = TicketOf(e, n)
             /\ Ticket'[e][n] = IF <<e, n>> \in Withdrawn THEN "void" ELSE TicketOf(e, n)
  <2>1. Ticket[e][n] = TicketOf(e, n) /\ Ticket'[e][n] = TicketOf(e, n)'
    BY DEF Ticket
  <2>2. TicketOf(e, n)' # TicketOf(e, n) => TicketOf(e, n) = "open" /\ TicketOf(e, n)' = "void"
    BY DEF TicketOf, Quiet, NoNewApproval
  <2>3. <<e, n>> \in Withdrawn <=> TicketOf(e, n) = "open" /\ TicketOf(e, n)' # "open"
    BY <2>1 DEF Withdrawn
  <2> QED
    BY <2>1, <2>2, <2>3
<1>2. Ticket' = [e \in Emails |-> [n \in Nos |->
                   IF <<e, n>> \in Withdrawn THEN "void" ELSE Ticket[e][n]]]
  BY <1>1 DEF Ticket
<1>3. \A s \in Withdrawn : Ticket[s[1]][s[2]] = "open"
  BY DEF Withdrawn, Ticket
<1> QED
  BY <1>2, <1>3 DEF Tickets!Withdraw, Ticket, Quiet

\* The row that an approval stores: approved, and pinned to its content.
LEMMA ApprovedRow ==
  ASSUME NEW old \in EmailRow, old.status # "approved", NEW u, NEW A,
         NEW row \in EmailGuard(old, [old EXCEPT !.status = "approved"], u, A)
  PROVE  row.status = "approved" /\ row.approvedHash \in Hashes
<1> DEFINE new == [old EXCEPT !.status = "approved"]
<1>1. new \in EmailRow /\ new.status = "approved" /\ RowHash(new) = RowHash(old)
  BY DEF EmailRow, Statuses, RowHash
<1>2. row = GuardStores(old, new, u)
  BY DEF EmailGuard
<1> HIDE DEF new
<1>3. StatusStored(old, new) = "approved"
  BY <1>1 DEF StatusStored
<1>4. Approving(old, new)
  BY <1>3 DEF Approving
<1>5. RowHash(new) \in Hashes
  BY <1>1 DEF RowHash, ContentHash, Hashes, EmailRow
<1> QED
  BY <1>1, <1>2, <1>3, <1>4, <1>5 DEF GuardStores, EmailRow

LEMMA ApproveGrants ==
  ASSUME TypeOK, ApprovalInv, NEW u \in Users, NEW e \in Emails, Approve(u, e)
  PROVE  \E n \in Nos, h \in Hashes : Tickets!Grant(e, n, h)
<1> DEFINE k == approvals[e] + 1
<1>1. k \in Nos /\ approvals' = [approvals EXCEPT ![e] = k] /\ approvals[e] \in Nat
  BY SendAssumption DEF Approve, TypeOK, Nos
<1>2. PICK r1 \in Submitted(e, u) :
        \E r2 \in EmailGuard(r1, [r1 EXCEPT !.status = "approved"], u, admins) :
          /\ email' = [email EXCEPT ![e] = r2]
          /\ grant' = [grant EXCEPT ![e][k] = r2.approvedHash]
  BY DEF Approve
<1>3. r1 \in EmailRow /\ r1.status # "approved"
  <2>1. email[e] \in EmailRow /\ "pending_approval" \in Statuses
    BY DEF TypeOK, Statuses
  <2>2. CASE email[e].status = "draft"
    <3> DEFINE new == [email[e] EXCEPT !.status = "pending_approval"]
    <3>1. r1 \in EmailGuard(email[e], new, u, admins)
      BY <1>2, <2>2 DEF Submitted
    <3>2. r1 \in EmailRow
      BY <2>1, <3>1, StatusStoreType
    <3>3. new \in EmailRow /\ new.status # "approved"
      BY <2>1, StatusType DEF EmailRow
    <3> HIDE DEF new
    <3>4. r1.status # "approved"
      BY <2>1, <2>2, <3>1, <3>3, GuardKeepsApproval
    <3> QED
      BY <3>2, <3>4
  <2>3. CASE email[e].status # "draft"
    BY <1>2, <2>1, <2>3 DEF Submitted, Approve
  <2> QED
    BY <2>2, <2>3
<1>4. PICK r2 \in EmailGuard(r1, [r1 EXCEPT !.status = "approved"], u, admins) :
        /\ email' = [email EXCEPT ![e] = r2]
        /\ grant' = [grant EXCEPT ![e][k] = r2.approvedHash]
  BY <1>2
<1>5. r2.status = "approved" /\ r2.approvedHash \in Hashes
  BY <1>3, <1>4, ApprovedRow
<1> HIDE DEF k
<1>6. email[e].status # "approved" /\ UNCHANGED <<claimed, out>>
  BY DEF Approve
<1>7. <<e, k>> \notin claimed
  BY <1>1 DEF ApprovalInv, ClaimsGiven, Nos, k
<1>8. ASSUME NEW d \in Emails, NEW m \in Nos
      PROVE  TicketOf(d, m)' = IF <<d, m>> = <<e, k>> THEN "open" ELSE TicketOf(d, m)
  <2>1. CASE d # e
    <3>1. email'[d] = email[d] /\ approvals'[d] = approvals[d]
      BY <1>1, <1>4, <2>1 DEF TypeOK
    <3> QED
      BY <1>6, <2>1, <3>1 DEF TicketOf
  <2>2. CASE d = e
    <3>1. email'[e].status = "approved" /\ approvals'[e] = k
      BY <1>1, <1>4, <1>5 DEF TypeOK
    <3>2. CASE m = k
      BY <1>1, <1>6, <1>7, <2>2, <3>1, <3>2 DEF TicketOf, Nos
    <3>3. CASE m < k
      BY <1>1, <1>6, <2>2, <3>1, <3>3 DEF TicketOf, Nos, k
    <3>4. CASE m > k
      BY <1>1, <1>6, <2>2, <3>1, <3>4 DEF TicketOf, Nos, k
    <3> QED
      BY <1>1, <3>2, <3>3, <3>4 DEF Nos
  <2> QED
    BY <2>1, <2>2
<1>9. TicketOf(e, k) = "none" /\ \A m \in Nos : TicketOf(e, m) # "open"
  BY <1>1, <1>6 DEF TicketOf, Nos, k
<1>10. Ticket' = [Ticket EXCEPT ![e][k] = "open"]
  BY <1>1, <1>8 DEF Ticket
<1>11. Tickets!Grant(e, k, r2.approvedHash)
  BY <1>1, <1>4, <1>6, <1>9, <1>10 DEF Tickets!Grant, Ticket
<1> QED
  BY <1>1, <1>5, <1>11

LEMMA TakesClaims ==
  ASSUME TypeOK, ApprovalInv, NEW w \in Workers, Takes(w)
  PROVE  \E e \in Emails, n \in Nos : Tickets!Claim(e, n)
<1> DEFINE e == worker[w].e
           k == approvals[e]
<1>1. e \in Emails /\ email[e].status = "approved"
  BY DEF Takes, TypeOK, WorkersOK, ClaimedRows
<1>2. k \in Nos /\ <<e, k>> \notin claimed
  BY <1>1 DEF ApprovalInv, OpenApproval
<1>3. out[e][k] = <<>>
  BY <1>1, <1>2 DEF ApprovalInv, ClaimsGiven
<1>4. claimed' = claimed \union {<<e, k>>} /\ UNCHANGED <<approvals, grant, out>>
  BY DEF Takes
<1>5. PICK row : email' = [email EXCEPT ![e] = row]
  BY DEF Takes
<1> HIDE DEF e, k
<1>6. ASSUME NEW d \in Emails, NEW m \in Nos
      PROVE  TicketOf(d, m)' = IF <<d, m>> = <<e, k>> THEN "spent" ELSE TicketOf(d, m)
  <2>1. CASE d # e
    <3>1. email'[d] = email[d]
      BY <1>5, <2>1 DEF TypeOK
    <3> QED
      BY <1>4, <2>1, <3>1 DEF TicketOf
  <2>2. CASE d = e
    BY <1>1, <1>2, <1>3, <1>4, <2>2 DEF TicketOf, Nos, TypeOK, k
  <2> QED
    BY <2>1, <2>2
<1>7. TicketOf(e, k) = "open"
  BY <1>1, <1>2 DEF TicketOf, Nos, k
<1>8. Ticket' = [Ticket EXCEPT ![e][k] = "spent"]
  BY <1>1, <1>2, <1>6 DEF Ticket
<1>9. Tickets!Claim(e, k)
  BY <1>1, <1>2, <1>4, <1>7, <1>8 DEF Tickets!Claim, Ticket
<1> QED
  BY <1>1, <1>2, <1>9

LEMMA ProviderHandsOver ==
  ASSUME TypeOK, ApprovalInv, NEW w \in Workers, NEW answer, NEW taken \in BOOLEAN,
         Provider(w, answer, taken)
  PROVE  (\E e \in Emails, n \in Nos : Tickets!HandOver(e, n)) \/ UNCHANGED <<Ticket, grant, out>>
<1> DEFINE e == worker[w].e
           k == worker[w].no
<1>1. worker[w].pc = "claimed" /\ UNCHANGED <<email, approvals, grant, claimed>>
  BY DEF Provider
<1>2. /\ <<e, k>> \in claimed /\ e \in Emails /\ k \in Nos
      /\ out[e][k] = <<>> /\ worker[w].body = grant[e][k]
  BY <1>1, HeldType
<1>3. k <= approvals[e]
  BY <1>2 DEF ApprovalInv, ClaimsGiven
<1>4. CASE out' = out
  BY <1>1, <1>4 DEF Ticket, TicketOf
<1>5. CASE out' = [out EXCEPT ![e][k] = Append(@, worker[w].body)]
  <2> HIDE DEF e, k
  <2>1. Append(<<>>, worker[w].body) = <<worker[w].body>>
    OBVIOUS
  <2>2. /\ out'[e][k] # <<>>
        /\ \A d \in Emails, m \in Nos : <<d, m>> # <<e, k>> => out'[d][m] = out[d][m]
    BY <1>2, <1>5, <2>1 DEF TypeOK
  <2>3. ASSUME NEW d \in Emails, NEW m \in Nos
        PROVE  TicketOf(d, m)' = IF <<d, m>> = <<e, k>> THEN "used" ELSE TicketOf(d, m)
    <3>1. CASE <<d, m>> # <<e, k>>
      BY <1>1, <2>2, <3>1 DEF TicketOf
    <3>2. CASE <<d, m>> = <<e, k>>
      <4>1. approvals[e] \in Nat
        BY <1>2 DEF TypeOK
      <4> QED
        BY <1>1, <1>2, <1>3, <2>2, <3>2, <4>1 DEF TicketOf, Nos
    <3> QED
      BY <3>1, <3>2
  <2>4. TicketOf(e, k) = "spent"
    <3>1. approvals[e] \in Nat
      BY <1>2 DEF TypeOK
    <3> QED
      BY <1>2, <1>3, <3>1 DEF TicketOf, Nos
  <2>5. Ticket' = [Ticket EXCEPT ![e][k] = "used"]
    BY <1>2, <2>3 DEF Ticket
  <2>6. out' = [out EXCEPT ![e][k] = Append(@, grant[e][k])]
    BY <1>2, <1>5
  <2>7. Tickets!HandOver(e, k)
    BY <1>1, <1>2, <2>4, <2>5, <2>6 DEF Tickets!HandOver, Ticket
  <2> QED
    BY <1>2, <2>7
<1> QED
  BY <1>4, <1>5 DEF Provider

\* The send path implements EaApprovalTickets: whatever the interleaving of
\* reviewers, opt-outs and workers, a withdrawn approval never sends, a claimed
\* one never reopens, and each sends at most once.
THEOREM SendPathKeepsTickets == Spec => KeepsTickets
<1>1. Init => Tickets!Init
  BY TicketsInit
<1>2. TypeOK /\ ApprovalInv /\ [Next]_vars => [Tickets!Next]_(Tickets!vars)
  <2> SUFFICES ASSUME TypeOK, ApprovalInv, [Next]_vars
               PROVE  Tickets!Next \/ UNCHANGED <<Ticket, grant, out>>
    BY DEF Tickets!vars, Ticket
  <2>1. CASE Quiet
    <3>1. Withdrawn \in SUBSET (Emails \X Nos)
      BY DEF Withdrawn
    <3> QED
      BY <2>1, <3>1, QuietWithdraws DEF Tickets!Next
  <2>2. ASSUME NEW u \in Users, NEW e \in Emails, Approve(u, e) PROVE Tickets!Next
    BY <2>2, ApproveGrants DEF Tickets!Next
  <2>3. ASSUME NEW w \in Workers, Takes(w) PROVE Tickets!Next
    BY <2>3, TakesClaims DEF Tickets!Next
  <2>4. ASSUME NEW w \in Workers, NEW answer \in {"accepted", "refused", "unknown"},
               NEW taken \in BOOLEAN, Provider(w, answer, taken)
        PROVE  Tickets!Next \/ UNCHANGED <<Ticket, grant, out>>
    BY <2>4, ProviderHandsOver DEF Tickets!Next
  <2> QED
    BY <2>1, <2>2, <2>3, <2>4, StepKinds
<1> QED
  BY <1>1, <1>2, ApprovalsConsistent, PTL DEF Spec, KeepsTickets, Tickets!Spec
=============================================================================

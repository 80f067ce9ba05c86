----------------------------- MODULE EaEmailRow -----------------------------
(***************************************************************************)
(* One row of ea_email and the BEFORE UPDATE trigger that guards it.       *)
(*                                                                         *)
(* Every writer of the email agent, human or worker, goes through          *)
(* EmailGuard: a statement asks for a new row and the trigger answers with *)
(* the row that is stored, or raises, which rolls the transaction back.    *)
(***************************************************************************)
EXTENDS Integers

CONSTANTS
  Emails,       \* ids of ea_email rows
  Addresses,    \* recipients
  Texts,        \* subject and body, taken as one value
  Files,        \* attachments, each standing for its bytes
  Users,        \* rows of the user table that may be super admins
  NoUser,       \* approved_by IS NULL
  NoHash        \* approved_hash IS NULL

Statuses == {"absent", "draft", "pending_approval", "approved", "sending",
             "sent", "failed", "rejected", "cancelled"}

(* What the SHA-256 covers: recipient, subject and body, and the sorted    *)
(* hashes of the attachments. Two contents share a hash only when all      *)
(* three agree; SHA-256 itself is taken to be free of collisions.          *)
ContentHash(to, text, files) == <<to, text, files>>

Hashes == Addresses \X Texts \X SUBSET Files

\* A row: `hashes` is the column attachment_hashes, kept by a trigger.
EmailRow == [status: Statuses, to: Addresses, text: Texts,
             hashes: SUBSET Files, approvedHash: Hashes \union {NoHash},
             approvedBy: Users \union {NoUser}]

RowHash(row) == ContentHash(row.to, row.text, row.hashes)

\* The statuses in which the content can no longer change.
Locked == {"sending", "sent", "rejected", "cancelled"}

\* Mutant of Unsent: an approved email is no longer thought of as unsent.
UnsentDrafts == {"draft", "pending_approval"}

\* The statuses in which nothing was handed to the provider yet.
Unsent == {"draft", "pending_approval", "approved"}

Moves == {<<"draft", "pending_approval">>, <<"draft", "rejected">>,
          <<"draft", "cancelled">>, <<"pending_approval", "approved">>,
          <<"pending_approval", "rejected">>, <<"pending_approval", "cancelled">>,
          <<"approved", "sending">>, <<"approved", "pending_approval">>,
          <<"approved", "cancelled">>, <<"sending", "sent">>,
          <<"sending", "failed">>, <<"failed", "pending_approval">>}

\* A change of content takes an approved row back to pending_approval.
StatusStored(old, new) ==
  IF RowHash(new) # RowHash(old) /\ old.status = "approved"
  THEN "pending_approval" ELSE new.status

Approving(old, new) ==
  StatusStored(old, new) = "approved" /\ old.status # "approved"

Reopening(old, new) ==
  StatusStored(old, new) = "pending_approval" /\ old.status \in {"approved", "failed"}

Claiming(old, new) ==
  StatusStored(old, new) = "sending" /\ old.status # "sending"

\* Mutant of ClaimAllowed: the approver is not looked up again.
ClaimAllowedByHash(old, new, admins) == RowHash(new) = old.approvedHash

\* What may be claimed: the content approved, by an approver still active.
ClaimAllowed(old, new, admins) ==
  RowHash(new) = old.approvedHash /\ old.approvedBy \in admins

(* The exceptions of ea_email_guard, each as the condition that avoids it. *)
(* `actor` is the declared human, or NoUser for the service; `admins` are  *)
(* the users for whom ea_active_approver answers true.                     *)
GuardAllows(old, new, actor, admins) ==
  /\ RowHash(new) # RowHash(old) => old.status \notin Locked
  /\ StatusStored(old, new) # old.status
       => <<old.status, StatusStored(old, new)>> \in Moves
  /\ Approving(old, new) => actor \in admins
  /\ Reopening(old, new) /\ old.status = "failed" => actor \in admins
  /\ ~Approving(old, new) /\ ~Reopening(old, new)
       => new.approvedHash = old.approvedHash /\ new.approvedBy = old.approvedBy
  /\ Claiming(old, new) => ClaimAllowed(old, new, admins)

\* The row as stored: approval is stamped by the trigger, never by the caller.
GuardStores(old, new, actor) ==
  [new EXCEPT
     !.status = StatusStored(old, new),
     !.approvedHash = IF Approving(old, new) THEN RowHash(new)
                      ELSE IF Reopening(old, new) THEN NoHash ELSE @,
     !.approvedBy = IF Approving(old, new) THEN actor
                    ELSE IF Reopening(old, new) THEN NoUser ELSE @]

\* The BEFORE UPDATE trigger: the stored row, or nothing when it raises.
EmailGuard(old, new, actor, admins) ==
  {row \in {GuardStores(old, new, actor)} : GuardAllows(old, new, actor, admins)}

\* INSERT: only draft or pending_approval, with no approval fields set.
InsertedRow(status, to, text) ==
  [status |-> status, to |-> to, text |-> text, hashes |-> {},
   approvedHash |-> NoHash, approvedBy |-> NoUser]
=============================================================================

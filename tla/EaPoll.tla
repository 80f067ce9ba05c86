------------------------------- MODULE EaPoll -------------------------------
(***************************************************************************)
(* IngestService.poll: instances read the mailbox under a five minute      *)
(* lease that a slow poll can outlive, from a history cursor or, when that *)
(* is missing or expired, by listing. Messages are numbered in the order   *)
(* of their arrival; a history id is the number of the newest message, and *)
(* a time is the number of messages that had arrived by then.              *)
(***************************************************************************)
EXTENDS Integers, FiniteSets

CONSTANTS
  Pollers,      \* worker processes, each with one poll at a time
  LastMessage,  \* bound: messages that ever arrive
  PageSize,     \* ids in a page of the provider's answer
  MaxPerPoll,   \* MAX_MESSAGES_PER_POLL
  MaxExpiries,  \* bound: how often the provider drops old history
  MaxDeleted    \* bound: messages deleted from the mailbox

ASSUME PollAssumption ==
  /\ LastMessage \in Nat /\ PageSize \in Nat \ {0} /\ MaxPerPoll \in Nat \ {0}
  /\ MaxExpiries \in Nat /\ MaxDeleted \in Nat

Messages == 1..LastMessage
HistoryIds == 0..LastMessage
NoCursor == -1            \* history_id IS NULL

VARIABLES
  \* the mailbox
  arrived,   \* messages 1..arrived came
  deleted,   \* those no longer readable
  horizon,   \* history ids below it are expired
  expiries,
  \* ea_mailbox_state
  cursor,    \* history_id
  lastPoll,  \* last_poll_at
  leased,    \* poll_lease_until is set and not over
  \* ea_message
  stored,
  poll,      \* the local variables of each poll
  troubled,  \* calls may fail and processes die
  \* history, read by the properties only
  applied,   \* how often the effects of each message were applied
  leftBehind \* messages a listing began after, or stopped before

mailboxVars == <<arrived, deleted, horizon, expiries>>
stateVars == <<cursor, lastPoll, leased>>
pollGhosts == <<applied, leftBehind>>
pollVars == <<mailboxVars, stateVars, stored, poll, troubled, pollGhosts>>

NoPoll == [pc |-> "idle", mode |-> "history", now |-> 0, from |-> NoCursor,
         next |-> NoCursor, since |-> 0, pos |-> 0, more |-> FALSE,
         ids |-> {}, got |-> 0, count |-> 0]

PollInit ==
  /\ arrived = 0 /\ deleted = {} /\ horizon = 0 /\ expiries = 0
  /\ cursor = NoCursor /\ lastPoll = 0 /\ leased = FALSE
  /\ stored = {} /\ troubled = TRUE
  /\ poll = [p \in Pollers |-> NoPoll]
  /\ applied = [m \in Messages |-> 0] /\ leftBehind = {}

Lesser(a, b) == IF a < b THEN a ELSE b
Greater(a, b) == IF a > b THEN a ELSE b

-----------------------------------------------------------------------------
(* The mailbox, and time. *)

Arrive ==
  /\ arrived < LastMessage /\ arrived' = arrived + 1
  /\ UNCHANGED <<deleted, horizon, expiries, stateVars, stored, poll, troubled, pollGhosts>>

\* What happens to a stored message in the mailbox does not matter any more.
Delete(m) ==
  /\ m <= arrived /\ m \notin deleted \union stored
  /\ Cardinality(deleted) < MaxDeleted
  /\ deleted' = deleted \union {m}
  /\ UNCHANGED <<arrived, horizon, expiries, stateVars, stored, poll, troubled, pollGhosts>>

ExpireHistory ==
  /\ expiries < MaxExpiries /\ horizon < arrived
  /\ horizon' = arrived /\ expiries' = expiries + 1
  /\ UNCHANGED <<arrived, deleted, stateVars, stored, poll, troubled, pollGhosts>>

\* Five minutes pass, with the poll that took the lease at work or gone.
LeaseLapses ==
  /\ leased /\ leased' = FALSE
  /\ UNCHANGED <<mailboxVars, cursor, lastPoll, stored, poll, troubled, pollGhosts>>

-----------------------------------------------------------------------------
(* poll(), step by step. *)

UnchangedByRead == UNCHANGED <<mailboxVars, stateVars, stored, troubled, pollGhosts>>

TakeLease(p) ==
  /\ poll[p].pc = "idle" /\ ~leased
  /\ leased' = TRUE
  /\ poll' = [poll EXCEPT ![p] = [NoPoll EXCEPT !.pc = "leased", !.now = arrived]]
  /\ UNCHANGED <<mailboxVars, cursor, lastPoll, stored, troubled, pollGhosts>>

\* Without a cursor the mailbox is listed from the agent's activation.
ReadState(p) ==
  /\ poll[p].pc = "leased"
  /\ poll' = [poll EXCEPT
       ![p].pc = IF cursor = NoCursor THEN "profile" ELSE "pages",
       ![p].from = cursor, ![p].next = cursor, ![p].pos = cursor,
       ![p].more = cursor # NoCursor]
  /\ UnchangedByRead

\* The page is worked off, the provider has more and the cap is not reached.
WantsPage(p) ==
  poll[p].pc = "pages" /\ poll[p].ids = {} /\ poll[p].more /\ poll[p].count < MaxPerPoll

\* The cursor is too old: list by date, from the last poll less a lookback.
CursorExpired(p) ==
  /\ WantsPage(p) /\ poll[p].mode = "history" /\ poll[p].from < horizon
  /\ \E since \in 0..Lesser(lastPoll, poll[p].now) :
       poll' = [poll EXCEPT ![p].pc = "profile", ![p].from = NoCursor,
                              ![p].since = since]
  /\ UnchangedByRead

\* A page of the history, oldest first, and the mailbox's newest id.
ListHistory(p) ==
  LET first == poll[p].pos + 1
      last  == Lesser(poll[p].pos + PageSize, arrived)
  IN  /\ WantsPage(p) /\ poll[p].mode = "history" /\ poll[p].from >= horizon
      /\ poll' = [poll EXCEPT ![p].ids = first..last,
                              ![p].pos = Greater(last, poll[p].pos),
                              ![p].more = last < arrived, ![p].next = arrived]
      /\ UnchangedByRead

\* The new cursor is taken before the listing begins.
TakeCursor(p) ==
  /\ poll[p].pc = "profile"
  /\ poll' = [poll EXCEPT ![p].pc = "pages", ![p].mode = "listing",
                          ![p].next = arrived, ![p].pos = LastMessage + 2,
                          ![p].more = TRUE]
  /\ UnchangedByRead

\* A page of the listing, newest first. Its first page is read whatever the
\* history path has counted already.
ListSince(p) ==
  LET last  == Lesser(poll[p].pos - 1, arrived)
      first == Greater(poll[p].since + 1, last - PageSize + 1)
  IN  /\ poll[p].mode = "listing" /\ poll[p].pc = "pages" /\ poll[p].ids = {} /\ poll[p].more
      /\ poll[p].count < MaxPerPoll \/ poll[p].pos = LastMessage + 2
      /\ poll' = [poll EXCEPT ![p].ids = first..last, ![p].pos = first,
                              ![p].more = first > poll[p].since + 1]
      /\ UnchangedByRead

\* Mutant of Fetch: messages that are passed over count against the cap.
FetchCounting(p, m) ==
  /\ poll[p].pc = "pages" /\ m \in poll[p].ids
  /\ poll' = IF m \in stored \/ m \in deleted
             THEN [poll EXCEPT ![p].ids = @ \ {m}, ![p].count = @ + 1]
             ELSE [poll EXCEPT ![p].ids = @ \ {m}, ![p].pc = "store", ![p].got = m]
  /\ UnchangedByRead

\* processIds: a message that is known, or gone from the mailbox, is passed
\* over; another is fetched.
Fetch(p, m) ==
  /\ poll[p].pc = "pages" /\ m \in poll[p].ids
  /\ poll' = IF m \in stored \/ m \in deleted
             THEN [poll EXCEPT ![p].ids = @ \ {m}]
             ELSE [poll EXCEPT ![p].ids = @ \ {m}, ![p].pc = "store", ![p].got = m]
  /\ UnchangedByRead

\* Mutant of Fresh: the insert does not look for the provider's id.
FreshAlways(m) == TRUE

\* Fetched mail that no other poll has stored yet.
Fresh(m) == m \notin stored

\* store: one transaction inserts the row, unless its provider id is there
\* already, and applies the triage: opt-outs, stopped sequences, classify jobs.
Store(p) ==
  LET m == poll[p].got
  IN  /\ poll[p].pc = "store"
      /\ stored' = stored \union {m}
      /\ applied' = IF Fresh(m) THEN [applied EXCEPT ![m] = @ + 1] ELSE applied
      /\ poll' = [poll EXCEPT ![p].pc = "pages", ![p].got = 0,
                              ![p].count = IF Fresh(m) THEN @ + 1 ELSE @]
      /\ UNCHANGED <<mailboxVars, stateVars, troubled, leftBehind>>

\* Nothing is left to read in this poll.
PagesDone(p) ==
  /\ poll[p].pc = "pages" /\ poll[p].ids = {}
  /\ ~poll[p].more \/ poll[p].count >= MaxPerPoll
  /\ ~(poll[p].mode = "listing" /\ poll[p].pos = LastMessage + 2)

\* Mutant of NextCursor: a history poll that stopped early takes the new cursor.
NextCursorEager(p) == poll[p].next

\* A history poll that stopped early keeps the old cursor; a listing does not.
NextCursor(p) ==
  IF poll[p].mode = "history" /\ poll[p].more THEN poll[p].from ELSE poll[p].next

FinishPoll(p) ==
  /\ PagesDone(p)
  /\ cursor' = NextCursor(p) /\ lastPoll' = poll[p].now /\ leased' = FALSE
  /\ poll' = [poll EXCEPT ![p] = NoPoll]
  /\ leftBehind' = IF poll[p].mode = "listing"
                   THEN leftBehind \union {m \in 1..poll[p].next : m < poll[p].pos}
                   ELSE leftBehind
  /\ UNCHANGED <<mailboxVars, stored, troubled, applied>>

\* The provider or the database answers with an error, which releases the
\* lease, or the process dies, which does not. The cursor stays.
AbandonPoll(p, lease) ==
  /\ troubled /\ poll[p].pc # "idle"
  /\ poll' = [poll EXCEPT ![p] = NoPoll]
  /\ leased' = lease
  /\ UNCHANGED <<mailboxVars, cursor, lastPoll, stored, troubled, pollGhosts>>

PollsSettle ==
  /\ troubled /\ troubled' = FALSE
  /\ UNCHANGED <<mailboxVars, stateVars, stored, poll, pollGhosts>>

PollProgress(p) ==
  \/ ReadState(p) \/ CursorExpired(p) \/ ListHistory(p) \/ TakeCursor(p) \/ ListSince(p)
  \/ \E m \in Messages : Fetch(p, m)
  \/ Store(p) \/ FinishPoll(p)

PollNext ==
  \/ Arrive \/ ExpireHistory \/ LeaseLapses \/ PollsSettle
  \/ \E m \in Messages : Delete(m)
  \/ \E p \in Pollers : TakeLease(p) \/ PollProgress(p)
                          \/ \E lease \in {FALSE, leased} : AbandonPoll(p, lease)

PollSpec == PollInit /\ [][PollNext]_pollVars

(* Ticks keep coming, leases end, and after any number of abandoned polls  *)
(* there is a time from which the calls of a poll are answered.            *)
PollFairSpec ==
  /\ PollSpec
  /\ WF_pollVars(PollsSettle) /\ WF_pollVars(LeaseLapses) /\ WF_pollVars(\E p \in Pollers : TakeLease(p))
  /\ \A p \in Pollers : WF_pollVars(PollProgress(p))

-----------------------------------------------------------------------------
(* Properties.                                                             *)

PollState ==
  [pc: {"idle", "leased", "profile", "pages", "store"},
   mode: {"history", "listing"}, now: HistoryIds, from: HistoryIds \union {NoCursor},
   next: HistoryIds \union {NoCursor}, since: HistoryIds,
   pos: {NoCursor} \union 0..(LastMessage + 2), more: BOOLEAN,
   ids: SUBSET Messages, got: HistoryIds, count: HistoryIds]

\* The mailbox, the rows of ea_mailbox_state and ea_message and the local
\* variables of poll.
PollTypeOK ==
  /\ arrived \in HistoryIds /\ deleted \subseteq Messages /\ horizon \in HistoryIds
  /\ expiries \in 0..MaxExpiries
  /\ cursor \in HistoryIds \union {NoCursor} /\ lastPoll \in HistoryIds /\ leased \in BOOLEAN
  /\ troubled \in BOOLEAN
  /\ stored \subseteq Messages /\ leftBehind \subseteq Messages
  /\ poll \in [Pollers -> PollState]
  /\ applied \in [Messages -> Nat]

\* Overlapping polls, crashes and re-reads apply the effects of a message (the
\* opt-out, the stopped sequence, the classify job) exactly as often as its row
\* is stored: once.
AppliedOnce == \A m \in Messages : applied[m] = IF m \in stored THEN 1 ELSE 0

Handled(m) == m \in stored \union deleted \union leftBehind

\* The cursor passes no unread message but those a listing left behind, though
\* a poll whose lease is over may write its cursor over a newer one's.
CursorCovers == \A m \in 1..cursor : Handled(m)

\* The comment on poll(): the cursor only moves after every message on the way
\* was stored. Checked with a listing that is longer than one poll may store.
CursorPassesStored == \A m \in 1..cursor : m \in stored \union deleted

\* A message that came is stored, unless it is deleted or left behind first,
\* whatever polls fail, crash or overlap.
MailIsRead == \A m \in Messages : (m <= arrived) ~> Handled(m)
=============================================================================

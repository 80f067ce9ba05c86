----------------------------- MODULE EaPollProofs -----------------------------
(***************************************************************************)
(* Mailbox polls of the email agent, for any number of processes and       *)
(* messages: overlapping polls apply a message once and write no cursor    *)
(* past mail they have not read, because a poll's position and its page    *)
(* account for every message since the cursor it began with.               *)
(***************************************************************************)
EXTENDS EaPoll, FiniteSetTheorems, TLAPS

Positions == {NoCursor} \union 0..(LastMessage + 2)

\* Poll p has dealt with message m, or will before it is done.
WillRead(p, m) ==
  Handled(m) \/ m \in poll[p].ids \/ (poll[p].pc = "store" /\ m = poll[p].got)

AtWork(p, mode) == poll[p].pc \in {"pages", "store"} /\ poll[p].mode = mode

\* A poll of the history reads everything up to its position, which starts at a
\* cursor that was right.
HistoryRead(p) ==
  AtWork(p, "history") =>
    /\ poll[p].from >= 0 /\ \A m \in 1..poll[p].from : Handled(m)
    /\ poll[p].pos >= 0 /\ \A m \in 1..poll[p].pos : WillRead(p, m)
    /\ ~poll[p].more => poll[p].next <= poll[p].pos

\* A listing goes down from the newest message, which came after its new cursor.
ListingRead(p) ==
  AtWork(p, "listing") =>
    poll[p].next <= arrived /\ \A m \in poll[p].pos..poll[p].next : WillRead(p, m)

\* What a poll counts it stored; what it fetched is a message; it begins with the
\* history.
Counted(p) ==
  /\ poll[p].count <= Cardinality(stored)
  /\ poll[p].pc = "store" => poll[p].got \in Messages
  /\ poll[p].pc \in {"leased", "profile"} => poll[p].mode = "history"

PollRead(p) == HistoryRead(p) /\ ListingRead(p) /\ Counted(p)

PollInv == PollTypeOK /\ AppliedOnce /\ CursorCovers /\ \A p \in Pollers : PollRead(p)

LEMMA MailIsFinite ==
  ASSUME NEW S, S \subseteq Messages
  PROVE  IsFiniteSet(S) /\ Cardinality(S) \in Nat /\ Cardinality(S) <= LastMessage
<1>1. LastMessage \in Nat
  BY PollAssumption
<1>2. IsFiniteSet(Messages) /\ Cardinality(Messages) = LastMessage
  BY <1>1, FS_Interval DEF Messages
<1>3. IsFiniteSet(S) /\ Cardinality(S) <= Cardinality(Messages)
  BY <1>2, FS_Subset
<1>4. Cardinality(S) \in Nat
  BY <1>3, FS_CardinalityType
<1> QED
  BY <1>2, <1>3, <1>4

LEMMA NoPollType == NoPoll \in PollState /\ NoPoll.pc = "idle" /\ NoPoll.count = 0
                     /\ NoPoll.mode = "history"
  BY PollAssumption DEF NoPoll, PollState, HistoryIds, NoCursor, Messages

LEMMA PollInitInv == PollInit => PollInv
<1> SUFFICES ASSUME PollInit PROVE PollInv
  OBVIOUS
<1>1. PollTypeOK
  <2>1. 0 \in HistoryIds /\ 0 \in 0..MaxExpiries
    BY PollAssumption DEF HistoryIds
  <2> QED
    BY <2>1, NoPollType DEF PollInit, PollTypeOK
<1>2. AppliedOnce /\ CursorCovers
  BY DEF PollInit, AppliedOnce, CursorCovers, NoCursor
<1>3. Cardinality(stored) = 0
  BY FS_EmptySet DEF PollInit
<1> QED
  BY <1>1, <1>2, <1>3
     DEF PollInit, PollInv, PollRead, HistoryRead, ListingRead, Counted, AtWork, NoPoll

\* A poll that does not move, while mail comes, goes and is stored.
LEMMA PollStays ==
  ASSUME PollInv, NEW p \in Pollers, poll'[p] = poll[p],
         arrived <= arrived', arrived' \in HistoryIds,
         stored \subseteq stored', stored' \subseteq Messages,
         deleted \subseteq deleted', leftBehind \subseteq leftBehind'
  PROVE  PollRead(p)'
<1>1. \A m : Handled(m) => Handled(m)'
  BY DEF Handled
<1>2. \A m : WillRead(p, m) => WillRead(p, m)'
  BY <1>1 DEF WillRead
<1>3. HistoryRead(p)'
  BY <1>1, <1>2 DEF PollInv, PollRead, HistoryRead, AtWork
<1>4. ListingRead(p)'
  BY <1>2, PollAssumption
     DEF PollInv, PollRead, ListingRead, AtWork, PollTypeOK, PollState, HistoryIds, NoCursor
<1>5. Cardinality(stored) <= Cardinality(stored') /\ Cardinality(stored') \in Nat
      /\ Cardinality(stored) \in Nat
  <2>1. IsFiniteSet(stored')
    BY MailIsFinite
  <2> QED
    BY <2>1, FS_Subset, FS_CardinalityType
<1>6. Counted(p)'
  BY <1>5, PollAssumption
     DEF PollInv, PollRead, Counted, PollTypeOK, PollState, HistoryIds
<1> QED
  BY <1>3, <1>4, <1>6 DEF PollRead

\* A poll that is put back to idle.
LEMMA PollIdle ==
  ASSUME NEW p \in Pollers, poll'[p].pc \in {"idle", "leased", "profile"},
         poll'[p].mode = "history", poll'[p].count \in Nat, poll'[p].count <= Cardinality(stored)'
  PROVE  PollRead(p)'
  BY DEF PollRead, HistoryRead, ListingRead, Counted, AtWork

\* The step changes poll p alone, and mail only comes, goes and is stored.
LEMMA PollOthers ==
  ASSUME PollInv, PollTypeOK', NEW p \in Pollers,
         \A q \in Pollers \ {p} : poll'[q] = poll[q],
         arrived <= arrived', stored \subseteq stored', deleted \subseteq deleted',
         leftBehind \subseteq leftBehind', PollRead(p)'
  PROVE  \A q \in Pollers : PollRead(q)'
<1>1. arrived' \in HistoryIds /\ stored' \subseteq Messages
  BY DEF PollTypeOK
<1> QED
  BY <1>1, PollStays

\* The cursor stays, and mail only comes, goes and is stored.
LEMMA CursorKept ==
  ASSUME PollInv, cursor' = cursor, stored \subseteq stored', deleted \subseteq deleted',
         leftBehind \subseteq leftBehind'
  PROVE  CursorCovers'
  BY DEF PollInv, CursorCovers, Handled

\* The mailbox's own steps.
LEMMA MailboxStep ==
  ASSUME PollInv,
         \/ Arrive \/ ExpireHistory \/ LeaseLapses \/ PollsSettle
         \/ \E m \in Messages : Delete(m)
  PROVE  PollInv'
<1>1. /\ arrived' \in HistoryIds /\ arrived <= arrived' /\ horizon' \in HistoryIds
      /\ expiries' \in 0..MaxExpiries
  BY PollAssumption
     DEF PollInv, PollTypeOK, Arrive, ExpireHistory, LeaseLapses, PollsSettle, Delete, HistoryIds,
         stateVars, mailboxVars
<1>2. deleted \subseteq deleted' /\ deleted' \subseteq Messages
  BY DEF PollInv, PollTypeOK, Arrive, ExpireHistory, LeaseLapses, PollsSettle, Delete, mailboxVars
<1>3. UNCHANGED <<cursor, lastPoll, stored, poll, applied, leftBehind>>
      /\ leased' \in BOOLEAN /\ troubled' \in BOOLEAN
  BY DEF PollInv, PollTypeOK, Arrive, ExpireHistory, LeaseLapses, PollsSettle, Delete, stateVars,
         pollGhosts
<1>4. PollTypeOK'
  BY <1>1, <1>2, <1>3 DEF PollInv, PollTypeOK
<1>5. \A p \in Pollers : PollRead(p)'
  BY <1>1, <1>2, <1>3, <1>4, PollStays DEF PollTypeOK
<1>6. AppliedOnce' /\ CursorCovers'
  BY <1>2, <1>3, CursorKept DEF PollInv, AppliedOnce
<1> QED
  BY <1>4, <1>5, <1>6 DEF PollInv

\* A step of poll p that only reads.
LEMMA ReadOnly ==
  ASSUME PollInv, NEW p \in Pollers, UnchangedByRead, NEW q \in PollState,
         poll' = [poll EXCEPT ![p] = q], PollRead(p)'
  PROVE  PollInv'
<1>1. UNCHANGED <<mailboxVars, stateVars, stored, troubled, pollGhosts>>
  BY DEF UnchangedByRead
<1>2. PollTypeOK'
  BY <1>1 DEF PollInv, PollTypeOK, mailboxVars, stateVars, pollGhosts
<1>3. \A r \in Pollers \ {p} : poll'[r] = poll[r]
  BY DEF PollInv, PollTypeOK
<1>4. arrived <= arrived'
  BY <1>1, PollAssumption DEF PollInv, PollTypeOK, mailboxVars, HistoryIds
<1>5. \A r \in Pollers : PollRead(r)'
  BY <1>1, <1>2, <1>3, <1>4, PollOthers DEF mailboxVars, pollGhosts
<1>6. AppliedOnce' /\ CursorCovers'
  BY <1>1, CursorKept DEF PollInv, AppliedOnce, mailboxVars, stateVars, pollGhosts
<1> QED
  BY <1>2, <1>5, <1>6 DEF PollInv

LEMMA LocalsIn ==
  ASSUME PollInv, NEW p \in Pollers
  PROVE  poll[p] \in PollState
  BY DEF PollInv, PollTypeOK

LEMMA LocalsType ==
  ASSUME PollInv, NEW p \in Pollers
  PROVE  /\ poll[p] \in PollState
         /\ \A q : (poll' = [poll EXCEPT ![p] = q]) => poll'[p] = q
         /\ HistoryRead(p) /\ ListingRead(p) /\ Counted(p)
  BY DEF PollInv, PollTypeOK, PollRead

LEMMA ReadStateStep ==
  ASSUME PollInv, NEW p \in Pollers, ReadState(p)
  PROVE  PollInv'
<1> DEFINE q == [poll[p] EXCEPT !.pc = IF cursor = NoCursor THEN "profile" ELSE "pages",
                                !.from = cursor, !.next = cursor, !.pos = cursor,
                                !.more = cursor # NoCursor]
<1>1. poll' = [poll EXCEPT ![p] = q] /\ UnchangedByRead /\ poll[p].pc = "leased"
  BY DEF ReadState
<1>2. cursor \in HistoryIds \union {NoCursor} /\ LastMessage \in Nat
  BY PollAssumption DEF PollInv, PollTypeOK
<1>3. q \in PollState
  <2>1. cursor \in Positions
    BY <1>2 DEF Positions, HistoryIds
  <2> QED
    BY <1>2, <2>1, LocalsIn DEF PollState, Positions
<1>4. /\ poll'[p] = q /\ q.count = poll[p].count
      /\ q.pc = (IF cursor = NoCursor THEN "profile" ELSE "pages")
      /\ q.from = cursor /\ q.pos = cursor /\ q.more = (cursor # NoCursor)
      /\ q.mode = poll[p].mode
  BY <1>1, LocalsType DEF PollState
<1>5. q.mode = "history" /\ q.count <= Cardinality(stored) /\ stored' = stored /\ cursor' = cursor
  BY <1>1, <1>4, LocalsType DEF Counted, UnchangedByRead, stateVars
<1>6. \A m \in 1..cursor : Handled(m)'
  BY <1>1 DEF PollInv, CursorCovers, Handled, UnchangedByRead, mailboxVars, pollGhosts
<1> HIDE DEF q
<1>7. PollRead(p)'
  <2>1. CASE cursor = NoCursor
    <3>1. q.pc = "profile"
      BY <1>4, <2>1
    <3> QED
      BY <1>4, <1>5, <3>1 DEF PollRead, HistoryRead, ListingRead, Counted, AtWork
  <2>2. CASE cursor # NoCursor
    <3>1. q.pc = "pages" /\ q.more /\ cursor >= 0
      <4>1. cursor \in 0..LastMessage
        BY <1>2, <2>2 DEF HistoryIds
      <4>2. q.more
        BY <1>4, <2>2, Zenon
      <4> QED
        BY <1>4, <2>2, <4>1, <4>2
    <3> QED
      BY <1>4, <1>5, <1>6, <3>1 DEF PollRead, HistoryRead, ListingRead, Counted, AtWork, WillRead
  <2> QED
    BY <2>1, <2>2
<1> QED
  BY <1>1, <1>3, <1>7, ReadOnly

LEMMA CursorExpiredStep ==
  ASSUME PollInv, NEW p \in Pollers, CursorExpired(p)
  PROVE  PollInv'
<1>1. PICK since \in 0..Lesser(lastPoll, poll[p].now) :
        poll' = [poll EXCEPT ![p] =
                   [poll[p] EXCEPT !.pc = "profile", !.from = NoCursor, !.since = since]]
  BY DEF CursorExpired
<1> DEFINE q == [poll[p] EXCEPT !.pc = "profile", !.from = NoCursor, !.since = since]
<1>2. UnchangedByRead /\ poll[p].mode = "history"
  BY DEF CursorExpired, WantsPage
<1>3. since \in HistoryIds
  BY LocalsType, PollAssumption DEF PollInv, PollTypeOK, PollState, Lesser, HistoryIds
<1>4. q \in PollState
  BY <1>3, LocalsIn DEF PollState, NoCursor
<1>5. /\ poll'[p] = q /\ q.pc = "profile" /\ q.mode = "history" /\ q.count = poll[p].count
      /\ q.count \in Nat /\ stored' = stored
  <2>1. poll[p].count \in Nat
    BY LocalsIn, PollAssumption DEF PollState, HistoryIds
  <2> QED
    BY <1>1, <1>2, <2>1, LocalsIn, LocalsType DEF PollState, UnchangedByRead
<1>6. PollRead(p)'
  BY <1>5, LocalsType, PollIdle DEF Counted
<1> QED
  BY <1>1, <1>2, <1>4, <1>6, ReadOnly

LEMMA ListHistoryStep ==
  ASSUME PollInv, NEW p \in Pollers, ListHistory(p)
  PROVE  PollInv'
<1> DEFINE first == poll[p].pos + 1
           last  == Lesser(poll[p].pos + PageSize, arrived)
           q == [poll[p] EXCEPT !.ids = first..last, !.pos = Greater(last, poll[p].pos),
                                !.more = last < arrived, !.next = arrived]
<1>1. /\ poll' = [poll EXCEPT ![p] = q] /\ UnchangedByRead
      /\ poll[p].pc = "pages" /\ poll[p].ids = {} /\ poll[p].mode = "history"
  BY DEF ListHistory, WantsPage
<1>2. /\ LastMessage \in Nat /\ PageSize \in Nat /\ arrived \in 0..LastMessage
      /\ poll[p].pos \in 0..LastMessage + 2
  BY PollAssumption, LocalsType, <1>1
     DEF PollInv, PollTypeOK, HistoryIds, PollState, HistoryRead, AtWork, NoCursor
<1>3. /\ last \in Nat /\ last <= arrived /\ Greater(last, poll[p].pos) \in 0..LastMessage + 2
      /\ ~(last < arrived) => arrived <= Greater(last, poll[p].pos)
      /\ \A m \in 1..Greater(last, poll[p].pos) : m \in 1..poll[p].pos \/ m \in first..last
      /\ first..last \subseteq Messages
  BY <1>2 DEF Lesser, Greater, Messages
<1>4. q \in PollState
  <2>1. Greater(last, poll[p].pos) \in Positions /\ arrived \in HistoryIds /\ (last < arrived) \in BOOLEAN
    BY <1>2, <1>3 DEF Positions, HistoryIds
  <2> HIDE DEF first, last
  <2> QED
    BY <1>3, <2>1, LocalsIn DEF PollState, Positions
<1>5. /\ poll'[p] = q /\ q.count = poll[p].count /\ q.pc = "pages" /\ q.mode = "history"
      /\ q.ids = first..last /\ q.pos = Greater(last, poll[p].pos) /\ q.more = (last < arrived)
      /\ q.next = arrived /\ q.from = poll[p].from
  BY <1>1, LocalsType DEF PollState
<1>6. \A m : Handled(m)' <=> Handled(m)
  BY <1>1 DEF Handled, UnchangedByRead, mailboxVars, pollGhosts
<1>7. \A m \in 1..poll[p].pos : Handled(m)
  BY <1>1, LocalsType DEF HistoryRead, AtWork, WillRead
<1>8. stored' = stored
  BY <1>1 DEF UnchangedByRead
<1> HIDE DEF q, first, last
<1>9. HistoryRead(p)'
  <2>1. \A m \in 1..q.pos : WillRead(p, m)'
    BY <1>3, <1>5, <1>6, <1>7 DEF WillRead
  <2>2. q.from >= 0 /\ \A m \in 1..q.from : Handled(m)'
    BY <1>1, <1>5, <1>6, LocalsType DEF HistoryRead, AtWork
  <2>3. q.pos >= 0 /\ (~q.more => q.next <= q.pos)
    <3>1. Greater(last, poll[p].pos) >= 0
      BY <1>2, <1>3
    <3>2. ~q.more => ~(last < arrived)
      BY <1>5
    <3> QED
      BY <1>3, <1>5, <3>1, <3>2
  <2> QED
    BY <1>5, <2>1, <2>2, <2>3 DEF HistoryRead
<1>10. ListingRead(p)' /\ Counted(p)'
  BY <1>5, <1>8, LocalsType DEF ListingRead, Counted, AtWork
<1> QED
  BY <1>1, <1>4, <1>9, <1>10, ReadOnly DEF PollRead

LEMMA TakeCursorStep ==
  ASSUME PollInv, NEW p \in Pollers, TakeCursor(p)
  PROVE  PollInv'
<1> DEFINE q == [poll[p] EXCEPT !.pc = "pages", !.mode = "listing", !.next = arrived,
                                !.pos = LastMessage + 2, !.more = TRUE]
<1>1. poll' = [poll EXCEPT ![p] = q] /\ UnchangedByRead
  BY DEF TakeCursor
<1>2. LastMessage \in Nat /\ arrived \in 0..LastMessage /\ arrived' = arrived /\ stored' = stored
  BY <1>1, PollAssumption DEF PollInv, PollTypeOK, HistoryIds, UnchangedByRead, mailboxVars
<1>3. q \in PollState
  <2>1. LastMessage + 2 \in Positions /\ arrived \in HistoryIds
    BY <1>2 DEF Positions, HistoryIds
  <2> QED
    BY <2>1, LocalsIn DEF PollState, Positions
<1>4. /\ poll'[p] = q /\ q.count = poll[p].count /\ q.pc = "pages" /\ q.mode = "listing"
      /\ q.next = arrived /\ q.pos = LastMessage + 2
  BY <1>1, LocalsType DEF PollState
<1> HIDE DEF q
<1>5. PollRead(p)'
  BY <1>2, <1>4, LocalsType DEF PollRead, HistoryRead, ListingRead, Counted, AtWork
<1> QED
  BY <1>1, <1>3, <1>5, ReadOnly

LEMMA ListSinceStep ==
  ASSUME PollInv, NEW p \in Pollers, ListSince(p)
  PROVE  PollInv'
<1> DEFINE last  == Lesser(poll[p].pos - 1, arrived)
           first == Greater(poll[p].since + 1, last - PageSize + 1)
           q == [poll[p] EXCEPT !.ids = first..last, !.pos = first,
                                !.more = first > poll[p].since + 1]
<1>1. /\ poll' = [poll EXCEPT ![p] = q] /\ UnchangedByRead
      /\ poll[p].pc = "pages" /\ poll[p].ids = {} /\ poll[p].mode = "listing"
  BY DEF ListSince
<1>2. /\ LastMessage \in Nat /\ PageSize \in Nat \ {0} /\ arrived \in 0..LastMessage
      /\ poll[p].pos \in -1..LastMessage + 2 /\ poll[p].since \in 0..LastMessage
      /\ poll[p].next \in -1..LastMessage /\ poll[p].next <= arrived
  BY PollAssumption, LocalsType, <1>1
     DEF PollInv, PollTypeOK, HistoryIds, PollState, ListingRead, AtWork, NoCursor
<1>3. /\ last \in Int /\ last <= arrived /\ first \in 1..LastMessage + 2
      /\ \A m \in first..poll[p].next : m \in poll[p].pos..poll[p].next \/ m \in first..last
      /\ first..last \subseteq Messages
  BY <1>2 DEF Lesser, Greater, Messages
<1>4. q \in PollState
  <2>1. first \in Positions /\ (first > poll[p].since + 1) \in BOOLEAN
    BY <1>2, <1>3 DEF Positions
  <2> HIDE DEF first, last
  <2> QED
    BY <1>3, <2>1, LocalsIn DEF PollState, Positions
<1>5. /\ poll'[p] = q /\ q.count = poll[p].count /\ q.pc = "pages" /\ q.mode = "listing"
      /\ q.ids = first..last /\ q.pos = first /\ q.next = poll[p].next
  BY <1>1, LocalsType DEF PollState
<1>6. \A m : Handled(m)' <=> Handled(m)
  BY <1>1 DEF Handled, UnchangedByRead, mailboxVars, pollGhosts
<1>7. \A m \in poll[p].pos..poll[p].next : Handled(m)
  BY <1>1, LocalsType DEF ListingRead, AtWork, WillRead
<1>8. stored' = stored /\ arrived' = arrived
  BY <1>1 DEF UnchangedByRead, mailboxVars
<1> HIDE DEF q, first, last
<1>9. ListingRead(p)'
  <2>1. \A m \in q.pos..q.next : WillRead(p, m)'
    BY <1>3, <1>5, <1>6, <1>7 DEF WillRead
  <2> QED
    BY <1>2, <1>5, <1>8, <2>1 DEF ListingRead
<1>10. HistoryRead(p)' /\ Counted(p)'
  BY <1>5, <1>8, LocalsType DEF HistoryRead, Counted, AtWork
<1> QED
  BY <1>1, <1>4, <1>9, <1>10, ReadOnly DEF PollRead

LEMMA FetchStep ==
  ASSUME PollInv, NEW p \in Pollers, NEW m \in Messages, Fetch(p, m)
  PROVE  PollInv'
<1> DEFINE over == [poll[p] EXCEPT !.ids = @ \ {m}]
           got  == [poll[p] EXCEPT !.ids = @ \ {m}, !.pc = "store", !.got = m]
           q    == IF m \in stored \/ m \in deleted THEN over ELSE got
<1>1. /\ poll' = [poll EXCEPT ![p] = q] /\ UnchangedByRead
      /\ poll[p].pc = "pages" /\ m \in poll[p].ids
  BY DEF Fetch
<1>2. m \in HistoryIds
  BY PollAssumption DEF Messages, HistoryIds
<1>3. q \in PollState
  BY <1>2, LocalsIn DEF PollState
<1>4. /\ poll'[p] = q
      /\ q.pc = (IF m \in stored \/ m \in deleted THEN "pages" ELSE "store")
      /\ q.ids = poll[p].ids \ {m} /\ (q.pc = "store" => q.got = m)
      /\ q.mode = poll[p].mode /\ q.count = poll[p].count /\ q.from = poll[p].from
      /\ q.pos = poll[p].pos /\ q.next = poll[p].next /\ q.more = poll[p].more
  BY <1>1, LocalsIn, LocalsType DEF PollState
<1>5. /\ stored' = stored /\ arrived' = arrived
      /\ \A k : Handled(k)' <=> Handled(k)
  BY <1>1 DEF Handled, UnchangedByRead, mailboxVars, pollGhosts
<1> HIDE DEF q
<1>6. \A k : WillRead(p, k) => WillRead(p, k)'
  BY <1>1, <1>4, <1>5 DEF WillRead, Handled
<1>7. HistoryRead(p)'
  <2>1. AtWork(p, "history")' => AtWork(p, "history")
    BY <1>1, <1>4 DEF AtWork
  <2> QED
    BY <2>1, <1>4, <1>5, <1>6, LocalsType DEF HistoryRead
<1>8. ListingRead(p)'
  <2>1. AtWork(p, "listing")' => AtWork(p, "listing")
    BY <1>1, <1>4 DEF AtWork
  <2> QED
    BY <2>1, <1>4, <1>5, <1>6, LocalsType DEF ListingRead
<1>9. Counted(p)'
  BY <1>4, <1>5, LocalsType DEF Counted
<1> QED
  BY <1>1, <1>3, <1>7, <1>8, <1>9, ReadOnly DEF PollRead

LEMMA StoreStep ==
  ASSUME PollInv, NEW p \in Pollers, Store(p)
  PROVE  PollInv'
<1> DEFINE m == poll[p].got
           n == IF Fresh(m) THEN poll[p].count + 1 ELSE poll[p].count
           q == [poll[p] EXCEPT !.pc = "pages", !.got = 0, !.count = n]
<1>1. /\ poll' = [poll EXCEPT ![p] = q] /\ poll[p].pc = "store"
      /\ stored' = stored \union {m}
      /\ applied' = IF Fresh(m) THEN [applied EXCEPT ![m] = @ + 1] ELSE applied
      /\ UNCHANGED <<mailboxVars, stateVars, troubled, leftBehind>>
  BY DEF Store
<1>2. m \in Messages /\ poll[p].count \in Nat /\ poll[p].count <= Cardinality(stored)
  BY <1>1, LocalsIn, LocalsType, PollAssumption DEF Counted, PollState, HistoryIds
<1>3. stored' \subseteq Messages /\ stored \subseteq stored'
  BY <1>1, <1>2 DEF PollInv, PollTypeOK
<1>4. n \in Nat /\ n <= Cardinality(stored') /\ Cardinality(stored') <= LastMessage
  <2>1. IsFiniteSet(stored) /\ Cardinality(stored) \in Nat
    BY MailIsFinite DEF PollInv, PollTypeOK
  <2>2. Cardinality(stored') = IF m \in stored THEN Cardinality(stored) ELSE Cardinality(stored) + 1
    BY <1>1, <2>1, FS_AddElement
  <2>3. Cardinality(stored') <= LastMessage
    BY <1>3, MailIsFinite
  <2> QED
    BY <1>2, <2>1, <2>2, <2>3 DEF Fresh
<1> HIDE DEF n
<1>5. q \in PollState
  <2>1. n \in HistoryIds /\ 0 \in HistoryIds
    <3>1. Cardinality(stored') \in Nat
      BY <1>3, MailIsFinite
    <3> QED
      BY <1>4, <3>1, PollAssumption DEF HistoryIds
  <2> QED
    BY <2>1, LocalsIn DEF PollState
<1>6. applied' \in [Messages -> Nat] /\ AppliedOnce'
  BY <1>1, <1>2 DEF PollInv, PollTypeOK, AppliedOnce, Fresh
<1>7. PollTypeOK'
  BY <1>1, <1>3, <1>5, <1>6 DEF PollInv, PollTypeOK, mailboxVars, stateVars
<1>8. CursorCovers'
  BY <1>1, <1>3, CursorKept DEF mailboxVars, stateVars
<1>9. /\ poll'[p] = q /\ q.pc = "pages" /\ q.ids = poll[p].ids /\ q.count = n
      /\ q.mode = poll[p].mode /\ q.from = poll[p].from
      /\ q.pos = poll[p].pos /\ q.next = poll[p].next /\ q.more = poll[p].more
  BY <1>1, LocalsIn, LocalsType DEF PollState
<1> HIDE DEF q
<1>10. /\ \A k : Handled(k) => Handled(k)'
       /\ \A k : WillRead(p, k) => WillRead(p, k)'
  BY <1>1, <1>9 DEF Handled, WillRead, mailboxVars
<1>11. arrived' = arrived /\ deleted' = deleted /\ leftBehind' = leftBehind
  BY <1>1 DEF mailboxVars
<1>12. PollRead(p)'
  <2>1. HistoryRead(p)'
    BY <1>1, <1>9, <1>10, LocalsType DEF HistoryRead, AtWork
  <2>2. ListingRead(p)'
    BY <1>1, <1>9, <1>10, <1>11, LocalsType DEF ListingRead, AtWork
  <2>3. Counted(p)'
    BY <1>4, <1>9 DEF Counted
  <2> QED
    BY <2>1, <2>2, <2>3 DEF PollRead
<1>13. \A r \in Pollers \ {p} : poll'[r] = poll[r]
  BY <1>1 DEF PollInv, PollTypeOK
<1>14. arrived <= arrived'
  BY <1>11, PollAssumption DEF PollInv, PollTypeOK, HistoryIds
<1>15. \A r \in Pollers : PollRead(r)'
  BY <1>3, <1>7, <1>11, <1>12, <1>13, <1>14, PollOthers
<1> QED
  BY <1>6, <1>7, <1>8, <1>15 DEF PollInv

\* A poll ends: it stands for nothing any more, and what it wrote is right.
LEMMA PollEnds ==
  ASSUME PollInv, NEW p \in Pollers, poll' = [poll EXCEPT ![p] = NoPoll],
         UNCHANGED <<mailboxVars, stored, troubled, applied>>, leased' \in BOOLEAN,
         cursor' \in HistoryIds \union {NoCursor}, lastPoll' \in HistoryIds,
         leftBehind \subseteq leftBehind', leftBehind' \subseteq Messages, CursorCovers'
  PROVE  PollInv'
<1>1. PollTypeOK'
  BY NoPollType DEF PollInv, PollTypeOK, mailboxVars
<1>2. poll'[p] = NoPoll /\ \A r \in Pollers \ {p} : poll'[r] = poll[r]
  BY DEF PollInv, PollTypeOK
<1>3. Cardinality(stored)' \in Nat
  BY <1>1, MailIsFinite DEF PollInv, PollTypeOK
<1>4. PollRead(p)'
  BY <1>2, <1>3, NoPollType, PollIdle
<1>5. arrived <= arrived' /\ stored' = stored /\ deleted' = deleted
  BY PollAssumption DEF PollInv, PollTypeOK, HistoryIds, mailboxVars
<1>6. \A r \in Pollers : PollRead(r)'
  BY <1>1, <1>2, <1>4, <1>5, PollOthers
<1>7. AppliedOnce'
  BY DEF PollInv, AppliedOnce
<1> QED
  BY <1>1, <1>6, <1>7 DEF PollInv

LEMMA FinishPollStep ==
  ASSUME PollInv, NEW p \in Pollers, FinishPoll(p)
  PROVE  PollInv'
<1>1. /\ poll[p].pc = "pages" /\ poll[p].ids = {}
      /\ cursor' = NextCursor(p) /\ lastPoll' = poll[p].now /\ leased' = FALSE
      /\ poll' = [poll EXCEPT ![p] = NoPoll]
      /\ UNCHANGED <<mailboxVars, stored, troubled, applied>>
  BY DEF FinishPoll, PagesDone
<1>2. /\ poll[p].from \in HistoryIds \union {NoCursor} /\ poll[p].next \in HistoryIds \union {NoCursor}
      /\ poll[p].now \in HistoryIds /\ poll[p].pos \in Int /\ poll[p].mode \in {"history", "listing"}
  BY LocalsIn, PollAssumption DEF PollState, NoCursor
<1>3. cursor' \in HistoryIds \union {NoCursor}
  BY <1>1, <1>2 DEF NextCursor
<1>4. leftBehind \subseteq leftBehind' /\ leftBehind' \subseteq Messages
  <2>1. \A m \in 1..poll[p].next : m \in Messages
    BY <1>2, PollAssumption DEF HistoryIds, NoCursor, Messages
  <2> QED
    BY <2>1 DEF FinishPoll, PollInv, PollTypeOK
<1>5. \A m : Handled(m) => Handled(m)'
  BY <1>1, <1>4 DEF Handled, mailboxVars
<1>6. \A m : WillRead(p, m) => Handled(m)
  BY <1>1 DEF WillRead
<1>7. CursorCovers'
  <2>1. CASE poll[p].mode = "history"
    <3>1. HistoryRead(p) /\ AtWork(p, "history")
      BY <1>1, <2>1, LocalsType DEF AtWork
    <3>2. CASE poll[p].more
      <4>1. cursor' = poll[p].from
        BY <1>1, <2>1, <3>2 DEF NextCursor
      <4> QED
        BY <1>5, <3>1, <4>1 DEF HistoryRead, CursorCovers
    <3>3. CASE ~poll[p].more
      <4>1. cursor' = poll[p].next /\ poll[p].next <= poll[p].pos
        BY <1>1, <2>1, <3>1, <3>3 DEF NextCursor, HistoryRead
      <4>2. \A m \in 1..poll[p].next : m \in 1..poll[p].pos
        <5>1. poll[p].next \in Int
          BY <1>2, PollAssumption DEF HistoryIds, NoCursor
        <5> QED
          BY <1>2, <4>1, <5>1
      <4> QED
        BY <1>5, <1>6, <3>1, <4>1, <4>2 DEF HistoryRead, CursorCovers
    <3> QED
      BY <3>2, <3>3
  <2>2. CASE poll[p].mode = "listing"
    <3>1. /\ cursor' = poll[p].next
          /\ leftBehind' = leftBehind \union {m \in 1..poll[p].next : m < poll[p].pos}
      BY <1>1, <2>2 DEF FinishPoll, NextCursor
    <3>2. \A m \in poll[p].pos..poll[p].next : Handled(m)
      BY <1>1, <1>6, <2>2, LocalsType DEF ListingRead, AtWork
    <3>3. \A m \in 1..poll[p].next : m < poll[p].pos \/ m \in poll[p].pos..poll[p].next
      BY <1>2
    <3>4. \A m \in 1..poll[p].next : Handled(m)'
      BY <1>5, <3>1, <3>2, <3>3 DEF Handled
    <3> QED
      BY <3>1, <3>4 DEF CursorCovers
  <2> QED
    BY <1>2, <2>1, <2>2
<1> QED
  BY <1>1, <1>2, <1>3, <1>4, <1>7, PollEnds

LEMMA AbandonPollStep ==
  ASSUME PollInv, NEW p \in Pollers, NEW lease \in {FALSE, leased}, AbandonPoll(p, lease)
  PROVE  PollInv'
<1>1. /\ poll' = [poll EXCEPT ![p] = NoPoll] /\ leased' = lease
      /\ UNCHANGED <<mailboxVars, cursor, lastPoll, stored, troubled, applied, leftBehind>>
  BY DEF AbandonPoll, pollGhosts
<1>2. CursorCovers'
  BY <1>1, CursorKept DEF mailboxVars
<1> QED
  BY <1>1, <1>2, PollEnds DEF PollInv, PollTypeOK

LEMMA TakeLeaseStep ==
  ASSUME PollInv, NEW p \in Pollers, TakeLease(p)
  PROVE  PollInv'
<1> DEFINE q == [NoPoll EXCEPT !.pc = "leased", !.now = arrived]
<1>1. /\ poll' = [poll EXCEPT ![p] = q] /\ leased' = TRUE
      /\ UNCHANGED <<mailboxVars, cursor, lastPoll, stored, troubled, pollGhosts>>
  BY DEF TakeLease
<1>2. q \in PollState /\ q.pc = "leased" /\ q.mode = "history" /\ q.count = 0
  BY NoPollType DEF PollState, PollInv, PollTypeOK
<1> HIDE DEF q
<1>3. PollTypeOK'
  BY <1>1, <1>2 DEF PollInv, PollTypeOK, mailboxVars, pollGhosts
<1>4. poll'[p] = q /\ \A r \in Pollers \ {p} : poll'[r] = poll[r]
  BY <1>1 DEF PollInv, PollTypeOK
<1>5. Cardinality(stored)' \in Nat
  BY <1>1, MailIsFinite DEF PollInv, PollTypeOK
<1>6. PollRead(p)'
  BY <1>2, <1>4, <1>5, PollIdle
<1>7. arrived <= arrived' /\ stored' = stored /\ deleted' = deleted /\ leftBehind' = leftBehind
  BY <1>1, PollAssumption DEF PollInv, PollTypeOK, HistoryIds, mailboxVars, pollGhosts
<1>8. \A r \in Pollers : PollRead(r)'
  BY <1>3, <1>4, <1>6, <1>7, PollOthers
<1>9. AppliedOnce' /\ CursorCovers'
  BY <1>1, <1>7, CursorKept DEF PollInv, AppliedOnce, pollGhosts
<1> QED
  BY <1>3, <1>8, <1>9 DEF PollInv

LEMMA PollStep == PollInv /\ [PollNext]_pollVars => PollInv'
<1> SUFFICES ASSUME PollInv, [PollNext]_pollVars PROVE PollInv'
  OBVIOUS
<1>1. CASE UNCHANGED pollVars
  <2>1. /\ UNCHANGED <<arrived, deleted, horizon, expiries, cursor, lastPoll, leased, stored, poll>>
        /\ UNCHANGED <<troubled, applied, leftBehind>>
    BY <1>1 DEF pollVars, mailboxVars, stateVars, pollGhosts
  <2>2. PollTypeOK' /\ AppliedOnce' /\ CursorCovers'
    BY <2>1 DEF PollInv, PollTypeOK, AppliedOnce, CursorCovers, Handled
  <2>3. arrived <= arrived'
    BY <2>1, PollAssumption DEF PollInv, PollTypeOK, HistoryIds
  <2>4. \A p \in Pollers : PollRead(p)'
    BY <2>1, <2>2, <2>3, PollStays DEF PollTypeOK
  <2> QED
    BY <2>2, <2>4 DEF PollInv
<1>2. CASE Arrive \/ ExpireHistory \/ LeaseLapses \/ PollsSettle \/ \E m \in Messages : Delete(m)
  BY <1>2, MailboxStep
<1>3. ASSUME NEW p \in Pollers, PollProgress(p)
      PROVE  PollInv'
  BY <1>3, ReadStateStep, CursorExpiredStep, ListHistoryStep, TakeCursorStep, ListSinceStep,
     FetchStep, StoreStep, FinishPollStep DEF PollProgress
<1>4. ASSUME NEW p \in Pollers, TakeLease(p) \/ \E lease \in {FALSE, leased} : AbandonPoll(p, lease)
      PROVE  PollInv'
  BY <1>4, TakeLeaseStep, AbandonPollStep
<1> QED
  BY <1>1, <1>2, <1>3, <1>4 DEF PollNext

LEMMA PollAlways == PollSpec => []PollInv
  BY PollInitInv, PollStep, PTL DEF PollSpec

\* The rows of ea_mailbox_state and ea_message and the locals of poll keep their
\* types; what a poll counts towards its cap is never more than what is stored.
THEOREM PollTypes == PollSpec => []PollTypeOK
<1>1. PollInv => PollTypeOK
  BY DEF PollInv
<1> QED
  BY <1>1, PollAlways, PTL

\* The effects of a message are applied exactly as often as its row is stored: once,
\* however polls overlap, crash and read again.
THEOREM MailAppliedOnce == PollSpec => []AppliedOnce
<1>1. PollInv => AppliedOnce
  BY DEF PollInv
<1> QED
  BY <1>1, PollAlways, PTL

\* The cursor passes no message but one that is stored, gone from the mailbox, or
\* left behind by a listing, whichever poll writes it last.
THEOREM CursorPassesHandled == PollSpec => []CursorCovers
<1>1. PollInv => CursorCovers
  BY DEF PollInv
<1> QED
  BY <1>1, PollAlways, PTL
=============================================================================

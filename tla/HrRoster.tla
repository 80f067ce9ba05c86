------------------------------- MODULE HrRoster -------------------------------
(***************************************************************************)
(* The roster of KadeHub Staff (hr-time.service.ts): shifts are put on it  *)
(* one by one or in bulk, colleagues swap or trade them with a manager's   *)
(* approval, and approved leave takes people off it.                       *)
(*                                                                         *)
(* A request reads and checks first and writes in later statements.  The   *)
(* database keeps one shift per person and day, deletes the swaps of a     *)
(* shift with it, and empties target_entry_id when that shift goes.        *)
(* Everybody is active and all days are still to come.                     *)
(***************************************************************************)
EXTENDS Naturals, FiniteSets, FiniteSetsExt

CONSTANTS
  Colleagues,
  RosterDays,    \* days, as numbers
  Shifts,        \* ids of hr_roster_entry rows that may be made
  Swaps,         \* ids of hr_shift_swap rows that may be made
  Leaves,        \* leave requests that may be made
  LeaveBy,       \* their employee_id
  Off,           \* the days they cover
  HalfDay,       \* those for half a day
  Entitled,      \* days_per_year of the leave type, in half days
  NoShift,       \* target_entry_id IS NULL: the shift is given away
  Desks,         \* requests in flight at one time
  MaxFills,      \* bound: requests that put shifts on the roster
  MaxFiled       \* bound: other requests

ASSUME RosterAssumption ==
  /\ RosterDays \subseteq Nat \ {0}
  /\ LeaveBy \in [Leaves -> Colleagues] /\ Off \in [Leaves -> SUBSET RosterDays]
  /\ HalfDay \subseteq Leaves /\ Entitled \in Nat
  /\ IsFiniteSet(Leaves) /\ \A l \in Leaves : IsFiniteSet(Off[l])
  /\ NoShift \notin Shifts
  /\ {MaxFills, MaxFiled} \subseteq Nat

VARIABLES
  shift,     \* hr_roster_entry: who works when
  swap,      \* hr_shift_swap; trade: it was asked for as a trade
  leave,     \* hr_leave_request.status, "none" when there is no such row
  desk,      \* the locals of each request
  filed,     \* [fills, others], for the bounds
  crossed,   \* history: what two requests were at work on at a time, or one left
             \* half done: the roster, the leave or the swaps
  traded,    \* history: shifts that came to somebody in return for another
  stale      \* history: swaps one of whose shifts changed hands, or went, while
             \* they were open

rosterVars == <<shift, swap, leave, desk, filed, crossed, traded, stale>>

NoEntry == [day |-> 0]
NoSwap == [status |-> "none"]
Clear == [pc |-> "idle"]
Undecided == {"pending_colleague", "pending_manager"}

RosterInit ==
  /\ shift = [i \in Shifts |-> NoEntry]
  /\ swap = [s \in Swaps |-> NoSwap]
  /\ leave = [l \in Leaves |-> "none"]
  /\ desk = [c \in Desks |-> Clear]
  /\ filed = [fills |-> 0, others |-> 0]
  /\ crossed = {} /\ traded = {} /\ stale = {}

-----------------------------------------------------------------------------
(* Lookups, and requests in general.                                       *)

Rostered(u, d) == {i \in Shifts : shift[i] = [day |-> d, who |-> u]}
OnLeave(u, d) ==
  \E l \in Leaves : leave[l] = "approved" /\ LeaveBy[l] = u /\ d \in Off[l]
OpenSwaps == {s \in Swaps : swap[s].status \in Undecided}
Names(s, i) == i \in {swap[s].entry, swap[s].back}

\* What a request is at work on.
WorksOn(locals) ==
  CASE locals.pc = "fill" -> {"roster"}
    [] locals.pc \in {"ask", "answer"} -> {"swaps"}
    [] locals.pc = "apply" -> {"roster", "swaps"}
    [] locals.pc = "leave" -> IF locals.status = "approved" THEN {"roster", "leave"} ELSE {"leave"}
    [] locals.pc = "off" -> {"roster", "leave"}
    [] OTHER -> {}
Crossed(locals) == UNION {WorksOn(desk[d]) \cap WorksOn(locals) : d \in Desks}

File(c, locals, kind) ==
  /\ desk[c] = Clear
  /\ filed[kind] < IF kind = "fills" THEN MaxFills ELSE MaxFiled
  /\ filed' = [filed EXCEPT ![kind] = @ + 1]
  /\ desk' = [desk EXCEPT ![c] = locals]
  /\ crossed' = crossed \union Crossed(locals)
  /\ UNCHANGED <<shift, swap, leave, traded, stale>>

Clears(c) == desk' = [desk EXCEPT ![c] = Clear]

\* A query throws, or the process dies: approved leave may leave its shifts, and a
\* swap that was applied be open still.
LeaveDesk(c) ==
  /\ desk[c] # Clear /\ Clears(c)
  /\ crossed' = crossed \union (CASE desk[c].pc = "off" -> {"roster"}
                                  [] desk[c].pc = "answer" -> {"swaps"}
                                  [] OTHER -> {})
  /\ UNCHANGED <<shift, swap, leave, filed, traded, stale>>

\* Rows of the roster are saved or deleted; the database sees to the swaps.
OneEach(rows) ==
  \A i, j \in Shifts : rows[i] = rows[j] /\ rows[i] # NoEntry => i = j

SetShifts(rows) ==
  LET gone == {i \in Shifts : shift[i] # NoEntry /\ rows[i] = NoEntry}
      moved == {i \in Shifts : shift[i] # rows[i]}
  IN /\ shift' = rows
     /\ swap' = [s \in Swaps |->
                   IF swap[s] = NoSwap \/ swap[s].entry \in gone THEN NoSwap
                   ELSE IF swap[s].back \in gone THEN [swap[s] EXCEPT !.back = NoShift]
                   ELSE swap[s]]
     /\ stale' = stale \union {s \in OpenSwaps : \E i \in moved : Names(s, i)}

-----------------------------------------------------------------------------
(* saveEntry, bulkFill, copyWeek and deleteEntry.                          *)

\* Mutant of Workable: leave is not looked at.
WorkableAll(cells) == cells

Workable(cells) == {n \in cells : ~OnLeave(n[1], n[2])}

\* The leave and the shifts there are, for all the days, and then the saves.
BeginFill(c, cells) ==
  File(c, [pc |-> "fill", todo |-> {<<n, Rostered(n[1], n[2])>> : n \in Workable(cells)}], "fills")

\* A request in flight has the id of a shift, which may be gone: no other shift gets it.
Mentioned(i) ==
  \E d \in Desks :
    \/ desk[d].pc \in {"ask", "apply"} /\ i \in {desk[d].row.entry, desk[d].row.back}
    \/ desk[d].pc = "fill" /\ \E cell \in desk[d].todo : i \in cell[2]

\* A shift that was read is saved by its id, whatever became of it; a new one gets
\* an id. The second shift of a day is refused by the database.
SaveShift(c) ==
  \E cell \in desk[c].todo :
    LET row == [day |-> cell[1][2], who |-> cell[1][1]]
        unused == {i \in Shifts : shift[i] = NoEntry /\ ~Mentioned(i)}
        saved(i) == [shift EXCEPT ![i] = row]
    IN /\ \E i \in IF cell[2] # {} THEN cell[2] ELSE {j \in unused : \A k \in unused : j <= k} :
            IF OneEach(saved(i))
            THEN SetShifts(saved(i)) /\ desk' = [desk EXCEPT ![c].todo = @ \ {cell}]
            ELSE Clears(c) /\ UNCHANGED <<shift, swap, stale>>
       /\ UNCHANGED <<leave, filed, crossed, traded>>

FillDone(c) ==
  /\ desk[c].todo = {} /\ Clears(c)
  /\ UNCHANGED <<shift, swap, leave, filed, crossed, traded, stale>>

DeleteEntry(i) ==
  /\ shift[i] # NoEntry /\ filed.others < MaxFiled
  /\ filed' = [filed EXCEPT !.others = @ + 1]
  /\ crossed' = crossed \union Crossed([pc |-> "fill"])
  /\ SetShifts([shift EXCEPT ![i] = NoEntry])
  /\ UNCHANGED <<leave, desk, traded>>

-----------------------------------------------------------------------------
(* Swaps.                                                                  *)

\* checkSwap, for giving shift i to u, or trading it for u's shift b.
MaySwap(i, u, b) ==
  LET me == shift[i].who
  IN /\ me # u /\ ~OnLeave(u, shift[i].day)
     /\ b = NoShift => Rostered(u, shift[i].day) = {}
     /\ b # NoShift =>
          /\ shift[b] # NoEntry /\ shift[b].who = u
          /\ shift[b].day # shift[i].day =>
               Rostered(u, shift[i].day) = {} /\ Rostered(me, shift[b].day) = {}

\* createSwap on the kiosk, or by a manager, who then decides it at once.
RequestSwap(c, s, i, u, b, status) ==
  /\ swap[s] = NoSwap /\ shift[i] # NoEntry /\ MaySwap(i, u, b)
  /\ \A o \in OpenSwaps : swap[o].entry # i
  /\ \A d \in Desks : desk[d].pc = "ask" => desk[d].swap # s
  /\ File(c, [pc |-> "ask", swap |-> s,
              row |-> [status |-> status, entry |-> i, from |-> shift[i].who, to |-> u,
                       back |-> b, trade |-> b # NoShift]], "others")

\* A foreign key fails when one of the shifts is gone.
InsertSwap(c) ==
  LET row == desk[c].row
      there == \A i \in {row.entry, row.back} \ {NoShift} : shift[i] # NoEntry
  IN /\ desk[c].pc = "ask" /\ Clears(c)
     /\ swap' = IF there THEN [swap EXCEPT ![desk[c].swap] = row] ELSE swap
     /\ stale' = IF there THEN stale \ {desk[c].swap} ELSE stale
     /\ UNCHANGED <<shift, leave, filed, crossed, traded>>

\* respondSwap, cancelSwap, and decideSwap when it rejects.
AnswerSwap(c, s, status) ==
  /\ swap[s].status \in IF status = "pending_manager" THEN {"pending_colleague"} ELSE Undecided
  /\ File(c, [pc |-> "answer", swap |-> s, status |-> status], "others")

SaveAnswer(c) ==
  LET s == desk[c].swap
  IN /\ desk[c].pc = "answer" /\ Clears(c)
     /\ swap' = IF swap[s] = NoSwap THEN swap ELSE [swap EXCEPT ![s].status = desk[c].status]
     /\ UNCHANGED <<shift, leave, filed, crossed, traded, stale>>

\* decideSwap approves: the shift as it is now, and the target's if there is one.
ApproveSwap(c, s) ==
  LET row == swap[s]
  IN /\ row.status \in Undecided /\ shift[row.entry] # NoEntry
     /\ MaySwap(row.entry, row.to, row.back)
     /\ File(c, [pc |-> "apply", swap |-> s, row |-> row, mine |-> shift[row.entry],
                 theirs |-> IF row.back = NoShift THEN NoEntry ELSE shift[row.back]], "others")

\* Mutant of Swapped: only the first shift changes hands.
SwappedHalf(c) ==
  [shift EXCEPT ![desk[c].row.entry] = [desk[c].mine EXCEPT !.who = desk[c].row.to]]

\* On one day the two trade the hours, and keep their rows.
Swapped(c) ==
  LET row == desk[c].row
      mine == desk[c].mine
      theirs == desk[c].theirs
  IN [i \in Shifts |->
        CASE theirs.day = mine.day /\ i = row.entry -> mine
          [] theirs.day = mine.day /\ i = row.back -> theirs
          [] theirs.day # mine.day /\ i = row.entry -> [mine EXCEPT !.who = row.to]
          [] theirs.day # mine.day /\ i = row.back -> [theirs EXCEPT !.who = row.from]
          [] OTHER -> shift[i]]

ApplySwap(c) ==
  LET row == desk[c].row
      me == desk[c]
  IN /\ me.pc = "apply"
     /\ IF OneEach(Swapped(c))
        THEN /\ SetShifts(Swapped(c))
             /\ desk' = [desk EXCEPT ![c] = [pc |-> "answer", swap |-> me.swap,
                                             status |-> "approved"]]
             /\ traded' = traded \union ({row.back} \ {NoShift})
        ELSE Clears(c) /\ UNCHANGED <<shift, swap, stale, traded>>
     /\ UNCHANGED <<leave, filed, crossed>>

-----------------------------------------------------------------------------
(* Leave.                                                                  *)

HalfDays(l) == IF l \in HalfDay THEN 1 ELSE 2 * Cardinality(Off[l])
Counting(u) == {l \in Leaves : LeaveBy[l] = u /\ leave[l] \in {"pending", "approved"}}
Used(u) == MapThenSumSet(HalfDays, Counting(u))

\* requestLeave: no overlap, and enough is left.
RequestLeave(c, l) ==
  LET u == LeaveBy[l]
  IN /\ leave[l] = "none"
     /\ \A m \in Counting(u) : Off[m] \cap Off[l] = {}
     /\ Used(u) + HalfDays(l) <= Entitled
     /\ File(c, [pc |-> "leave", leave |-> l, status |-> "pending"], "others")

DecideLeave(c, l, status) ==
  /\ leave[l] \in IF status = "cancelled" THEN {"pending", "approved"} ELSE {"pending"}
  /\ File(c, [pc |-> "leave", leave |-> l, status |-> status], "others")

SaveLeave(c) ==
  LET l == desk[c].leave
      status == desk[c].status
  IN /\ desk[c].pc = "leave"
     /\ leave' = [leave EXCEPT ![l] = status]
     /\ IF status = "approved" /\ l \notin HalfDay
        THEN desk' = [desk EXCEPT ![c] = [pc |-> "off", leave |-> l]] ELSE Clears(c)
     /\ UNCHANGED <<shift, swap, filed, crossed, traded, stale>>

Cleared(i) == NoEntry

\* Approving takes the employee off the roster.
OffRoster(c) ==
  LET l == desk[c].leave
  IN /\ desk[c].pc = "off" /\ Clears(c)
     /\ SetShifts([i \in Shifts |->
          IF shift[i] \in [day: Off[l], who: {LeaveBy[l]}] THEN Cleared(i) ELSE shift[i]])
     /\ UNCHANGED <<leave, filed, crossed, traded>>

-----------------------------------------------------------------------------
Ids == Shifts \union {NoShift}

RosterNext ==
  \/ \E c \in Desks :
       \/ \E u \in Colleagues, ds \in SUBSET RosterDays : ds # {} /\ BeginFill(c, {u} \X ds)
       \/ desk[c].pc = "fill" /\ (SaveShift(c) \/ FillDone(c))
       \/ \E s \in Swaps :
            \/ \E i \in Shifts, u \in Colleagues, b \in Ids, status \in Undecided :
                 RequestSwap(c, s, i, u, b, status)
            \/ \E status \in {"pending_manager", "rejected", "cancelled"} :
                 AnswerSwap(c, s, status)
            \/ ApproveSwap(c, s)
       \/ InsertSwap(c) \/ SaveAnswer(c) \/ ApplySwap(c)
       \/ \E l \in Leaves : \/ RequestLeave(c, l)
                            \/ \E status \in {"approved", "rejected", "cancelled"} :
                                 DecideLeave(c, l, status)
       \/ SaveLeave(c) \/ OffRoster(c) \/ LeaveDesk(c)
  \/ \E i \in Shifts : DeleteEntry(i)

RosterSpec == RosterInit /\ [][RosterNext]_rosterVars

-----------------------------------------------------------------------------
(* Properties.                                                             *)

Entry == {NoEntry} \union [day: RosterDays, who: Colleagues]
SwapRow ==
  [status: Undecided \union {"approved", "rejected", "cancelled"}, entry: Shifts, from: Colleagues,
   to: Colleagues, back: Ids, trade: BOOLEAN]

\* The rows of the roster, one for a person and day, the swaps and the leave.
RosterTypeOK ==
  /\ shift \in [Shifts -> Entry] /\ OneEach(shift)
  /\ swap \in [Swaps -> {NoSwap} \union SwapRow]
  /\ leave \in [Leaves -> {"none", "pending", "approved", "rejected", "cancelled"}]
  /\ traded \subseteq Shifts /\ stale \subseteq Swaps

Quietly == \A c \in Desks : "roster" \notin WorksOn(desk[c])

\* Once no request changes the roster, nobody on leave for the day is on a shift.
LeaveBlocks ==
  ("roster" \notin crossed /\ Quietly) =>
    \A l \in Leaves \ HalfDay : leave[l] = "approved" =>
      \A d \in Off[l] : Rostered(LeaveBy[l], d) \subseteq traded

\* Nobody has asked for, or is on, leave twice on a day.
LeaveOnce ==
  "leave" \notin crossed => \A u \in Colleagues :
    \A l, m \in Counting(u) : l # m => Off[l] \cap Off[m] = {}

\* No more days are asked for, or taken, than the year has for one.
LeaveWithinYear == "leave" \notin crossed => \A u \in Colleagues : Used(u) <= Entitled

\* Approved leave blocks the day: somebody on leave for the day is on no shift,
\* whether the shift, a swap or the leave came first; while no two requests change
\* the roster at a time. Only a shift got in return for another may fall on it:
\* decideSwap asks for the leave of one side. And leave asked for and approved,
\* cancelled and asked for again, stays within the year's days, with nobody on
\* leave twice on a day.
LeaveHolds == LeaveBlocks /\ LeaveOnce /\ LeaveWithinYear

\* A shift changes hands only by a swap that is open, neither withdrawn nor refused,
\* and as it was asked for: from its holder to the one asked, and in a trade the
\* other's shift comes back; unless one of the shifts changed hands, or was deleted,
\* while the swap was open. Whether the colleague has said yes is not asked: a
\* manager may approve a request that still waits for the colleague's answer.
AskedFor(i) ==
  \E s \in OpenSwaps :
    \/ s \in stale /\ Names(s, i)
    \/ /\ swap[s].entry = i /\ swap[s].from = shift[i].who /\ swap[s].to = shift'[i].who
       /\ swap[s].trade => shift'[swap[s].back].who = shift[i].who
    \/ /\ swap[s].back = i /\ swap[s].to = shift[i].who /\ swap[s].from = shift'[i].who
       /\ shift'[swap[s].entry].who = shift[i].who
SwappedAsAsked ==
  [][{"roster", "swaps"} \cap crossed' = {} => \A i \in Shifts :
       (shift[i] # NoEntry /\ shift'[i] # NoEntry /\ shift'[i] # shift[i]) => AskedFor(i)]_rosterVars
=============================================================================

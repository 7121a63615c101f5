----------------------------- MODULE LabBooking -----------------------------
(***************************************************************************)
(* The bookings of one lab: src/src/server/labs/service.ts, with the staff *)
(* and settings actions of manage.ts that its decisions read.              *)
(*                                                                         *)
(* A server action first reads the rows it needs and decides what to do,   *)
(* then runs one database transaction; other handlers run in between. Each *)
(* action in progress is a call: its Begin... action is everything up to   *)
(* the transaction, reading `now` once as the code does, and its Commit... *)
(* action is the transaction, with what the reads left in the call record. *)
(* A call the code refuses changes nothing and is not a step.              *)
(*                                                                         *)
(* Names are those of the source. A note is data (a call that needs one is *)
(* made with one), every booking is for one person, and notifications and  *)
(* e-mails, which nothing here reads back, are left out.                   *)
(***************************************************************************)
EXTENDS LabRules, Sequences

CONSTANTS
  Persons,      \* the accounts
  Admins,       \* those with the lab_admin or super_admin console role
  Members,      \* those eligible to book: active, verified, profile finished
  Staffable,    \* those addLabStaff can find: active accounts, verified
  FirstStaff,   \* the lab's staff to begin with, a function on Persons
  BookingIds,   \* the rows lab_bookings may hold (bounds the model)
  Calls,        \* server actions in progress at once (bounds the model)
  Handlers,     \* the server actions in use (all of them, or some, to bound the model)
  Policies,     \* the settings updateLab may choose from
  Timetables,   \* the weekly opening hours setLabHours may choose from
  Closures,     \* the closed periods addBlackout may choose from
  Horizon,      \* the last instant of the model (bounds the clock)
  Nobody,       \* no person
  NoId          \* no booking

Slots == [start : 0 .. Horizon, end : 0 .. Horizon]

NoSlot == Slot(0, 0)

ASSUME LabBookingAssumption ==
  /\ Admins \subseteq Persons /\ Members \subseteq Persons /\ Staffable \subseteq Persons
  /\ Nobody \notin Persons /\ NoId \notin BookingIds
  /\ FirstStaff \in [Persons -> {"none", "head", "assistant"}]
  /\ Policies # {} /\ Timetables # {} /\ Horizon \in Nat

ASSUME LimitAssumption ==
  /\ IsFiniteSet(BookingIds)
  /\ \A policy \in Policies : policy.maxOpenRequests \in Nat /\ policy.maxPerWeek \in Nat

\* What the schemas of updateLab and setLabHours let through.
ASSUME SettingsAssumption ==
  /\ \A policy \in Policies :
       {policy.slotMinutes, policy.maxConsecutiveSlots, policy.capacity} \subseteq Nat \ {0}
  /\ \A windows \in Timetables : \A w \in windows :
       /\ w.opens \in Nat /\ w.closes \in Nat
       /\ w.opens < w.closes /\ w.closes <= DayLength

VARIABLES
  now,          \* the clock
  lab,          \* the labs row: [active, policy]
  hours,        \* lab_hours
  blackouts,    \* lab_blackouts
  staff,        \* lab_staff: each person's role, or "none"
  booking,      \* lab_bookings: [status, user, slot, proposed, assistant]
  attendance,   \* lab_attendance: the outcome recorded for each booking, or "none"
  audit,        \* audit_logs of each booking, oldest first: [by, before, after]
  call          \* the calls in progress

settings == <<lab, hours, blackouts, staff>>
rows == <<booking, attendance, audit>>
vars == <<now, lab, hours, blackouts, staff, booking, attendance, audit, call>>

-----------------------------------------------------------------------------
(* Rows and calls. *)

Roles == {"none", "head", "assistant"}

Booking == [ status    : Statuses \cup {"none"},
             user      : Persons \cup {Nobody},
             slot      : Slots,
             proposed  : Slots,
             assistant : Persons \cup {Nobody} ]

NoBooking == [ status |-> "none", user |-> Nobody, slot |-> NoSlot,
               proposed |-> NoSlot, assistant |-> Nobody ]

AuditRow == [by : Persons, before : Statuses, after : Statuses]

\* "request" has validated its slot, "insert" also holds the row lock on its user;
\* the others have a transaction to run on booking id, read when its status was `from`.
Ops == { "request", "insert", "approve", "reject", "propose", "accept", "decline",
         "cancel", "attended", "no_show" }

Call == [ op : Ops \cup {"idle"}, by : Persons \cup {Nobody}, id : BookingIds \cup {NoId},
          from : Statuses \cup {"none"}, slot : Slots, assistant : Persons \cup {Nobody},
          policy : Policies, at : 0 .. Horizon ]

Idle == [ op |-> "idle", by |-> Nobody, id |-> NoId, from |-> "none", slot |-> NoSlot,
          assistant |-> Nobody, policy |-> CHOOSE p \in Policies : TRUE, at |-> 0 ]

TypeOK ==
  /\ now \in 0 .. Horizon
  /\ lab \in [active : BOOLEAN, policy : Policies]
  /\ hours \in Timetables
  /\ blackouts \subseteq Closures
  /\ staff \in [Persons -> Roles]
  /\ booking \in [BookingIds -> Booking]
  /\ attendance \in [BookingIds -> {"none", "attended", "no_show"}]
  /\ audit \in [BookingIds -> Seq(AuditRow)]
  /\ call \in [Calls -> Call]

Init ==
  /\ now = 0
  /\ lab \in [active : {TRUE}, policy : Policies]
  /\ hours \in Timetables
  /\ blackouts = {}
  /\ staff = FirstStaff
  /\ booking = [b \in BookingIds |-> NoBooking]
  /\ attendance = [b \in BookingIds |-> "none"]
  /\ audit = [b \in BookingIds |-> <<>>]
  /\ call = [c \in Calls |-> Idle]

Live(b) == booking[b].status \in LiveStatuses

\* canManage: an administrator, or a head of the lab.
Manager(p) == p \in Admins \/ staff[p] = "head"

\* canStaff.
StaffMember(p) == p \in Admins \/ staff[p] # "none"

\* problemWithRequest under the current hours and closed dates, for one person.
Fits(policy, s) == Bookable(policy, hours, blackouts, now, s, 1)

\* Fault: the constraint covers decided bookings only.
NoConflict_ApprovedOnly(b, s) ==
  \A other \in BookingIds \ {b} :
    booking[other].status = "approved" => ~Overlaps(booking[other].slot, s)

\* The database's exclusion constraint, for a row b about to hold slot s.
NoConflict(b, s) ==
  \A other \in BookingIds \ {b} : Live(other) => ~Overlaps(booking[other].slot, s)

\* getAvailability: the slots of one date that the lab offers, free or taken.
Availability(date) ==
  IF ~lab.active THEN {}
  ELSE { [slot |-> s, free |-> ~\E b \in BookingIds : Live(b) /\ Overlaps(s, booking[b].slot)]
         : s \in GenerateSlots(lab.policy, hours, blackouts, date, now) }

Start(c, q) ==
  /\ call[c].op = "idle"
  /\ q.op \in Handlers
  /\ call' = [call EXCEPT ![c] = q]
  /\ UNCHANGED <<now, settings, rows>>

Finish(c) == call' = [call EXCEPT ![c] = Idle]

-----------------------------------------------------------------------------
(* requestBooking. *)

BeginRequest(c, p, s) ==
  /\ p \in Members
  /\ lab.active
  /\ Fits(lab.policy, s)
  /\ Start(c, [Idle EXCEPT !.op = "request", !.by = p, !.slot = s, !.policy = lab.policy])

BookingsOf(p, statuses) ==
  { b \in BookingIds : booking[b].user = p /\ booking[b].status \in statuses }

SlotOf == [b \in BookingIds |-> booking[b].slot]

OpenRequests(p) == Cardinality(BookingsOf(p, {"requested", "alternative_proposed"}))

\* The time p has booked in the week of s: what the weekly cap counts.
WeekOf(p, s) ==
  UsedInWeek(BookingsOf(p, LiveStatuses \cup {"completed"}), SlotOf, s)

\* Fault: a session that was attended no longer counts towards the week.
WithinLimits_AttendedForgotten(q) ==
  /\ OpenRequests(q.by) < q.policy.maxOpenRequests
  /\ UsedInWeek(BookingsOf(q.by, LiveStatuses), SlotOf, q.slot) + Duration(q.slot)
       <= q.policy.maxPerWeek

WithinLimits(q) ==
  /\ OpenRequests(q.by) < q.policy.maxOpenRequests
  /\ WeekOf(q.by, q.slot) + Duration(q.slot) <= q.policy.maxPerWeek

\* Fault: the limits are read without the row lock.
UserRowFree_Unlocked(p) == TRUE

UserRowFree(p) == \A d \in Calls : ~(call[d].op = "insert" /\ call[d].by = p)

\* SELECT ... FOR UPDATE of the user's row, then the two counts under the lock.
LockAndCount(c) ==
  /\ call[c].op = "request"
  /\ UserRowFree(call[c].by)
  /\ \/ WithinLimits(call[c]) /\ call' = [call EXCEPT ![c].op = "insert"]
     \/ ~WithinLimits(call[c]) /\ Finish(c)
  /\ UNCHANGED <<now, settings, rows>>

\* The insert the constraint allows, and the commit that releases the lock.
CommitRequest(c) ==
  /\ call[c].op = "insert"
  /\ \E b \in BookingIds :
       /\ booking[b].status = "none"
       /\ NoConflict(b, call[c].slot)
       /\ booking' = [booking EXCEPT ![b] = [NoBooking EXCEPT !.status = "requested",
                                             !.user = call[c].by, !.slot = call[c].slot]]
  /\ Finish(c)
  /\ UNCHANGED <<now, settings, attendance, audit>>

\* Fault: a refused insert is left open, and its transaction keeps the user's row locked.
RefuseRequest_LeftOpen(c) ==
  /\ call[c].op = "insert"
  /\ ~\E b \in BookingIds : booking[b].status = "none" /\ NoConflict(b, call[c].slot)
  /\ UNCHANGED vars

\* The constraint refuses the insert (or the model has no row left): rolled back.
RefuseRequest(c) ==
  /\ call[c].op = "insert"
  /\ ~\E b \in BookingIds : booking[b].status = "none" /\ NoConflict(b, call[c].slot)
  /\ Finish(c)
  /\ UNCHANGED <<now, settings, rows>>

-----------------------------------------------------------------------------
(* The conditional updates that decide, answer, cancel and close a booking. *)

\* Fault: the update names the booking only, not the status that was read.
StillAsRead_Unconditional(q) == booking[q.id].status # "none"

\* The WHERE clause: the booking has the status the call read.
StillAsRead(q) == booking[q.id].status = q.from

\* One transaction: the conditional update to `to` with the fields `row`, and the audit row.
Commit(q, to, row) ==
  /\ StillAsRead(q)
  /\ booking' = [booking EXCEPT ![q.id] = [row EXCEPT !.status = to]]
  /\ audit' = [audit EXCEPT ![q.id] =
                 Append(@, [by |-> q.by, before |-> q.from, after |-> to])]

\* No row matched: someone else moved the booking first.
LoseRace(c) ==
  /\ call[c].id # NoId
  /\ ~StillAsRead(call[c])
  /\ Finish(c)
  /\ UNCHANGED <<now, settings, rows>>

\* An assistant is named when the settings require one, and belongs to the lab's staff.
AssistantOK(policy, p) ==
  /\ policy.requiresAssistant => p # Nobody
  /\ p # Nobody => staff[p] # "none"

Decision(op, a, b) ==
  [Idle EXCEPT !.op = op, !.by = a, !.id = b, !.from = booking[b].status,
               !.policy = lab.policy]

\* decideBooking, "approve". A lab that is switched off is not looked up again, so its
\* closed dates are not consulted.
BeginApprove(c, a, b, p) ==
  /\ Manager(a)
  /\ booking[b].status = "requested"
  /\ booking[b].slot.start > now
  /\ AssistantOK(lab.policy, p)
  /\ lab.active => ~IsBlackedOut(Date(booking[b].slot.start), blackouts)
  /\ Start(c, [Decision("approve", a, b) EXCEPT !.assistant = p])

CommitApprove(c) ==
  /\ call[c].op = "approve"
  /\ Commit(call[c], "approved",
            [booking[call[c].id] EXCEPT !.assistant = call[c].assistant])
  /\ Finish(c)
  /\ UNCHANGED <<now, settings, attendance>>

\* decideBooking, "reject": also of a booking whose proposal is unanswered.
BeginReject(c, a, b) ==
  /\ Manager(a)
  /\ CanTransition(booking[b].status, "rejected")
  /\ Start(c, Decision("reject", a, b))

CommitReject(c) ==
  /\ call[c].op = "reject"
  /\ Commit(call[c], "rejected", booking[call[c].id])
  /\ Finish(c)
  /\ UNCHANGED <<now, settings, attendance>>

\* Fault: like a rejection, a proposal may replace an unanswered proposal.
MayPropose_Again(b) == booking[b].status \in {"requested", "alternative_proposed"}

MayPropose(b) == booking[b].status = "requested"

\* decideBooking, "propose". The proposed time holds nothing.
BeginPropose(c, a, b, s, p) ==
  /\ Manager(a)
  /\ MayPropose(b)
  /\ lab.active
  /\ Fits(lab.policy, s)
  /\ AssistantOK(lab.policy, p)
  /\ Start(c, [Decision("propose", a, b) EXCEPT !.slot = s, !.assistant = p])

CommitPropose(c) ==
  /\ call[c].op = "propose"
  /\ LET q == call[c]
         row == booking[q.id]
     IN  Commit(q, "alternative_proposed",
                [row EXCEPT !.proposed = q.slot,
                            !.assistant = IF q.assistant = Nobody THEN @ ELSE q.assistant])
  /\ Finish(c)
  /\ UNCHANGED <<now, settings, attendance>>

\* Fault: the assistant rule is not applied to an answer.
MayConfirm_NoAssistantRule(b) == TRUE

MayConfirm(b) == lab.policy.requiresAssistant => booking[b].assistant # Nobody

\* respondToProposal, accepting. The notice is not re-checked: the head chose the time.
BeginAccept(c, b) ==
  /\ booking[b].status = "alternative_proposed"
  /\ booking[b].proposed.start > now
  /\ MayConfirm(b)
  /\ lab.active
  /\ Fits([lab.policy EXCEPT !.minLead = 0], booking[b].proposed)
  /\ Start(c, [Decision("accept", booking[b].user, b) EXCEPT !.slot = booking[b].proposed])

\* The booking takes the time that was read before the transaction.
CommitAccept(c) ==
  /\ call[c].op = "accept"
  /\ NoConflict(call[c].id, call[c].slot)
  /\ Commit(call[c], "approved",
            [booking[call[c].id] EXCEPT !.slot = call[c].slot, !.proposed = NoSlot])
  /\ Finish(c)
  /\ UNCHANGED <<now, settings, attendance>>

\* The exclusion constraint refuses the new time: rolled back.
RefuseAccept(c) ==
  /\ call[c].op = "accept"
  /\ StillAsRead(call[c])
  /\ ~NoConflict(call[c].id, call[c].slot)
  /\ Finish(c)
  /\ UNCHANGED <<now, settings, rows>>

\* respondToProposal, declining.
BeginDecline(c, b) ==
  /\ booking[b].status = "alternative_proposed"
  /\ Start(c, Decision("decline", booking[b].user, b))

CommitDecline(c) ==
  /\ call[c].op = "decline"
  /\ Commit(call[c], "cancelled", booking[call[c].id])
  /\ Finish(c)
  /\ UNCHANGED <<now, settings, attendance>>

\* cancelBooking, by the booker (before the cut-off, once approved) or by a manager.
BeginCancel(c, a, b) ==
  /\ CanTransition(booking[b].status, "cancelled")
  /\ a = booking[b].user \/ Manager(a)
  /\ a = booking[b].user /\ booking[b].status = "approved" =>
       booking[b].slot.start - now >= lab.policy.cancelCutoff
  /\ Start(c, [Decision("cancel", a, b) EXCEPT !.at = now])

\* Only a manager's cancellation is audited.
CommitCancel(c) ==
  /\ call[c].op = "cancel"
  /\ LET q == call[c] IN
       \/ /\ q.by # booking[q.id].user
          /\ Commit(q, "cancelled", booking[q.id])
       \/ /\ q.by = booking[q.id].user
          /\ StillAsRead(q)
          /\ booking' = [booking EXCEPT ![q.id].status = "cancelled"]
          /\ UNCHANGED audit
  /\ Finish(c)
  /\ UNCHANGED <<now, settings, attendance>>

\* markAttendance, once the booking has started: an assistant closes own duties only.
BeginMark(c, a, b, outcome) ==
  /\ StaffMember(a)
  /\ Manager(a) \/ booking[b].assistant = a
  /\ booking[b].status = "approved"
  /\ booking[b].slot.start <= now
  /\ Start(c, Decision(outcome, a, b))

\* Fault: the record takes the new status of the booking for the outcome.
CommitMark_StatusAsOutcome(c) ==
  /\ call[c].op \in {"attended", "no_show"}
  /\ LET to == IF call[c].op = "attended" THEN "completed" ELSE "no_show"
     IN  /\ Commit(call[c], to, booking[call[c].id])
         /\ attendance' = [attendance EXCEPT ![call[c].id] = to]
  /\ Finish(c)
  /\ UNCHANGED <<now, settings>>

CommitMark(c) ==
  /\ call[c].op \in {"attended", "no_show"}
  /\ Commit(call[c], IF call[c].op = "attended" THEN "completed" ELSE "no_show",
            booking[call[c].id])
  /\ attendance[call[c].id] = "none"     \* the unique index on the booking
  /\ attendance' = [attendance EXCEPT ![call[c].id] = call[c].op]
  /\ Finish(c)
  /\ UNCHANGED <<now, settings>>

-----------------------------------------------------------------------------
(* manage.ts: the settings the decisions read. Each is one short action.   *)

\* updateLab: only an administrator opens or closes the lab.
UpdateLab(a, policy, active) ==
  /\ Manager(a)
  /\ active # lab.active => a \in Admins
  /\ lab' = [active |-> active, policy |-> policy]
  /\ UNCHANGED <<now, hours, blackouts, staff, rows, call>>

\* setLabHours: bookings already made are not touched.
SetLabHours(a, windows) ==
  /\ Manager(a)
  /\ hours' = windows
  /\ UNCHANGED <<now, lab, blackouts, staff, rows, call>>

\* addBlackout and removeBlackout: bookings already made are not touched.
AddBlackout(a, period) ==
  /\ Manager(a)
  /\ blackouts' = blackouts \cup {period}
  /\ UNCHANGED <<now, lab, hours, staff, rows, call>>

RemoveBlackout(a, period) ==
  /\ Manager(a)
  /\ period \in blackouts
  /\ blackouts' = blackouts \ {period}
  /\ UNCHANGED <<now, lab, hours, staff, rows, call>>

\* addLabStaff: appoints, or changes a role; only an administrator appoints a head.
AddLabStaff(a, p, role) ==
  /\ Manager(a)
  /\ role = "head" => a \in Admins
  /\ p \in Staffable
  /\ staff[p] # role
  /\ staff' = [staff EXCEPT ![p] = role]
  /\ UNCHANGED <<now, lab, hours, blackouts, rows, call>>

\* removeLabStaff: the person stays assigned to the bookings already given.
RemoveLabStaff(a, p) ==
  /\ Manager(a)
  /\ staff[p] # "none"
  /\ staff[p] = "head" => a \in Admins
  /\ staff' = [staff EXCEPT ![p] = "none"]
  /\ UNCHANGED <<now, lab, hours, blackouts, rows, call>>

-----------------------------------------------------------------------------
(* The environment. *)

Tick ==
  /\ now < Horizon
  /\ now' = now + 1
  /\ UNCHANGED <<settings, rows, call>>

\* The server process dies, or the connection does: the call's transaction never commits.
Crash(c) ==
  /\ call[c].op # "idle"
  /\ Finish(c)
  /\ UNCHANGED <<now, settings, rows>>

-----------------------------------------------------------------------------
Begin(c) ==
  \/ \E p \in Members, s \in Slots : BeginRequest(c, p, s)
  \/ \E b \in BookingIds :
       \/ BeginAccept(c, b)
       \/ BeginDecline(c, b)
       \/ \E a \in Persons :
            \/ \E p \in Persons \cup {Nobody} : BeginApprove(c, a, b, p)
            \/ \E p \in Persons \cup {Nobody}, s \in Slots : BeginPropose(c, a, b, s, p)
            \/ BeginReject(c, a, b)
            \/ BeginCancel(c, a, b)
            \/ \E outcome \in {"attended", "no_show"} : BeginMark(c, a, b, outcome)

End(c) ==
  \/ CommitRequest(c) \/ RefuseRequest(c)
  \/ CommitApprove(c) \/ CommitReject(c) \/ CommitPropose(c)
  \/ CommitAccept(c) \/ RefuseAccept(c) \/ CommitDecline(c)
  \/ CommitCancel(c) \/ CommitMark(c) \/ LoseRace(c)

Manage ==
  \E a \in Persons :
    \/ \E policy \in Policies, active \in BOOLEAN : UpdateLab(a, policy, active)
    \/ \E windows \in Timetables : SetLabHours(a, windows)
    \/ \E period \in Closures : AddBlackout(a, period) \/ RemoveBlackout(a, period)
    \/ \E p \in Persons :
         \/ \E role \in {"head", "assistant"} : AddLabStaff(a, p, role)
         \/ RemoveLabStaff(a, p)

Next ==
  \/ \E c \in Calls : Begin(c) \/ LockAndCount(c) \/ End(c) \/ Crash(c)
  \/ Manage
  \/ Tick

Spec == Init /\ [][Next]_vars

\* The server runs every call it has started to its end. PostgreSQL queues the waiters of a
\* row lock, so a call is not passed over for ever: strong fairness.
Fairness == \A c \in Calls : WF_vars(End(c)) /\ SF_vars(LockAndCount(c))

FairSpec == Spec /\ Fairness

-----------------------------------------------------------------------------
(* Safety. *)

\* Two live bookings never share time, however requests, decisions and accepted proposals
\* interleave: service.ts relies on the exclusion constraint for every write that makes a
\* booking live or moves a live one.
NoDoubleBooking ==
  \A a, b \in BookingIds :
    a # b /\ Live(a) /\ Live(b) => ~Overlaps(booking[a].slot, booking[b].slot)

\* A person never holds more undecided requests than the largest limit the lab has had, even
\* with several tabs open: requestBooking counts and inserts under the lock of the user's row.
OpenRequestLimit ==
  \A p \in Members :
    \E policy \in Policies : OpenRequests(p) <= policy.maxOpenRequests

\* The bookings of p that took the time of an accepted proposal.
Rebooked(p) ==
  { b \in BookingIds : booking[b].user = p /\
      \E i \in 1 .. Len(audit[b]) :
        audit[b][i].before = "alternative_proposed" /\ audit[b][i].after = "approved" }

\* A person who has accepted no proposal never has more time booked or attended in one week
\* than the largest cap the lab has had: requestBooking sums the week under the row lock.
WeeklyCap ==
  \A p \in Members : Rebooked(p) = {} =>
    \A b \in BookingsOf(p, LiveStatuses \cup {"completed"}) :
      \E policy \in Policies : WeekOf(p, booking[b].slot) <= policy.maxPerWeek

\* A booking is completed or a no-show exactly when that outcome is on record: markAttendance
\* closes the booking and records the outcome in one transaction, once.
OutcomeRecorded ==
  \A b \in BookingIds :
    /\ booking[b].status = "completed" <=> attendance[b] = "attended"
    /\ booking[b].status = "no_show" <=> attendance[b] = "no_show"

\* The audit trail of a booking is one unbroken account: each row starts where the one before
\* ended, and the last ends where the booking is, save that the booker's own cancellation
\* leaves no row. A decision made on a status someone else has changed since would break it.
AuditTrail ==
  \A b \in BookingIds :
    LET trail == audit[b]
        is == booking[b].status
    IN  /\ trail = <<>> => is \in {"none", "requested", "cancelled"}
        /\ trail # <<>> =>
             /\ trail[1].before = "requested"
             /\ is \in {trail[Len(trail)].after, "cancelled"}
        /\ \A i \in 1 .. Len(trail) - 1 : trail[i].after = trail[i + 1].before

\* A request for s made now would be taken.
Taken(s) == Fits(lab.policy, s) /\ NoConflict(NoId, s)

Offered(s) == [slot |-> s, free |-> TRUE] \in Availability(Date(s.start))

OneBlock(s) == Duration(s) = Minutes(lab.policy.slotMinutes)

\* The calendar tells the truth: among the slots of one block that start on a whole minute, those shown
\* free are exactly those that a request made at that moment would get. generateSlots enumerates the
\* blocks and problemWithRequest judges them, each in its own way. The seconds of a start are dropped
\* before it is judged, so a request may also get a slot that the calendar never shows, but only one that
\* starts within the minute in which a block of that day's hours starts.
CalendarHonest ==
  lab.active =>
    \A s \in Slots : OneBlock(s) =>
      /\ Offered(s) => Taken(s)
      /\ Taken(s) /\ s.start % MinuteLength = 0 => Offered(s)
      /\ Taken(s) => \E block \in Blocks(lab.policy, hours, Date(s.start)) :
                       block.start <= s.start /\ s.start < block.start + MinuteLength

-----------------------------------------------------------------------------
(* Action properties. *)

\* The call c ends in this step, as the one that changes booking b.
DoneBy(c, b) == call[c].id = b /\ call[c].op # "idle" /\ call'[c].op = "idle"

\* A proposal that is accepted gives the booking the time proposed at that moment, although
\* respondToProposal writes the time it read before its transaction.
AcceptedTimeIsProposed ==
  [][ \A b \in BookingIds :
        booking[b].status = "alternative_proposed" /\ booking'[b].status = "approved" =>
          booking'[b].slot = booking[b].proposed ]_vars

\* A booker takes back an approved booking only if the call began before the lab's cut-off,
\* even when the approval came while the call was in progress.
CutoffKept ==
  [][ \A b \in BookingIds :
        booking[b].status = "approved" /\ booking'[b].status = "cancelled" =>
          \E c \in Calls :
            /\ DoneBy(c, b)
            /\ call[c].by = booking[b].user =>
                 booking[b].slot.start - call[c].at >= call[c].policy.cancelCutoff ]_vars

\* A booking becomes approved, by a decision or by an answer, only with an assistant named if
\* the settings that call read require one, although settings and proposals change meanwhile.
AssistantNamed ==
  [][ \A b \in BookingIds :
        booking[b].status # "approved" /\ booking'[b].status = "approved" =>
          \E c \in Calls :
            /\ DoneBy(c, b)
            /\ call[c].policy.requiresAssistant => booking'[b].assistant # Nobody ]_vars

\* Lab booking implements the ledger: no interleaving of its handlers makes a move that is not
\* in the table, moves a slot other than by accepting a proposal, or records an outcome alone.
Ledger == INSTANCE BookingLedger WITH
            status <- [b \in BookingIds |-> booking[b].status],
            slot <- [b \in BookingIds |-> booking[b].slot]

ImplementsLedger == Ledger!LedgerSpec

-----------------------------------------------------------------------------
(* Liveness. *)

\* Every server action that has begun ends: no call waits for a row lock for ever.
CallsEnd == \A c \in Calls : call[c].op # "idle" ~> call[c].op = "idle"

=============================================================================

-------------------------- MODULE LabBookingProofs --------------------------
(***************************************************************************)
(* Proofs about LabBooking, for all values of its constants.               *)
(***************************************************************************)
EXTENDS LabBooking, FiniteSetTheorems, TLAPS

\* The status a transaction's call has read, for each handler that updates a booking.
ReadStatus ==
  [ approve  |-> {"requested"},
    propose  |-> {"requested"},
    reject   |-> {"requested", "alternative_proposed"},
    accept   |-> {"alternative_proposed"},
    decline  |-> {"alternative_proposed"},
    cancel   |-> {"requested", "alternative_proposed", "approved"},
    attended |-> {"approved"},
    no_show  |-> {"approved"} ]

Updates == { "approve", "propose", "reject", "accept", "decline", "cancel", "attended",
             "no_show" }

\* What a call knows: who makes it, and that the status it read allows the move it makes.
CallsKnow ==
  \A c \in Calls :
    /\ call[c].op \in {"request", "insert"} => call[c].by \in Members
    /\ call[c].op \in Updates =>
         /\ call[c].by \in Persons
         /\ call[c].id \in BookingIds
         /\ call[c].from \in ReadStatus[call[c].op]

\* A row that exists was made by somebody.
RowsOwned ==
  \A b \in BookingIds : booking[b].status # "none" => booking[b].user \in Persons

TypeInv == TypeOK /\ CallsKnow /\ RowsOwned

-----------------------------------------------------------------------------
(* Types of the parts. *)

USE LabBookingAssumption

LEMMA NoSlotType == NoSlot \in Slots
  BY DEF NoSlot, Slots, Slot

LEMMA IdleType == Idle \in Call
<1>1. (CHOOSE p \in Policies : TRUE) \in Policies
  OBVIOUS
<1> QED
  BY <1>1, NoSlotType DEF Idle, Call, Ops

LEMMA NoBookingType == NoBooking \in Booking
  BY NoSlotType DEF NoBooking, Booking

\* A call that starts with a well-formed record, and knows what its handler read.
LEMMA StartStep ==
  ASSUME TypeInv, NEW c \in Calls, NEW q \in Call, Start(c, q),
         q.op \in {"request"} \cup Updates,
         q.op = "request" => q.by \in Members,
         q.op \in Updates => q.by \in Persons /\ q.id \in BookingIds /\ q.from \in ReadStatus[q.op]
  PROVE  TypeInv'
<1>1. TypeOK'
  BY DEF TypeInv, TypeOK, Start, settings, rows
<1>2. CallsKnow'
  BY DEF TypeInv, TypeOK, CallsKnow, Start, Updates
<1>3. RowsOwned'
  BY DEF TypeInv, RowsOwned, Start, rows
<1> QED
  BY <1>1, <1>2, <1>3 DEF TypeInv

\* A call that ends leaves the calls well-formed.
LEMMA FinishStep ==
  ASSUME TypeInv, NEW c \in Calls, Finish(c)
  PROVE  call' \in [Calls -> Call] /\ CallsKnow'
<1>1. call' \in [Calls -> Call]
  BY IdleType DEF TypeInv, TypeOK, Finish
<1>2. CallsKnow'
  BY DEF TypeInv, TypeOK, CallsKnow, Finish, Idle, Updates
<1> QED
  BY <1>1, <1>2

\* The transaction of a call writes well-formed rows.
LEMMA CommitStep ==
  ASSUME TypeInv, NEW c \in Calls, call[c].op \in Updates,
         NEW to \in Statuses, NEW row \in Booking, Commit(call[c], to, row),
         row.user = booking[call[c].id].user
  PROVE  /\ booking' \in [BookingIds -> Booking]
         /\ audit' \in [BookingIds -> Seq(AuditRow)]
         /\ RowsOwned'
<1> DEFINE q == call[c]
<1>1. q.id \in BookingIds /\ q.by \in Persons /\ q.from \in ReadStatus[q.op]
  BY DEF TypeInv, CallsKnow
<1>2. q.from \in Statuses
  BY <1>1 DEF ReadStatus, Updates, Statuses
<1>3. booking[q.id].status = q.from /\ booking[q.id].user \in Persons
  BY <1>1, <1>2 DEF Commit, StillAsRead, TypeInv, RowsOwned, Statuses
<1>4. [row EXCEPT !.status = to] \in Booking
  BY DEF Booking
<1>5. booking' \in [BookingIds -> Booking]
  BY <1>1, <1>4 DEF TypeInv, TypeOK, Commit
<1>6. [by |-> q.by, before |-> q.from, after |-> to] \in AuditRow
  BY <1>1, <1>2 DEF AuditRow
<1>7. audit' \in [BookingIds -> Seq(AuditRow)]
  BY <1>1, <1>6 DEF TypeInv, TypeOK, Commit
<1>8. RowsOwned'
  BY <1>1, <1>3 DEF TypeInv, TypeOK, RowsOwned, Commit, Booking
<1> QED
  BY <1>5, <1>7, <1>8
-----------------------------------------------------------------------------
(* Type correctness. *)

\* The record of a call that is to decide, answer, cancel or close booking b.
LEMMA DecisionType ==
  ASSUME TypeInv, NEW op \in Ops, NEW a \in Persons, NEW b \in BookingIds
  PROVE  /\ Decision(op, a, b) \in Call
         /\ Decision(op, a, b).op = op
         /\ Decision(op, a, b).by = a
         /\ Decision(op, a, b).id = b
         /\ Decision(op, a, b).from = booking[b].status
<1>1. booking[b].status \in Statuses \cup {"none"} /\ lab.policy \in Policies
  BY DEF TypeInv, TypeOK, Booking
<1> QED
  BY <1>1, IdleType DEF Decision, Call, Idle

LEMMA BeginType ==
  ASSUME TypeInv, NEW c \in Calls, Begin(c)
  PROVE  TypeInv'
<1>0. /\ lab.policy \in Policies
      /\ now \in 0 .. Horizon
      /\ \A b \in BookingIds : booking[b] \in Booking
  BY DEF TypeInv, TypeOK
<1>1. ASSUME NEW p \in Members, NEW s \in Slots, BeginRequest(c, p, s)
      PROVE  TypeInv'
  <2> DEFINE q == [Idle EXCEPT !.op = "request", !.by = p, !.slot = s, !.policy = lab.policy]
  <2>1. q \in Call /\ q.op = "request" /\ q.by = p
    BY <1>0, IdleType DEF Call, Ops, Idle
  <2>2. Start(c, q)
    BY <1>1 DEF BeginRequest
  <2> HIDE DEF q
  <2> QED
    BY <2>1, <2>2, StartStep DEF Updates
<1>2. ASSUME NEW b \in BookingIds, BeginAccept(c, b)
      PROVE  TypeInv'
  <2> DEFINE d == Decision("accept", booking[b].user, b)
             q == [d EXCEPT !.slot = booking[b].proposed]
  <2>1. booking[b].user \in Persons /\ booking[b].proposed \in Slots
    BY <1>0, <1>2 DEF BeginAccept, TypeInv, RowsOwned, Booking
  <2>2. d \in Call /\ d.op = "accept" /\ d.by \in Persons /\ d.id = b
          /\ d.from = "alternative_proposed"
    BY <1>2, <2>1, DecisionType DEF BeginAccept, Ops
  <2>3. q \in Call /\ q.op = "accept" /\ q.by \in Persons /\ q.id = b
          /\ q.from = "alternative_proposed"
    BY <2>1, <2>2 DEF Call
  <2>4. Start(c, q)
    BY <1>2 DEF BeginAccept
  <2> HIDE DEF q
  <2> QED
    BY <2>3, <2>4, StartStep DEF Updates, ReadStatus
<1>3. ASSUME NEW b \in BookingIds, BeginDecline(c, b)
      PROVE  TypeInv'
  <2> DEFINE d == Decision("decline", booking[b].user, b)
  <2>1. booking[b].user \in Persons
    BY <1>3 DEF BeginDecline, TypeInv, RowsOwned
  <2>2. d \in Call /\ d.op = "decline" /\ d.by \in Persons /\ d.id = b
          /\ d.from = "alternative_proposed"
    BY <1>3, <2>1, DecisionType DEF BeginDecline, Ops
  <2> QED
    BY <1>3, <2>2, StartStep DEF BeginDecline, Updates, ReadStatus
<1>4. ASSUME NEW b \in BookingIds, NEW a \in Persons, NEW p \in Persons \cup {Nobody},
             BeginApprove(c, a, b, p)
      PROVE  TypeInv'
  <2> DEFINE d == Decision("approve", a, b)
             q == [d EXCEPT !.assistant = p]
  <2>1. d \in Call /\ d.op = "approve" /\ d.by \in Persons /\ d.id = b /\ d.from = "requested"
    BY <1>4, DecisionType DEF BeginApprove, Ops
  <2>2. q \in Call /\ q.op = "approve" /\ q.by \in Persons /\ q.id = b /\ q.from = "requested"
    BY <2>1 DEF Call
  <2>3. Start(c, q)
    BY <1>4 DEF BeginApprove
  <2> HIDE DEF q
  <2> QED
    BY <2>2, <2>3, StartStep DEF Updates, ReadStatus
<1>5. ASSUME NEW b \in BookingIds, NEW a \in Persons, NEW p \in Persons \cup {Nobody},
             NEW s \in Slots, BeginPropose(c, a, b, s, p)
      PROVE  TypeInv'
  <2> DEFINE d == Decision("propose", a, b)
             q == [d EXCEPT !.slot = s, !.assistant = p]
  <2>1. d \in Call /\ d.op = "propose" /\ d.by \in Persons /\ d.id = b /\ d.from = "requested"
    BY <1>5, DecisionType DEF BeginPropose, MayPropose, Ops
  <2>2. q \in Call /\ q.op = "propose" /\ q.by \in Persons /\ q.id = b /\ q.from = "requested"
    BY <2>1 DEF Call
  <2>3. Start(c, q)
    BY <1>5 DEF BeginPropose
  <2> HIDE DEF q
  <2> QED
    BY <2>2, <2>3, StartStep DEF Updates, ReadStatus
<1>6. ASSUME NEW b \in BookingIds, NEW a \in Persons, BeginReject(c, a, b)
      PROVE  TypeInv'
  <2> DEFINE d == Decision("reject", a, b)
  <2>1. booking[b].status \in {"requested", "alternative_proposed"}
    BY <1>6 DEF BeginReject, CanTransition, BookingTransitions, Statuses
  <2>2. d \in Call /\ d.op = "reject" /\ d.by \in Persons /\ d.id = b
          /\ d.from = booking[b].status
    BY DecisionType DEF Ops
  <2> QED
    BY <1>6, <2>1, <2>2, StartStep DEF BeginReject, Updates, ReadStatus
<1>7. ASSUME NEW b \in BookingIds, NEW a \in Persons, BeginCancel(c, a, b)
      PROVE  TypeInv'
  <2> DEFINE d == Decision("cancel", a, b)
             q == [d EXCEPT !.at = now]
  <2>1. booking[b].status \in {"requested", "alternative_proposed", "approved"}
    BY <1>7 DEF BeginCancel, CanTransition, BookingTransitions, Statuses
  <2>2. d \in Call /\ d.op = "cancel" /\ d.by \in Persons /\ d.id = b
          /\ d.from = booking[b].status
    BY DecisionType DEF Ops
  <2>3. q \in Call /\ q.op = "cancel" /\ q.by \in Persons /\ q.id = b
          /\ q.from = booking[b].status
    BY <1>0, <2>2 DEF Call
  <2>4. Start(c, q)
    BY <1>7 DEF BeginCancel
  <2> HIDE DEF q
  <2> QED
    BY <2>1, <2>3, <2>4, StartStep DEF Updates, ReadStatus
<1>8. ASSUME NEW b \in BookingIds, NEW a \in Persons, NEW outcome \in {"attended", "no_show"},
             BeginMark(c, a, b, outcome)
      PROVE  TypeInv'
  <2> DEFINE d == Decision(outcome, a, b)
  <2>1. d \in Call /\ d.op = outcome /\ d.by \in Persons /\ d.id = b /\ d.from = "approved"
    BY <1>8, DecisionType DEF BeginMark, Ops
  <2> QED
    BY <1>8, <2>1, StartStep DEF BeginMark, Updates, ReadStatus
<1> QED
  BY <1>1, <1>2, <1>3, <1>4, <1>5, <1>6, <1>7, <1>8 DEF Begin

\* A transaction that is rolled back, or whose update matches no row, writes nothing.
LEMMA NoWriteType ==
  ASSUME TypeInv, NEW c \in Calls, Finish(c), UNCHANGED <<now, settings, rows>>
  PROVE  TypeInv'
<1>1. TypeOK'
  BY FinishStep DEF TypeInv, TypeOK, settings, rows
<1>2. RowsOwned'
  BY DEF TypeInv, RowsOwned, rows
<1> QED
  BY <1>1, <1>2, FinishStep DEF TypeInv

\* A transaction that updates its booking and leaves the attendance record alone.
LEMMA WriteType ==
  ASSUME TypeInv, NEW c \in Calls, call[c].op \in Updates,
         NEW to \in Statuses, NEW row \in Booking, Commit(call[c], to, row),
         row.user = booking[call[c].id].user,
         Finish(c), UNCHANGED <<now, settings>>,
         attendance' \in [BookingIds -> {"none", "attended", "no_show"}]
  PROVE  TypeInv'
<1>1. TypeOK'
  BY FinishStep, CommitStep DEF TypeInv, TypeOK, settings
<1> QED
  BY <1>1, FinishStep, CommitStep DEF TypeInv

LEMMA LockType ==
  ASSUME TypeInv, NEW c \in Calls, LockAndCount(c)
  PROVE  TypeInv'
<1>1. CASE Finish(c)
  BY <1>1, NoWriteType DEF LockAndCount
<1>2. CASE call' = [call EXCEPT ![c].op = "insert"]
  <2>1. call' \in [Calls -> Call]
    <3>0. call[c] \in Call
      BY DEF TypeInv, TypeOK
    <3>1. [call[c] EXCEPT !.op = "insert"] \in Call
      BY <3>0 DEF Call, Ops
    <3> QED
      BY <1>2, <3>1 DEF TypeInv, TypeOK
  <2>2. TypeOK'
    BY <2>1 DEF TypeInv, TypeOK, LockAndCount, settings, rows
  <2>3. CallsKnow'
    BY <1>2 DEF TypeInv, TypeOK, CallsKnow, LockAndCount, Call, Updates
  <2>4. RowsOwned'
    BY DEF TypeInv, RowsOwned, LockAndCount, rows
  <2> QED
    BY <2>2, <2>3, <2>4 DEF TypeInv
<1> QED
  BY <1>1, <1>2 DEF LockAndCount

LEMMA CommitRequestType ==
  ASSUME TypeInv, NEW c \in Calls, CommitRequest(c)
  PROVE  TypeInv'
<1>1. call[c].by \in Persons /\ call[c] \in Call
  BY DEF CommitRequest, TypeInv, TypeOK, CallsKnow
<1> DEFINE row == [NoBooking EXCEPT !.status = "requested",
                                    !.user = call[c].by, !.slot = call[c].slot]
<1>2. row \in Booking /\ row.user \in Persons
  BY <1>1, NoBookingType DEF NoBooking, Booking, Call, Statuses
<1>3. PICK b \in BookingIds : booking' = [booking EXCEPT ![b] = row]
  BY DEF CommitRequest
<1> HIDE DEF row
<1>4. booking' \in [BookingIds -> Booking] /\ RowsOwned'
  BY <1>2, <1>3 DEF TypeInv, TypeOK, RowsOwned
<1>5. TypeOK'
  BY <1>4, FinishStep DEF TypeInv, TypeOK, CommitRequest, settings
<1> QED
  BY <1>4, <1>5, FinishStep DEF TypeInv, CommitRequest

LEMMA EndType ==
  ASSUME TypeInv, NEW c \in Calls, End(c)
  PROVE  TypeInv'
<1> DEFINE q == call[c]
           old == booking[q.id]
<1>1. q \in Call /\ attendance \in [BookingIds -> {"none", "attended", "no_show"}]
  BY DEF TypeInv, TypeOK
<1>2. q.op \in Updates => q.id \in BookingIds /\ old \in Booking
  BY DEF TypeInv, TypeOK, CallsKnow
<1>3. CASE CommitRequest(c)
  BY <1>3, CommitRequestType
<1>4. CASE RefuseRequest(c) \/ RefuseAccept(c) \/ LoseRace(c)
  BY <1>4, NoWriteType DEF RefuseRequest, RefuseAccept, LoseRace
<1>5. CASE CommitApprove(c)
  <2> DEFINE row == [old EXCEPT !.assistant = q.assistant]
  <2>1. row \in Booking /\ row.user = old.user /\ q.op \in Updates
    BY <1>1, <1>2, <1>5 DEF CommitApprove, Updates, Call, Booking
  <2>2. Commit(q, "approved", row)
    BY <1>5 DEF CommitApprove
  <2> HIDE DEF row
  <2> QED
    BY <1>1, <1>5, <2>1, <2>2, WriteType DEF CommitApprove, Statuses
<1>6. CASE CommitReject(c)
  <2>1. old \in Booking /\ q.op \in Updates
    BY <1>2, <1>6 DEF CommitReject, Updates
  <2> QED
    BY <1>1, <1>6, <2>1, WriteType DEF CommitReject, Statuses
<1>7. CASE CommitPropose(c)
  <2> DEFINE row == [old EXCEPT !.proposed = q.slot,
                                !.assistant = IF q.assistant = Nobody THEN @ ELSE q.assistant]
  <2>1. row \in Booking /\ row.user = old.user /\ q.op \in Updates
    BY <1>1, <1>2, <1>7 DEF CommitPropose, Updates, Call, Booking
  <2>2. Commit(q, "alternative_proposed", row)
    BY <1>7 DEF CommitPropose
  <2> HIDE DEF row
  <2> QED
    BY <1>1, <1>7, <2>1, <2>2, WriteType DEF CommitPropose, Statuses
<1>8. CASE CommitAccept(c)
  <2> DEFINE row == [old EXCEPT !.slot = q.slot, !.proposed = NoSlot]
  <2>1. row \in Booking /\ row.user = old.user /\ q.op \in Updates
    BY <1>1, <1>2, <1>8, NoSlotType DEF CommitAccept, Updates, Call, Booking
  <2>2. Commit(q, "approved", row)
    BY <1>8 DEF CommitAccept
  <2> HIDE DEF row
  <2> QED
    BY <1>1, <1>8, <2>1, <2>2, WriteType DEF CommitAccept, Statuses
<1>9. CASE CommitDecline(c)
  <2>1. old \in Booking /\ q.op \in Updates
    BY <1>2, <1>9 DEF CommitDecline, Updates
  <2> QED
    BY <1>1, <1>9, <2>1, WriteType DEF CommitDecline, Statuses
<1>10. CASE CommitCancel(c)
  <2>1. old \in Booking /\ q.op \in Updates /\ Finish(c)
    BY <1>2, <1>10 DEF CommitCancel, Updates
  <2>2. CASE Commit(q, "cancelled", old)
    BY <1>1, <1>10, <2>1, <2>2, WriteType DEF CommitCancel, Statuses
  <2>3. CASE booking' = [booking EXCEPT ![q.id].status = "cancelled"] /\ UNCHANGED audit
    <3>0. booking' = [booking EXCEPT ![q.id] = [old EXCEPT !.status = "cancelled"]]
      BY <2>3
    <3>1. booking' \in [BookingIds -> Booking]
      <4>1. [old EXCEPT !.status = "cancelled"] \in Booking
        BY <2>1 DEF Booking, Statuses
      <4> QED
        BY <3>0, <4>1 DEF TypeInv, TypeOK
    <3>2. old.status # "none"
      BY <1>2, <1>10, <2>1 DEF CommitCancel, StillAsRead, TypeInv, CallsKnow, ReadStatus, Commit
    <3>3. RowsOwned'
      BY <1>2, <2>1, <2>3, <3>2 DEF TypeInv, TypeOK, RowsOwned, Booking
    <3>4. TypeOK'
      BY <1>10, <2>1, <2>3, <3>1, FinishStep DEF TypeInv, TypeOK, CommitCancel, settings
    <3> QED
      BY <2>1, <3>3, <3>4, FinishStep DEF TypeInv
  <2> QED
    BY <1>10, <2>2, <2>3 DEF CommitCancel
<1>11. CASE CommitMark(c)
  <2> DEFINE to == IF q.op = "attended" THEN "completed" ELSE "no_show"
  <2>1. old \in Booking /\ q.op \in Updates /\ to \in Statuses /\ Commit(q, to, old)
    BY <1>2, <1>11 DEF CommitMark, Updates, Statuses
  <2>2. attendance' \in [BookingIds -> {"none", "attended", "no_show"}]
    BY <1>1, <1>11 DEF CommitMark
  <2> HIDE DEF to
  <2> QED
    BY <1>11, <2>1, <2>2, WriteType DEF CommitMark
<1> QED
  BY <1>3, <1>4, <1>5, <1>6, <1>7, <1>8, <1>9, <1>10, <1>11 DEF End

LEMMA ManageType ==
  ASSUME TypeInv, Manage
  PROVE  TypeInv'
<1>1. UNCHANGED <<now, rows, call>>
  BY DEF Manage, UpdateLab, SetLabHours, AddBlackout, RemoveBlackout, AddLabStaff, RemoveLabStaff
<1>2. lab' \in [active : BOOLEAN, policy : Policies]
  BY DEF Manage, UpdateLab, SetLabHours, AddBlackout, RemoveBlackout, AddLabStaff, RemoveLabStaff,
         TypeInv, TypeOK
<1>3. hours' \in Timetables
  BY DEF Manage, UpdateLab, SetLabHours, AddBlackout, RemoveBlackout, AddLabStaff, RemoveLabStaff,
         TypeInv, TypeOK
<1>4. blackouts' \subseteq Closures
  BY DEF Manage, UpdateLab, SetLabHours, AddBlackout, RemoveBlackout, AddLabStaff, RemoveLabStaff,
         TypeInv, TypeOK
<1>5. staff' \in [Persons -> Roles]
  BY DEF Manage, UpdateLab, SetLabHours, AddBlackout, RemoveBlackout, AddLabStaff, RemoveLabStaff,
         TypeInv, TypeOK, Roles
<1>6. TypeOK'
  BY <1>1, <1>2, <1>3, <1>4, <1>5 DEF TypeInv, TypeOK, rows
<1> QED
  BY <1>1, <1>6 DEF TypeInv, CallsKnow, RowsOwned, rows

LEMMA TypeInit == Init => TypeInv
<1> SUFFICES ASSUME Init PROVE TypeInv
  OBVIOUS
<1>1. TypeOK
  <2>0. now \in 0 .. Horizon
    BY DEF Init
  <2>1. lab \in [active : BOOLEAN, policy : Policies]
    <3>1. lab \in [active : {TRUE}, policy : Policies]
      BY DEF Init
    <3> QED
      BY <3>1, Zenon
  <2>2. staff \in [Persons -> Roles] /\ blackouts \subseteq Closures /\ hours \in Timetables
    BY DEF Init, Roles
  <2>3. booking \in [BookingIds -> Booking] /\ call \in [Calls -> Call]
    BY IdleType, NoBookingType DEF Init
  <2>4. attendance \in [BookingIds -> {"none", "attended", "no_show"}]
    BY DEF Init
  <2>5. audit \in [BookingIds -> Seq(AuditRow)]
    BY DEF Init
  <2> QED
    BY <2>0, <2>1, <2>2, <2>3, <2>4, <2>5 DEF TypeOK
<1>2. CallsKnow /\ RowsOwned
  BY DEF Init, CallsKnow, RowsOwned, Idle, NoBooking, Updates
<1> QED
  BY <1>1, <1>2 DEF TypeInv

LEMMA TypeNext ==
  ASSUME TypeInv, [Next]_vars
  PROVE  TypeInv'
<1>1. CASE UNCHANGED vars
  BY <1>1 DEF vars, TypeInv, TypeOK, CallsKnow, RowsOwned
<1>2. ASSUME NEW c \in Calls, Begin(c) PROVE TypeInv'
  BY <1>2, BeginType
<1>3. ASSUME NEW c \in Calls, LockAndCount(c) PROVE TypeInv'
  BY <1>3, LockType
<1>4. ASSUME NEW c \in Calls, End(c) PROVE TypeInv'
  BY <1>4, EndType
<1>5. ASSUME NEW c \in Calls, Crash(c) PROVE TypeInv'
  BY <1>5, NoWriteType DEF Crash
<1>6. CASE Manage
  BY <1>6, ManageType
<1>7. CASE Tick
  <2>1. TypeOK'
    BY <1>7 DEF Tick, TypeInv, TypeOK, settings, rows
  <2> QED
    BY <1>7, <2>1 DEF Tick, TypeInv, CallsKnow, RowsOwned, rows
<1> QED
  BY <1>1, <1>2, <1>3, <1>4, <1>5, <1>6, <1>7 DEF Next

\* Every reachable state has well-typed rows, settings and calls, and each call that is to
\* update a booking has read a status from which its move is allowed.
THEOREM TypeCorrect == Spec => [](TypeOK /\ CallsKnow /\ RowsOwned)
<1>1. Spec => []TypeInv
  BY TypeInit, TypeNext, PTL DEF Spec
<1>2. TypeInv => TypeOK /\ CallsKnow /\ RowsOwned
  BY DEF TypeInv
<1> QED
  BY <1>1, <1>2, PTL

-----------------------------------------------------------------------------
(* Lab booking implements the ledger. *)

\* A step that leaves the rows alone leaves the ledger alone.
LEMMA StutterStep ==
  ASSUME UNCHANGED <<booking, attendance>>
  PROVE  UNCHANGED Ledger!ledger
  BY DEF Ledger!ledger

\* The two spellings of the exclusion constraint agree.
LEMMA FreeIsNoConflict ==
  ASSUME TypeInv, NEW b \in BookingIds, NEW s, NoConflict(b, s)
  PROVE  Ledger!FreeFor(b, s)
  BY DEF TypeInv, TypeOK, NoConflict, Ledger!FreeFor, Live, Ledger!Live, LiveStatuses,
         Ledger!LiveStatuses, Overlaps, Ledger!Overlaps

\* A conditional update from a status read to `to`, which keeps the slot, is a Move.
LEMMA MoveStep ==
  ASSUME TypeInv, NEW c \in Calls, call[c].op \in Updates,
         NEW to \in {"approved", "rejected", "cancelled", "alternative_proposed"},
         \A from \in ReadStatus[call[c].op] : CanTransition(from, to),
         to = "approved" => call[c].op = "approve",
         NEW row \in Booking, row.slot = booking[call[c].id].slot,
         StillAsRead(call[c]),
         booking' = [booking EXCEPT ![call[c].id] = [row EXCEPT !.status = to]],
         UNCHANGED attendance
  PROVE  Ledger!LedgerNext
<1> DEFINE b == call[c].id
           status == [x \in BookingIds |-> booking[x].status]
           slot == [x \in BookingIds |-> booking[x].slot]
<1>1. b \in BookingIds /\ status[b] \in ReadStatus[call[c].op]
  BY DEF TypeInv, CallsKnow, StillAsRead
<1>2. CanTransition(status[b], to) /\ (to = "approved" => status[b] = "requested")
  BY <1>1 DEF ReadStatus
<1>3. \A x \in BookingIds :
        booking'[x] = IF x = b THEN [row EXCEPT !.status = to] ELSE booking[x]
  BY <1>1 DEF TypeInv, TypeOK
<1>4. [x \in BookingIds |-> booking'[x].status] = [status EXCEPT ![b] = to]
  BY <1>1, <1>3 DEF Booking
<1>5. [x \in BookingIds |-> booking'[x].slot] = slot
  BY <1>1, <1>3 DEF Booking
<1>6. Ledger!CanTransition(status[b], to)
  BY <1>2 DEF CanTransition, Ledger!CanTransition, BookingTransitions, Ledger!BookingTransitions,
              Statuses, Ledger!Statuses
<1>7. Ledger!Move(b, to)
  BY <1>1, <1>2, <1>4, <1>5, <1>6 DEF Ledger!Move
<1> QED
  BY <1>1, <1>7 DEF Ledger!LedgerNext, Ledger!Statuses

LEMMA CreateStep ==
  ASSUME TypeInv, NEW c \in Calls, CommitRequest(c)
  PROVE  Ledger!LedgerNext
<1> DEFINE status == [x \in BookingIds |-> booking[x].status]
           slot == [x \in BookingIds |-> booking[x].slot]
<1>1. PICK s \in Slots : s = call[c].slot
  BY DEF TypeInv, TypeOK, Call
<1>2. PICK b \in BookingIds :
        /\ booking[b].status = "none"
        /\ NoConflict(b, s)
        /\ booking' = [booking EXCEPT ![b] = [NoBooking EXCEPT !.status = "requested",
                                                !.user = call[c].by, !.slot = s]]
  BY <1>1 DEF CommitRequest
<1>3. [x \in BookingIds |-> booking'[x].status] = [status EXCEPT ![b] = "requested"]
  BY <1>2 DEF TypeInv, TypeOK, NoBooking
<1>4. [x \in BookingIds |-> booking'[x].slot] = [slot EXCEPT ![b] = s]
  BY <1>2 DEF TypeInv, TypeOK, NoBooking
<1>5. Ledger!Create(b, s)
  BY <1>2, <1>3, <1>4, FreeIsNoConflict DEF Ledger!Create, CommitRequest
<1> QED
  BY <1>1, <1>2, <1>5 DEF Ledger!LedgerNext

LEMMA RebookStep ==
  ASSUME TypeInv, NEW c \in Calls, CommitAccept(c)
  PROVE  Ledger!LedgerNext
<1> DEFINE status == [x \in BookingIds |-> booking[x].status]
           slot == [x \in BookingIds |-> booking[x].slot]
<1>1. PICK s \in Slots : s = call[c].slot
  BY DEF TypeInv, TypeOK, Call
<1>2. PICK b \in BookingIds : b = call[c].id
  BY DEF TypeInv, CallsKnow, CommitAccept, Updates
<1> DEFINE row == [[booking[b] EXCEPT !.slot = s, !.proposed = NoSlot]
                     EXCEPT !.status = "approved"]
<1>3. status[b] = "alternative_proposed" /\ booking[b] \in Booking
  BY <1>2 DEF TypeInv, TypeOK, CallsKnow, CommitAccept, Commit, StillAsRead, Updates, ReadStatus
<1>4. row.status = "approved" /\ row.slot = s
  BY <1>3 DEF Booking
<1>5. booking' = [booking EXCEPT ![b] = row]
  BY <1>1, <1>2 DEF CommitAccept, Commit
<1> HIDE DEF row
<1>6. [x \in BookingIds |-> booking'[x].status] = [status EXCEPT ![b] = "approved"]
  BY <1>4, <1>5 DEF TypeInv, TypeOK
<1>7. [x \in BookingIds |-> booking'[x].slot] = [slot EXCEPT ![b] = s]
  BY <1>4, <1>5 DEF TypeInv, TypeOK
<1>8. Ledger!Rebook(b, s)
  BY <1>1, <1>2, <1>3, <1>6, <1>7, FreeIsNoConflict DEF Ledger!Rebook, CommitAccept
<1> QED
  BY <1>1, <1>2, <1>8 DEF Ledger!LedgerNext

LEMMA CloseStep ==
  ASSUME TypeInv, NEW c \in Calls, CommitMark(c)
  PROVE  Ledger!LedgerNext
<1> DEFINE status == [x \in BookingIds |-> booking[x].status]
           slot == [x \in BookingIds |-> booking[x].slot]
<1>1. PICK outcome \in {"attended", "no_show"} : outcome = call[c].op
  BY DEF CommitMark
<1>2. PICK b \in BookingIds : b = call[c].id
  BY DEF TypeInv, CallsKnow, CommitMark, Updates
<1> DEFINE to == IF outcome = "attended" THEN "completed" ELSE "no_show"
           row == [booking[b] EXCEPT !.status = to]
<1>3. status[b] = "approved" /\ booking[b] \in Booking
  BY <1>2 DEF TypeInv, TypeOK, CallsKnow, CommitMark, Commit, StillAsRead, Updates, ReadStatus
<1>4. row.status = to /\ row.slot = booking[b].slot
  BY <1>3 DEF Booking
<1>5. booking' = [booking EXCEPT ![b] = row]
  BY <1>1, <1>2 DEF CommitMark, Commit
<1> HIDE DEF row
<1>6. [x \in BookingIds |-> booking'[x].status] = [status EXCEPT ![b] = to]
  BY <1>4, <1>5 DEF TypeInv, TypeOK
<1>7. [x \in BookingIds |-> booking'[x].slot] = slot
  BY <1>4, <1>5 DEF TypeInv, TypeOK
<1>8. Ledger!Close(b, outcome)
  BY <1>1, <1>2, <1>3, <1>6, <1>7 DEF Ledger!Close, CommitMark
<1> QED
  BY <1>1, <1>2, <1>8 DEF Ledger!LedgerNext

LEMMA EndStep ==
  ASSUME TypeInv, NEW c \in Calls, End(c)
  PROVE  [Ledger!LedgerNext]_(Ledger!ledger)
<1> DEFINE q == call[c]
           old == booking[q.id]
<1>0. q.op \in Updates => q.id \in BookingIds /\ old \in Booking
  BY DEF TypeInv, TypeOK, CallsKnow
<1>1. CASE CommitRequest(c)
  BY <1>1, CreateStep
<1>2. CASE RefuseRequest(c) \/ RefuseAccept(c) \/ LoseRace(c)
  BY <1>2, StutterStep DEF RefuseRequest, RefuseAccept, LoseRace, rows
<1>3. CASE CommitApprove(c)
  <2> DEFINE row == [old EXCEPT !.assistant = q.assistant]
  <2>1. row \in Booking /\ row.slot = old.slot /\ q.op = "approve"
    <3>1. q.assistant \in Persons \cup {Nobody}
      BY DEF TypeInv, TypeOK, Call
    <3> QED
      BY <1>0, <1>3, <3>1 DEF CommitApprove, Updates, Booking
  <2>2. Commit(q, "approved", row)
    BY <1>3 DEF CommitApprove
  <2>3. \A from \in ReadStatus["approve"] : CanTransition(from, "approved")
    BY DEF ReadStatus, CanTransition, BookingTransitions, Statuses
  <2> HIDE DEF row
  <2> QED
    BY <1>3, <2>1, <2>2, <2>3, MoveStep DEF CommitApprove, Commit, Updates
<1>4. CASE CommitReject(c)
  <2>1. \A from \in ReadStatus["reject"] : CanTransition(from, "rejected")
    BY DEF ReadStatus, CanTransition, BookingTransitions, Statuses
  <2> QED
    BY <1>0, <1>4, <2>1, MoveStep DEF CommitReject, Commit, Updates
<1>5. CASE CommitPropose(c)
  <2> DEFINE row == [old EXCEPT !.proposed = q.slot,
                                !.assistant = IF q.assistant = Nobody THEN @ ELSE q.assistant]
  <2>1. row \in Booking /\ row.slot = old.slot /\ q.op = "propose"
    <3>1. q.assistant \in Persons \cup {Nobody} /\ q.slot \in Slots
      BY DEF TypeInv, TypeOK, Call
    <3> QED
      BY <1>0, <1>5, <3>1 DEF CommitPropose, Updates, Booking
  <2>2. Commit(q, "alternative_proposed", row)
    BY <1>5 DEF CommitPropose
  <2>3. \A from \in ReadStatus["propose"] : CanTransition(from, "alternative_proposed")
    BY DEF ReadStatus, CanTransition, BookingTransitions, Statuses
  <2> HIDE DEF row
  <2> QED
    BY <1>5, <2>1, <2>2, <2>3, MoveStep DEF CommitPropose, Commit, Updates
<1>6. CASE CommitAccept(c)
  BY <1>6, RebookStep
<1>7. CASE CommitDecline(c)
  <2>1. \A from \in ReadStatus["decline"] : CanTransition(from, "cancelled")
    BY DEF ReadStatus, CanTransition, BookingTransitions, Statuses
  <2> QED
    BY <1>0, <1>7, <2>1, MoveStep DEF CommitDecline, Commit, Updates
<1>8. CASE CommitCancel(c)
  <2>1. \A from \in ReadStatus["cancel"] : CanTransition(from, "cancelled")
    BY DEF ReadStatus, CanTransition, BookingTransitions, Statuses
  <2>2. q.op = "cancel" /\ old \in Booking /\ StillAsRead(q) /\ UNCHANGED attendance
    BY <1>0, <1>8 DEF CommitCancel, Commit, Updates
  <2>3. booking' = [booking EXCEPT ![q.id] = [old EXCEPT !.status = "cancelled"]]
    BY <1>8 DEF CommitCancel, Commit
  <2> QED
    BY <2>1, <2>2, <2>3, MoveStep DEF Updates
<1>9. CASE CommitMark(c)
  BY <1>9, CloseStep
<1> QED
  BY <1>1, <1>2, <1>3, <1>4, <1>5, <1>6, <1>7, <1>8, <1>9 DEF End

LEMMA LedgerStart == Init => Ledger!LedgerInit
  BY DEF Init, Ledger!LedgerInit, NoBooking

LEMMA LedgerStep ==
  ASSUME TypeInv, [Next]_vars
  PROVE  [Ledger!LedgerNext]_(Ledger!ledger)
<1>1. CASE UNCHANGED vars
  BY <1>1, StutterStep DEF vars
<1>2. ASSUME NEW c \in Calls, Begin(c)
      PROVE  [Ledger!LedgerNext]_(Ledger!ledger)
  <2>1. ASSUME NEW q, Start(c, q)
        PROVE  UNCHANGED rows
    BY <2>1 DEF Start
  <2>2. \E q : Start(c, q)
    BY ZenonT(40), <1>2 DEF Begin, BeginRequest, BeginAccept, BeginDecline, BeginApprove, BeginPropose,
                BeginReject, BeginCancel, BeginMark
  <2> QED
    BY <2>1, <2>2, StutterStep DEF rows
<1>3. ASSUME NEW c \in Calls, LockAndCount(c) \/ Crash(c)
      PROVE  [Ledger!LedgerNext]_(Ledger!ledger)
  BY <1>3, StutterStep DEF LockAndCount, Crash, rows
<1>4. ASSUME NEW c \in Calls, End(c)
      PROVE  [Ledger!LedgerNext]_(Ledger!ledger)
  BY <1>4, EndStep
<1>5. CASE Manage
  <2>1. UNCHANGED rows
    BY <1>5 DEF Manage, UpdateLab, SetLabHours, AddBlackout, RemoveBlackout, AddLabStaff,
                RemoveLabStaff
  <2> QED
    BY <2>1, StutterStep DEF rows
<1>6. CASE Tick
  BY <1>6, StutterStep DEF Tick, rows
<1> QED
  BY <1>1, <1>2, <1>3, <1>4, <1>5, <1>6 DEF Next

\* Lab booking implements the ledger, for any number of persons, bookings, calls and settings.
THEOREM Refinement == Spec => ImplementsLedger
<1>1. TypeInv /\ [Next]_vars => TypeInv' /\ [Ledger!LedgerNext]_(Ledger!ledger)
  BY TypeNext, LedgerStep
<1>2. Init => TypeInv /\ Ledger!LedgerInit
  BY TypeInit, LedgerStart
<1> QED
  BY <1>1, <1>2, PTL DEF Spec, ImplementsLedger, Ledger!LedgerSpec

-----------------------------------------------------------------------------
(* What lab booking inherits from the ledger. *)

LP == INSTANCE BookingLedgerProofs WITH
        status <- [b \in BookingIds |-> booking[b].status],
        slot <- [b \in BookingIds |-> booking[b].slot]

LEMMA SameInit == Ledger!LedgerInit => LP!LedgerInit
  BY DEF Ledger!LedgerInit, LP!LedgerInit

LEMMA SameNext == [Ledger!LedgerNext]_(Ledger!ledger) => [LP!LedgerNext]_(LP!ledger)
<1> SUFFICES ASSUME [Ledger!LedgerNext]_(Ledger!ledger)
             PROVE  [LP!LedgerNext]_(LP!ledger)
  OBVIOUS
<1>1. CASE UNCHANGED Ledger!ledger
  BY <1>1 DEF Ledger!ledger, LP!ledger
<1>2. ASSUME NEW b \in BookingIds, NEW s \in Slots, Ledger!Create(b, s)
      PROVE  LP!LedgerNext
  <2>1. LP!Create(b, s)
    BY <1>2, Zenon DEF Ledger!Create, LP!Create, Ledger!FreeFor, LP!FreeFor, Ledger!Live, LP!Live,
                Ledger!LiveStatuses, LP!LiveStatuses, Ledger!Overlaps, LP!Overlaps
  <2> QED
    BY <2>1 DEF LP!LedgerNext
<1>3. ASSUME NEW b \in BookingIds, NEW s \in Slots, Ledger!Rebook(b, s)
      PROVE  LP!LedgerNext
  <2>1. LP!Rebook(b, s)
    BY <1>3, Zenon DEF Ledger!Rebook, LP!Rebook, Ledger!FreeFor, LP!FreeFor, Ledger!Live, LP!Live,
                Ledger!LiveStatuses, LP!LiveStatuses, Ledger!Overlaps, LP!Overlaps
  <2> QED
    BY <2>1 DEF LP!LedgerNext
<1>4. ASSUME NEW b \in BookingIds, NEW to \in Ledger!Statuses, Ledger!Move(b, to)
      PROVE  LP!LedgerNext
  <2>1. LP!Move(b, to) /\ to \in LP!Statuses
    BY <1>4, Zenon DEF Ledger!Move, LP!Move, Ledger!CanTransition, LP!CanTransition,
           Ledger!BookingTransitions, LP!BookingTransitions, Ledger!Statuses, LP!Statuses
  <2> QED
    BY <2>1 DEF LP!LedgerNext
<1>5. ASSUME NEW b \in BookingIds, NEW outcome \in {"attended", "no_show"},
             Ledger!Close(b, outcome)
      PROVE  LP!LedgerNext
  <2>1. LP!Close(b, outcome)
    BY <1>5, Zenon DEF Ledger!Close, LP!Close
  <2> QED
    BY <2>1 DEF LP!LedgerNext
<1> QED
  BY <1>1, <1>2, <1>3, <1>4, <1>5, Zenon DEF Ledger!LedgerNext

\* Two live bookings never share time: neither two requests, nor a request and an accepted
\* proposal, nor two accepted proposals, whatever the handlers interleave.
THEOREM NeverDoubleBooked == Spec => []NoDoubleBooking
<1>1. Spec => LP!LedgerSpec
  BY Refinement, SameInit, SameNext, PTL DEF ImplementsLedger, Ledger!LedgerSpec, LP!LedgerSpec
<1>2. LP!NoOverlap => NoDoubleBooking
  BY DEF LP!NoOverlap, NoDoubleBooking, LP!Live, Live, LP!LiveStatuses, LiveStatuses,
         LP!Overlaps, Overlaps
<1>3. LP!LedgerSpec => [](LP!NoOverlap /\ LP!OutcomeOnRecord)
  BY LP!LedgerSafe, CalendarAssumption
<1> QED
  BY <1>1, <1>2, <1>3, PTL

\* A booking is completed, or a no-show, exactly when that outcome is on record.
THEOREM OutcomesRecorded == Spec => []OutcomeRecorded
<1>1. Spec => LP!LedgerSpec
  BY Refinement, SameInit, SameNext, PTL DEF ImplementsLedger, Ledger!LedgerSpec, LP!LedgerSpec
<1>2. LP!OutcomeOnRecord => OutcomeRecorded
  BY DEF LP!OutcomeOnRecord, OutcomeRecorded
<1>3. LP!LedgerSpec => [](LP!NoOverlap /\ LP!OutcomeOnRecord)
  BY LP!LedgerSafe, CalendarAssumption
<1> QED
  BY <1>1, <1>2, <1>3, PTL

-----------------------------------------------------------------------------
(* What a step does to the rows, and what a call read that still holds when it writes. *)

\* The status that each handler gives the booking.
Result ==
  [ approve |-> "approved", propose |-> "alternative_proposed", reject |-> "rejected",
    accept |-> "approved", decline |-> "cancelled", cancel |-> "cancelled",
    attended |-> "completed", no_show |-> "no_show" ]

\* The call c inserts a row.
Created(c) ==
  /\ call[c].op = "insert"
  /\ UNCHANGED audit
  /\ \E b \in BookingIds :
       /\ booking[b].status = "none"
       /\ booking'[b].status = "requested" /\ booking'[b].user = call[c].by
       /\ booking'[b].slot = call[c].slot
       /\ \A x \in BookingIds \ {b} : booking'[x] = booking[x]

\* The call c moves the booking it has read.
Updated(c) ==
  LET q == call[c]
      old == booking[q.id]
      new == booking'[q.id]
  IN  /\ q.op \in Updates
      /\ old.status = q.from
      /\ new.status = Result[q.op] /\ new.user = old.user
      /\ q.op = "approve" => new.assistant = q.assistant
      /\ q.op = "accept" => new.slot = q.slot /\ new.assistant = old.assistant
      /\ q.op # "accept" => new.slot = old.slot
      /\ \A x \in BookingIds \ {q.id} : booking'[x] = booking[x]
      /\ \/ audit' = [audit EXCEPT ![q.id] =
                        Append(@, [by |-> q.by, before |-> q.from, after |-> Result[q.op]])]
         \/ q.op = "cancel" /\ UNCHANGED audit

LEMMA UpdateRows ==
  ASSUME TypeInv, NEW c \in Calls, call[c].op \in Updates,
         NEW row \in Booking, Commit(call[c], Result[call[c].op], row),
         row.user = booking[call[c].id].user,
         call[c].op = "approve" => row.assistant = call[c].assistant,
         call[c].op = "accept" =>
           row.slot = call[c].slot /\ row.assistant = booking[call[c].id].assistant,
         call[c].op # "accept" => row.slot = booking[call[c].id].slot
  PROVE  Updated(c)
<1> DEFINE q == call[c]
           new == [row EXCEPT !.status = Result[q.op]]
<1>1. q.id \in BookingIds /\ booking \in [BookingIds -> Booking]
  BY DEF TypeInv, TypeOK, CallsKnow
<1>2. /\ new.status = Result[q.op] /\ new.user = row.user /\ new.slot = row.slot
      /\ new.assistant = row.assistant
  BY DEF Booking
<1>3. booking' = [booking EXCEPT ![q.id] = new]
  BY DEF Commit
<1> HIDE DEF new
<1>4. booking'[q.id] = new /\ \A x \in BookingIds \ {q.id} : booking'[x] = booking[x]
  BY <1>1, <1>3
<1>5. /\ booking[q.id].status = q.from
      /\ audit' = [audit EXCEPT ![q.id] =
                        Append(@, [by |-> q.by, before |-> q.from, after |-> Result[q.op]])]
  BY DEF Commit, StillAsRead
<1> QED
  BY <1>2, <1>4, <1>5 DEF Updated

LEMMA EndRows ==
  ASSUME TypeInv, NEW c \in Calls, End(c)
  PROVE  Finish(c) /\ (UNCHANGED <<booking, audit>> \/ Created(c) \/ Updated(c))
<1> DEFINE q == call[c]
           old == booking[q.id]
<1>1. q \in Call
  BY DEF TypeInv, TypeOK
<1>2. q.op \in Updates => q.id \in BookingIds /\ old \in Booking
  BY DEF TypeInv, TypeOK, CallsKnow
<1>3. CASE CommitRequest(c)
  <2>1. PICK b \in BookingIds :
          /\ booking[b].status = "none"
          /\ booking' = [booking EXCEPT ![b] = [NoBooking EXCEPT !.status = "requested",
                                                 !.user = q.by, !.slot = q.slot]]
    BY <1>3 DEF CommitRequest
  <2>2. /\ booking'[b].status = "requested" /\ booking'[b].user = q.by /\ booking'[b].slot = q.slot
        /\ \A x \in BookingIds \ {b} : booking'[x] = booking[x]
    BY <2>1 DEF TypeInv, TypeOK, NoBooking
  <2> QED
    BY <1>3, <2>1, <2>2 DEF CommitRequest, Created
<1>4. CASE RefuseRequest(c) \/ RefuseAccept(c) \/ LoseRace(c)
  BY <1>4 DEF RefuseRequest, RefuseAccept, LoseRace, rows
<1>5. CASE CommitApprove(c)
  <2> DEFINE row == [old EXCEPT !.assistant = q.assistant]
  <2>1. /\ row \in Booking /\ row.user = old.user /\ row.slot = old.slot
        /\ row.assistant = q.assistant /\ q.op \in Updates /\ q.op = "approve"
    BY <1>1, <1>2, <1>5 DEF CommitApprove, Updates, Call, Booking
  <2>2. Commit(q, Result[q.op], row)
    BY <1>5 DEF CommitApprove, Result
  <2> HIDE DEF row
  <2> QED
    BY <1>5, <2>1, <2>2, UpdateRows DEF CommitApprove
<1>6. CASE CommitReject(c) \/ CommitDecline(c)
  <2>1. /\ old \in Booking /\ q.op \in Updates /\ q.op \in {"reject", "decline"}
        /\ Commit(q, Result[q.op], old)
    BY <1>2, <1>6 DEF CommitReject, CommitDecline, Updates, Result
  <2> QED
    BY <1>6, <2>1, UpdateRows DEF CommitReject, CommitDecline
<1>7. CASE CommitPropose(c)
  <2> DEFINE row == [old EXCEPT !.proposed = q.slot,
                                !.assistant = IF q.assistant = Nobody THEN @ ELSE q.assistant]
  <2>1. /\ row \in Booking /\ row.user = old.user /\ row.slot = old.slot
        /\ q.op \in Updates /\ q.op = "propose"
    BY <1>1, <1>2, <1>7 DEF CommitPropose, Updates, Call, Booking
  <2>2. Commit(q, Result[q.op], row)
    BY <1>7 DEF CommitPropose, Result
  <2> HIDE DEF row
  <2> QED
    BY <1>7, <2>1, <2>2, UpdateRows DEF CommitPropose
<1>8. CASE CommitAccept(c)
  <2> DEFINE row == [old EXCEPT !.slot = q.slot, !.proposed = NoSlot]
  <2>1. /\ row \in Booking /\ row.user = old.user /\ row.slot = q.slot
        /\ row.assistant = old.assistant /\ q.op \in Updates /\ q.op = "accept"
    BY <1>1, <1>2, <1>8, NoSlotType DEF CommitAccept, Updates, Call, Booking
  <2>2. Commit(q, Result[q.op], row)
    BY <1>8 DEF CommitAccept, Result
  <2> HIDE DEF row
  <2> QED
    BY <1>8, <2>1, <2>2, UpdateRows DEF CommitAccept
<1>9. CASE CommitCancel(c)
  <2>1. old \in Booking /\ q.op \in Updates /\ q.op = "cancel" /\ Finish(c)
    BY <1>2, <1>9 DEF CommitCancel, Updates
  <2>2. CASE Commit(q, "cancelled", old)
    <3>1. Commit(q, Result[q.op], old)
      BY <2>1, <2>2 DEF Result
    <3> QED
      BY <2>1, <3>1, UpdateRows
  <2>3. CASE /\ StillAsRead(q) /\ UNCHANGED audit
             /\ booking' = [booking EXCEPT ![q.id].status = "cancelled"]
    <3>1. booking' = [booking EXCEPT ![q.id] = [old EXCEPT !.status = "cancelled"]]
      BY <2>3
    <3>2. /\ booking'[q.id].status = "cancelled" /\ booking'[q.id].user = old.user
          /\ booking'[q.id].slot = old.slot
          /\ \A x \in BookingIds \ {q.id} : booking'[x] = booking[x]
      BY <1>2, <2>1, <3>1 DEF TypeInv, TypeOK, Booking
    <3> QED
      BY <2>1, <2>3, <3>2 DEF Updated, StillAsRead, Result
  <2> QED
    BY <1>9, <2>1, <2>2, <2>3 DEF CommitCancel
<1>10. CASE CommitMark(c)
  <2>1. old \in Booking /\ q.op \in Updates /\ q.op \in {"attended", "no_show"}
    BY <1>2, <1>10 DEF CommitMark, Updates
  <2>2. Commit(q, Result[q.op], old)
    BY <1>10, <2>1 DEF CommitMark, Result
  <2> QED
    BY <1>10, <2>1, <2>2, UpdateRows DEF CommitMark
<1> QED
  BY <1>3, <1>4, <1>5, <1>6, <1>7, <1>8, <1>9, <1>10 DEF End

\* Only the end of a call touches a booking or its trail.
LEMMA StepRows ==
  ASSUME TypeInv, [Next]_vars
  PROVE  \/ UNCHANGED <<booking, audit>>
         \/ \E c \in Calls : Finish(c) /\ (Created(c) \/ Updated(c))
<1>1. CASE UNCHANGED vars
  BY <1>1 DEF vars
<1>2. ASSUME NEW c \in Calls, Begin(c)
      PROVE  UNCHANGED rows
  <2>1. ASSUME NEW q, Start(c, q)
        PROVE  UNCHANGED rows
    BY <2>1 DEF Start
  <2>2. \E q : Start(c, q)
    BY ZenonT(40), <1>2 DEF Begin, BeginRequest, BeginAccept, BeginDecline, BeginApprove,
                BeginPropose, BeginReject, BeginCancel, BeginMark
  <2> QED
    BY <2>1, <2>2
<1>3. ASSUME NEW c \in Calls, LockAndCount(c) \/ Crash(c)
      PROVE  UNCHANGED rows
  BY <1>3 DEF LockAndCount, Crash
<1>4. CASE Manage \/ Tick
  BY <1>4 DEF Manage, UpdateLab, SetLabHours, AddBlackout, RemoveBlackout, AddLabStaff,
              RemoveLabStaff, Tick, rows
<1> QED
  BY <1>1, <1>2, <1>3, <1>4, EndRows DEF Next, rows

\* The audit trail of every booking is unbroken, whichever calls meet on it: a call writes from the
\* status it read, only while the booking has it.
LEMMA TrailStep ==
  ASSUME TypeInv, AuditTrail, [Next]_vars
  PROVE  AuditTrail'
<1>1. CASE UNCHANGED <<booking, audit>>
  BY <1>1 DEF AuditTrail
<1>2. ASSUME NEW c \in Calls, Created(c)
      PROVE  AuditTrail'
  <2>1. PICK b \in BookingIds :
          /\ booking[b].status = "none" /\ booking'[b].status = "requested"
          /\ \A x \in BookingIds \ {b} : booking'[x] = booking[x]
    BY <1>2 DEF Created
  <2>2. audit[b] = <<>>
    <3>1. audit[b] # <<>> => audit[b][Len(audit[b])].after \in Statuses
      <4>1. audit[b] \in Seq(AuditRow)
        BY DEF TypeInv, TypeOK
      <4>2. audit[b] # <<>> => audit[b][Len(audit[b])] \in AuditRow
        BY <4>1
      <4> QED
        BY <4>2 DEF AuditRow
    <3> QED
      BY <2>1, <3>1 DEF AuditTrail, Statuses
  <2> QED
    BY <1>2, <2>1, <2>2 DEF AuditTrail, Created
<1>3. ASSUME NEW c \in Calls, Updated(c)
      PROVE  AuditTrail'
  <2> DEFINE q == call[c]
             b == q.id
  <2>1. /\ b \in BookingIds /\ q.op \in Updates /\ q.by \in Persons /\ q.from \in ReadStatus[q.op]
        /\ booking[b].status = q.from /\ booking'[b].status = Result[q.op]
        /\ \A x \in BookingIds \ {b} : booking'[x] = booking[x]
    BY <1>3 DEF Updated, TypeInv, CallsKnow
  <2>2. q.from \in {"requested", "alternative_proposed", "approved"} /\ Result[q.op] \in Statuses
    BY <2>1 DEF ReadStatus, Updates, Result, Statuses
  <2>3. CASE q.op = "cancel" /\ UNCHANGED audit
    <3>1. booking'[b].status = "cancelled"
      BY <2>1, <2>3 DEF Result
    <3> QED
      BY <2>1, <2>3, <3>1 DEF AuditTrail
  <2> DEFINE new == [by |-> q.by, before |-> q.from, after |-> Result[q.op]]
             trail == audit[b]
  <2>4. CASE audit' = [audit EXCEPT ![b] = Append(@, new)]
    <3>1. new \in AuditRow /\ new.before = q.from /\ new.after = Result[q.op]
      BY <2>1, <2>2 DEF AuditRow, Statuses
    <3>2. trail \in Seq(AuditRow) /\ audit \in [BookingIds -> Seq(AuditRow)]
      BY <2>1 DEF TypeInv, TypeOK
    <3> HIDE DEF new
    <3>3. audit'[b] = Append(trail, new) /\ \A x \in BookingIds \ {b} : audit'[x] = audit[x]
      BY <2>1, <2>4, <3>2
    <3>4. trail = <<>> => q.from = "requested"
      BY <2>1, <2>2 DEF AuditTrail
    <3>5. trail # <<>> => trail[1].before = "requested" /\ trail[Len(trail)].after = q.from
      BY <2>1, <2>2 DEF AuditTrail
    <3>6. \A i \in 1 .. Len(trail) - 1 : trail[i].after = trail[i + 1].before
      BY <2>1 DEF AuditTrail
    <3> DEFINE n == Len(trail)
               longer == Append(trail, new)
    <3>7. /\ n \in Nat /\ Len(longer) = n + 1 /\ longer[n + 1] = new /\ longer # <<>>
          /\ \A i \in 1 .. n : longer[i] = trail[i]
          /\ trail = <<>> <=> n = 0
      BY <3>1, <3>2
    <3> HIDE DEF longer
    <3>8. longer[1].before = "requested" /\ longer[Len(longer)].after = Result[q.op]
      <4>1. CASE n = 0
        BY <3>1, <3>4, <3>7, <4>1
      <4>2. CASE n # 0
        BY <3>1, <3>5, <3>7, <4>2
      <4> QED
        BY <4>1, <4>2
    <3>9. \A i \in 1 .. Len(longer) - 1 : longer[i].after = longer[i + 1].before
      <4>1. TAKE i \in 1 .. Len(longer) - 1
      <4>2. CASE i = n
        BY <3>1, <3>5, <3>7, <4>2
      <4>3. CASE i # n
        BY <3>6, <3>7, <4>3
      <4> QED
        BY <4>2, <4>3
    <3>10. audit'[b] = longer /\ booking'[b].status = Result[q.op]
      BY <2>1, <3>3 DEF longer
    <3> HIDE DEF q, b, trail, n
    <3>11. SUFFICES ASSUME NEW x \in BookingIds
                    PROVE  /\ audit'[x] = <<>> => booking'[x].status \in {"none", "requested", "cancelled"}
                           /\ audit'[x] # <<>> =>
                                /\ audit'[x][1].before = "requested"
                                /\ booking'[x].status \in {audit'[x][Len(audit'[x])].after, "cancelled"}
                           /\ \A i \in 1 .. Len(audit'[x]) - 1 : audit'[x][i].after = audit'[x][i + 1].before
      BY Zenon DEF AuditTrail
    <3>12. CASE x = b
      BY <3>7, <3>8, <3>9, <3>10, <3>12
    <3>13. CASE x # b
      <4>1. audit'[x] = audit[x] /\ booking'[x] = booking[x]
        BY <2>1, <3>3, <3>13
      <4> QED
        BY <4>1 DEF AuditTrail
    <3> QED
      BY <3>12, <3>13
  <2> QED
    BY <1>3, <2>3, <2>4 DEF Updated
<1> QED
  BY <1>1, <1>2, <1>3, StepRows

\* Each audit row starts where the one before ended, and the last ends where the booking is.
THEOREM TrailUnbroken == Spec => []AuditTrail
<1>1. Init => AuditTrail
  BY DEF Init, AuditTrail, NoBooking
<1> QED
  BY <1>1, TypeInit, TypeNext, TrailStep, PTL DEF Spec

\* What the call q has read of the row b, as far as it still holds when it writes: a proposal that is still
\* unanswered is the one that was read, and an approved booking keeps its time and its person.
Reads(q, b) ==
  /\ q.op = "approve" /\ q.policy.requiresAssistant => q.assistant # Nobody
  /\ q.op = "accept" =>
       /\ b.status \notin {"none", "requested"}
       /\ b.status = "alternative_proposed" =>
            /\ q.slot = b.proposed
            /\ q.policy.requiresAssistant => b.assistant # Nobody
  /\ q.op = "cancel" /\ q.from = "approved" =>
       /\ b.status \notin {"none", "requested", "alternative_proposed"}
       /\ q.by = b.user => b.slot.start - q.at >= q.policy.cancelCutoff

ReadInv == \A c \in Calls : Reads(call[c], booking[call[c].id])

\* A row that others create or move keeps what a call has read of it.
LEMMA RowKept ==
  ASSUME TypeInv, NEW d \in Calls, Created(d) \/ Updated(d),
         NEW c \in Calls, Reads(call[c], booking[call[c].id])
  PROVE  Reads(call[c], booking'[call[c].id])
<1> DEFINE q == call[c]
           old == booking[q.id]
           new == booking'[q.id]
<1>1. CASE q.op \notin {"accept", "cancel"}
  BY <1>1 DEF Reads
<1>2. CASE q.op \in {"accept", "cancel"}
  <2>1. q.id \in BookingIds
    BY <1>2 DEF TypeInv, CallsKnow, Updates
  <2>2. CASE new = old
    BY <2>2
  <2>3. CASE Created(d) /\ new # old
    <3>1. old.status = "none"
      BY <2>1, <2>3 DEF Created
    <3>2. ~(q.op = "cancel" /\ q.from = "approved") /\ q.op # "accept"
      BY <3>1 DEF Reads
    <3> QED
      BY <1>2, <3>2 DEF Reads
  <2>4. CASE Updated(d) /\ new # old
    <3>1. /\ call[d].op \in Updates /\ call[d].id = q.id
          /\ old.status = call[d].from /\ call[d].from \in ReadStatus[call[d].op]
          /\ new.status = Result[call[d].op] /\ new.user = old.user
          /\ call[d].op # "accept" => new.slot = old.slot
      BY <2>1, <2>4 DEF Updated, TypeInv, CallsKnow
    <3>2. CASE q.op = "accept"
      <4>1. old.status \in {"alternative_proposed", "approved"}
        BY <3>1, <3>2 DEF Reads, ReadStatus, Updates
      <4>2. new.status \notin {"none", "requested", "alternative_proposed"}
        BY <3>1, <4>1 DEF ReadStatus, Result, Updates
      <4> QED
        BY <3>2, <4>2 DEF Reads
    <3>3. CASE q.op = "cancel" /\ q.from = "approved"
      <4>1. old.status = "approved"
        BY <3>1, <3>3 DEF Reads, ReadStatus, Updates
      <4>2. call[d].op # "accept" /\ new.status \notin {"none", "requested", "alternative_proposed"}
        BY <3>1, <4>1 DEF ReadStatus, Result, Updates
      <4> QED
        BY <3>1, <3>3, <4>2 DEF Reads
    <3>4. CASE q.op = "cancel" /\ q.from # "approved"
      BY <3>4 DEF Reads
    <3> QED
      BY <1>2, <3>2, <3>3, <3>4
  <2> QED
    BY <2>2, <2>3, <2>4
<1> QED
  BY <1>1, <1>2

LEMMA DecisionFields ==
  ASSUME TypeInv, NEW op \in Ops, NEW a \in Persons, NEW b \in BookingIds
  PROVE  LET d == Decision(op, a, b) IN
           /\ d \in Call /\ d.op = op /\ d.by = a /\ d.id = b
           /\ d.from = booking[b].status /\ d.policy = lab.policy /\ d.slot = NoSlot
<1>1. booking[b].status \in Statuses \cup {"none"} /\ lab.policy \in Policies
  BY DEF TypeInv, TypeOK, Booking
<1> QED
  BY <1>1, IdleType DEF Decision, Call, Idle

\* A slot that does not end before it starts.
Forward(s) == s.start <= s.end

\* A call that is about to start: what it has read holds, and it holds no lock yet.
Fresh(q) == Reads(q, booking[q.id]) /\ q.op # "insert" /\ Forward(q.slot)

LEMMA NoSlotForward == Forward(NoSlot)
  BY DEF NoSlot, Slot, Forward

LEMMA FitsForward ==
  ASSUME NEW policy, NEW s \in Slots, Fits(policy, s)
  PROVE  Forward(s)
  BY DEF Slots, Fits, Bookable, Forward

\* A call knows what it has read when it starts.
LEMMA BeginReads ==
  ASSUME TypeInv, NEW c \in Calls, Begin(c)
  PROVE  /\ UNCHANGED <<booking, audit>>
         /\ \A d \in Calls \ {c} : call'[d] = call[d]
         /\ Reads(call'[c], booking[call'[c].id]) /\ call'[c].op # "insert" /\ Forward(call'[c].slot)
<1>0. /\ lab.policy \in Policies /\ now \in 0 .. Horizon
      /\ booking \in [BookingIds -> Booking]
  BY DEF TypeInv, TypeOK
<1>1. ASSUME NEW q, Start(c, q), Fresh(q)
      PROVE  /\ UNCHANGED <<booking, audit>>
             /\ \A d \in Calls \ {c} : call'[d] = call[d]
             /\ Reads(call'[c], booking[call'[c].id]) /\ call'[c].op # "insert" /\ Forward(call'[c].slot)
  <2>1. call'[c] = q /\ \A d \in Calls \ {c} : call'[d] = call[d]
    BY <1>1 DEF Start, TypeInv, TypeOK
  <2> QED
    BY <1>1, <2>1 DEF Start, rows, Fresh
<1> SUFFICES \E q : Start(c, q) /\ Fresh(q)
  BY <1>1
<1>2. ASSUME NEW p \in Members, NEW s \in Slots, BeginRequest(c, p, s)
      PROVE  \E q : Start(c, q) /\ Fresh(q)
  <2> DEFINE q == [Idle EXCEPT !.op = "request", !.by = p, !.slot = s, !.policy = lab.policy]
  <2>1. q.op = "request" /\ q.slot = s
    BY IdleType DEF Call
  <2>2. Start(c, q) /\ Forward(s)
    BY <1>2, FitsForward DEF BeginRequest
  <2> HIDE DEF q
  <2> QED
    BY <2>1, <2>2 DEF Fresh, Reads
<1>3. ASSUME NEW b \in BookingIds, BeginAccept(c, b)
      PROVE  \E q : Start(c, q) /\ Fresh(q)
  <2> DEFINE d == Decision("accept", booking[b].user, b)
             q == [d EXCEPT !.slot = booking[b].proposed]
  <2>1. booking[b].user \in Persons /\ booking[b].status = "alternative_proposed"
    BY <1>3 DEF BeginAccept, TypeInv, RowsOwned
  <2>2. d \in Call /\ d.op = "accept" /\ d.id = b /\ d.policy = lab.policy
    BY <2>1, DecisionFields DEF Ops
  <2> HIDE DEF d
  <2>3. q.op = "accept" /\ q.id = b /\ q.policy = lab.policy /\ q.slot = booking[b].proposed
    BY <2>2 DEF Call
  <2>4. Start(c, q)
    BY <1>3 DEF BeginAccept, d
  <2>5. lab.policy.requiresAssistant => booking[b].assistant # Nobody
    BY <1>3 DEF BeginAccept, MayConfirm
  <2>6. Forward(booking[b].proposed)
    <3>1. booking[b].proposed \in Slots
      BY <1>0 DEF Booking
    <3>2. Fits([lab.policy EXCEPT !.minLead = 0], booking[b].proposed)
      BY <1>3 DEF BeginAccept
    <3> QED
      BY <3>1, <3>2, FitsForward
  <2> HIDE DEF q
  <2> QED
    BY <2>1, <2>3, <2>4, <2>5, <2>6 DEF Fresh, Reads
<1>4. ASSUME NEW b \in BookingIds, NEW a \in Persons, NEW p \in Persons \cup {Nobody},
             BeginApprove(c, a, b, p)
      PROVE  \E q : Start(c, q) /\ Fresh(q)
  <2> DEFINE d == Decision("approve", a, b)
             q == [d EXCEPT !.assistant = p]
  <2>1. d \in Call /\ d.op = "approve" /\ d.policy = lab.policy /\ d.slot = NoSlot
    BY DecisionFields DEF Ops
  <2> HIDE DEF d
  <2>2. q.op = "approve" /\ q.policy = lab.policy /\ q.assistant = p /\ q.slot = NoSlot
    BY <2>1 DEF Call
  <2>3. Start(c, q) /\ (lab.policy.requiresAssistant => p # Nobody)
    BY <1>4 DEF BeginApprove, AssistantOK, d
  <2> HIDE DEF q
  <2> QED
    BY <2>2, <2>3, NoSlotForward DEF Fresh, Reads
<1>5. ASSUME NEW b \in BookingIds, NEW a \in Persons, BeginCancel(c, a, b)
      PROVE  \E q : Start(c, q) /\ Fresh(q)
  <2> DEFINE d == Decision("cancel", a, b)
             q == [d EXCEPT !.at = now]
  <2>1. /\ d \in Call /\ d.op = "cancel" /\ d.id = b /\ d.by = a /\ d.policy = lab.policy
        /\ d.from = booking[b].status /\ d.slot = NoSlot
    BY DecisionFields DEF Ops
  <2> HIDE DEF d
  <2>2. /\ q.op = "cancel" /\ q.id = b /\ q.by = a /\ q.policy = lab.policy
        /\ q.from = booking[b].status /\ q.at = now /\ q.slot = NoSlot
    BY <2>1 DEF Call
  <2>3. Start(c, q)
    BY <1>5 DEF BeginCancel, d
  <2>4. a = booking[b].user /\ booking[b].status = "approved" =>
          booking[b].slot.start - now >= lab.policy.cancelCutoff
    BY <1>5 DEF BeginCancel
  <2> HIDE DEF q
  <2> QED
    BY <2>2, <2>3, <2>4, NoSlotForward DEF Fresh, Reads
<1>6. ASSUME NEW b \in BookingIds, NEW a \in Persons, NEW s \in Slots,
             NEW p \in Persons \cup {Nobody}, BeginPropose(c, a, b, s, p)
      PROVE  \E q : Start(c, q) /\ Fresh(q)
  <2> DEFINE d == Decision("propose", a, b)
             q == [d EXCEPT !.slot = s, !.assistant = p]
  <2>1. d \in Call /\ d.op = "propose"
    BY DecisionFields DEF Ops
  <2> HIDE DEF d
  <2>2. q.op = "propose" /\ q.slot = s
    BY <2>1 DEF Call
  <2>3. Start(c, q) /\ Forward(s)
    BY <1>6, FitsForward DEF BeginPropose, d
  <2> HIDE DEF q
  <2> QED
    BY <2>2, <2>3 DEF Fresh, Reads
<1>7. ASSUME NEW b \in BookingIds, NEW a \in Persons, NEW op \in {"reject", "decline", "attended", "no_show"},
             Start(c, Decision(op, a, b))
      PROVE  \E q : Start(c, q) /\ Fresh(q)
  <2>1. Decision(op, a, b).op = op /\ Decision(op, a, b).slot = NoSlot
    BY DecisionFields DEF Ops
  <2> QED
    BY <1>7, <2>1, NoSlotForward DEF Fresh, Reads
<1>8. ASSUME NEW b \in BookingIds, BeginDecline(c, b)
      PROVE  \E q : Start(c, q) /\ Fresh(q)
  <2>1. booking[b].user \in Persons
    BY <1>8 DEF BeginDecline, TypeInv, RowsOwned
  <2> QED
    BY <1>7, <1>8, <2>1 DEF BeginDecline
<1>9. ASSUME NEW b \in BookingIds, NEW a \in Persons,
             BeginReject(c, a, b) \/ \E outcome \in {"attended", "no_show"} : BeginMark(c, a, b, outcome)
      PROVE  \E q : Start(c, q) /\ Fresh(q)
  BY <1>7, <1>9 DEF BeginReject, BeginMark
<1> QED
  BY <1>2, <1>3, <1>4, <1>5, <1>6, <1>8, <1>9, Zenon DEF Begin

LEMMA FinishReads ==
  ASSUME TypeInv, ReadInv, NEW c \in Calls, Finish(c),
         UNCHANGED booking \/ Created(c) \/ Updated(c)
  PROVE  ReadInv'
<1>1. call'[c] = Idle /\ \A d \in Calls \ {c} : call'[d] = call[d]
  BY DEF Finish, TypeInv, TypeOK
<1>2. Idle.op = "idle"
  BY DEF Idle
<1> SUFFICES ASSUME NEW d \in Calls
             PROVE  Reads(call'[d], booking'[call'[d].id])
  BY DEF ReadInv
<1>3. CASE d = c
  BY <1>1, <1>2, <1>3 DEF Reads
<1>4. CASE d # c
  <2>1. Reads(call[d], booking[call[d].id]) /\ call'[d] = call[d]
    BY <1>1, <1>4 DEF ReadInv
  <2>2. Reads(call[d], booking'[call[d].id])
    BY <2>1, RowKept
  <2> QED
    BY <2>1, <2>2
<1> QED
  BY <1>3, <1>4

\* What a call has read keeps holding, as far as it matters, until the call ends.
LEMMA ReadStep ==
  ASSUME TypeInv, ReadInv, [Next]_vars
  PROVE  ReadInv'
<1>1. CASE UNCHANGED <<booking, call>>
  BY <1>1 DEF ReadInv
<1>2. CASE UNCHANGED vars
  BY <1>1, <1>2 DEF vars
<1>3. CASE Manage \/ Tick
  <2>1. UNCHANGED <<booking, call>>
    BY <1>3 DEF Manage, UpdateLab, SetLabHours, AddBlackout, RemoveBlackout, AddLabStaff,
                RemoveLabStaff, Tick, rows
  <2> QED
    BY <1>1, <2>1
<1>4. ASSUME NEW c \in Calls, Begin(c)
      PROVE  ReadInv'
  <2>1. /\ UNCHANGED booking
        /\ \A d \in Calls \ {c} : call'[d] = call[d]
        /\ Reads(call'[c], booking[call'[c].id])
    BY <1>4, BeginReads
  <2> SUFFICES ASSUME NEW d \in Calls
               PROVE  Reads(call'[d], booking'[call'[d].id])
    BY DEF ReadInv
  <2> QED
    BY <2>1 DEF ReadInv
<1>5. ASSUME NEW c \in Calls, LockAndCount(c)
      PROVE  ReadInv'
  <2>1. CASE Finish(c)
    BY <1>5, <2>1, FinishReads DEF LockAndCount, rows
  <2>2. CASE call' = [call EXCEPT ![c].op = "insert"]
    <3>1. /\ call'[c].op = "insert" /\ UNCHANGED booking
          /\ \A d \in Calls \ {c} : call'[d] = call[d]
      BY <1>5, <2>2 DEF TypeInv, TypeOK, Call, LockAndCount, rows
    <3> SUFFICES ASSUME NEW d \in Calls
                 PROVE  Reads(call'[d], booking'[call'[d].id])
      BY DEF ReadInv
    <3>2. CASE d = c
      BY <3>1, <3>2 DEF Reads
    <3>3. CASE d # c
      BY <3>1, <3>3 DEF ReadInv
    <3> QED
      BY <3>2, <3>3
  <2> QED
    BY <1>5, <2>1, <2>2 DEF LockAndCount
<1>6. ASSUME NEW c \in Calls, End(c) \/ Crash(c)
      PROVE  ReadInv'
  <2>1. Finish(c) /\ (UNCHANGED booking \/ Created(c) \/ Updated(c))
    BY <1>6, EndRows DEF Crash, rows
  <2> QED
    BY <2>1, FinishReads
<1> QED
  BY <1>2, <1>3, <1>4, <1>5, <1>6 DEF Next

LEMMA ReadStart == Init => ReadInv
<1>1. Idle.op = "idle"
  BY DEF Idle
<1> QED
  BY <1>1 DEF Init, ReadInv, Reads

\* The call that moves the booking b in a step, and what it has read.
LEMMA MoverOf ==
  ASSUME TypeInv, ReadInv, [Next]_vars, NEW b \in BookingIds,
         booking[b].status # booking'[b].status, booking'[b].status # "requested"
  PROVE  \E c \in Calls :
           /\ Updated(c) /\ call[c].id = b /\ DoneBy(c, b)
           /\ call[c].op \in Updates /\ call[c].from \in ReadStatus[call[c].op]
           /\ call[c].from = booking[b].status /\ Result[call[c].op] = booking'[b].status
           /\ Reads(call[c], booking[b])
<1>1. PICK c \in Calls : Finish(c) /\ (Created(c) \/ Updated(c))
  BY StepRows
<1>2. Updated(c)
  BY <1>1 DEF Created
<1>3. call[c].id = b /\ call[c].op \in Updates
  BY <1>2 DEF Updated
<1>4. /\ call[c].from \in ReadStatus[call[c].op] /\ Reads(call[c], booking[b])
      /\ call[c].from = booking[b].status /\ Result[call[c].op] = booking'[b].status
  BY <1>2, <1>3 DEF Updated, TypeInv, CallsKnow, ReadInv
<1>5. call'[c].op = "idle" /\ call[c].op # "idle"
  BY <1>1, <1>3 DEF Finish, TypeInv, TypeOK, Idle, Updates
<1> QED
  BY <1>2, <1>3, <1>4, <1>5 DEF DoneBy

LEMMA AcceptStep ==
  ASSUME TypeInv, ReadInv, [Next]_vars, NEW b \in BookingIds,
         booking[b].status = "alternative_proposed", booking'[b].status = "approved"
  PROVE  booking'[b].slot = booking[b].proposed
<1>1. PICK c \in Calls :
        /\ Updated(c) /\ call[c].id = b /\ call[c].op \in Updates
        /\ call[c].from \in ReadStatus[call[c].op] /\ call[c].from = "alternative_proposed"
        /\ Result[call[c].op] = "approved" /\ Reads(call[c], booking[b])
  BY MoverOf
<1>2. call[c].op = "accept"
  BY <1>1 DEF Updates, ReadStatus, Result
<1> QED
  BY <1>1, <1>2 DEF Updated, Reads

LEMMA CutoffStep ==
  ASSUME TypeInv, ReadInv, [Next]_vars, NEW b \in BookingIds,
         booking[b].status = "approved", booking'[b].status = "cancelled"
  PROVE  \E c \in Calls :
           /\ DoneBy(c, b)
           /\ call[c].by = booking[b].user =>
                booking[b].slot.start - call[c].at >= call[c].policy.cancelCutoff
<1>1. PICK c \in Calls :
        /\ DoneBy(c, b) /\ call[c].op \in Updates
        /\ call[c].from \in ReadStatus[call[c].op] /\ call[c].from = "approved"
        /\ Result[call[c].op] = "cancelled" /\ Reads(call[c], booking[b])
  BY MoverOf
<1>2. call[c].op = "cancel"
  BY <1>1 DEF Updates, ReadStatus, Result
<1> QED
  BY <1>1, <1>2 DEF Reads

LEMMA AssistantStep ==
  ASSUME TypeInv, ReadInv, [Next]_vars, NEW b \in BookingIds,
         booking[b].status # "approved", booking'[b].status = "approved"
  PROVE  \E c \in Calls :
           /\ DoneBy(c, b)
           /\ call[c].policy.requiresAssistant => booking'[b].assistant # Nobody
<1>1. PICK c \in Calls :
        /\ Updated(c) /\ call[c].id = b /\ DoneBy(c, b) /\ call[c].op \in Updates
        /\ call[c].from \in ReadStatus[call[c].op] /\ call[c].from = booking[b].status
        /\ Result[call[c].op] = "approved" /\ Reads(call[c], booking[b])
  BY MoverOf
<1>2. call[c].op \in {"approve", "accept"}
  BY <1>1 DEF Updates, Result
<1>3. CASE call[c].op = "approve"
  BY <1>1, <1>3 DEF Updated, Reads
<1>4. CASE call[c].op = "accept"
  <2>1. booking[b].status = "alternative_proposed"
    BY <1>1, <1>4 DEF ReadStatus
  <2> QED
    BY <1>1, <1>4, <2>1 DEF Updated, Reads
<1> QED
  BY <1>2, <1>3, <1>4

\* An accepted proposal gives the booking the time proposed at that moment, although the answer writes
\* the time it read before its transaction: nobody can replace a proposal that is unanswered.
THEOREM AcceptedTime == Spec => AcceptedTimeIsProposed
<1>1. TypeInv /\ ReadInv /\ [Next]_vars =>
        \A b \in BookingIds :
          booking[b].status = "alternative_proposed" /\ booking'[b].status = "approved" =>
            booking'[b].slot = booking[b].proposed
  BY AcceptStep
<1> QED
  BY <1>1, TypeInit, TypeNext, ReadStart, ReadStep, PTL DEF Spec, AcceptedTimeIsProposed

\* Nobody takes back an approved booking of their own with a call that began after the cut-off, even when
\* the approval came while the call was in progress.
THEOREM CutoffHolds == Spec => CutoffKept
<1>1. TypeInv /\ ReadInv /\ [Next]_vars =>
        \A b \in BookingIds :
          booking[b].status = "approved" /\ booking'[b].status = "cancelled" =>
            \E c \in Calls :
              /\ DoneBy(c, b)
              /\ call[c].by = booking[b].user =>
                   booking[b].slot.start - call[c].at >= call[c].policy.cancelCutoff
  BY CutoffStep
<1> QED
  BY <1>1, TypeInit, TypeNext, ReadStart, ReadStep, PTL DEF Spec, CutoffKept

\* A booking is approved, by a decision or by an answer, only with an assistant named if the settings
\* that call read require one, whatever becomes of settings and proposals meanwhile.
THEOREM AssistantRule == Spec => AssistantNamed
<1>1. TypeInv /\ ReadInv /\ [Next]_vars =>
        \A b \in BookingIds :
          booking[b].status # "approved" /\ booking'[b].status = "approved" =>
            \E c \in Calls :
              /\ DoneBy(c, b)
              /\ call[c].policy.requiresAssistant => booking'[b].assistant # Nobody
  BY AssistantStep
<1> QED
  BY <1>1, TypeInit, TypeNext, ReadStart, ReadStep, PTL DEF Spec, AssistantNamed

-----------------------------------------------------------------------------
(* The limit on open requests, which is counted under the lock of the user's row. *)

Open(p) == BookingsOf(p, {"requested", "alternative_proposed"})

\* The holder of the row lock of p is alone, and what it counted leaves room for one more.
LockHeld ==
  /\ \A c \in Calls :
       call[c].op = "insert" => OpenRequests(call[c].by) < call[c].policy.maxOpenRequests
  /\ \A c, d \in Calls :
       call[c].op = "insert" /\ call[d].op = "insert" /\ call[c].by = call[d].by => c = d

LEMMA OpenCount ==
  ASSUME NEW p
  PROVE  /\ OpenRequests(p) = Cardinality(Open(p)) /\ OpenRequests(p) \in Nat
         /\ IsFiniteSet(Open(p))
<1>1. Open(p) \subseteq BookingIds
  BY DEF Open, BookingsOf
<1>2. IsFiniteSet(Open(p))
  BY <1>1, FS_Subset, LimitAssumption
<1> QED
  BY <1>2, FS_CardinalityType DEF OpenRequests, Open

LEMMA FewerOpen ==
  ASSUME NEW p, Open(p)' \subseteq Open(p)
  PROVE  OpenRequests(p)' \in Nat /\ OpenRequests(p)' <= OpenRequests(p)
<1>1. OpenRequests(p)' = Cardinality(Open(p)')
  BY DEF OpenRequests, Open
<1> QED
  BY <1>1, OpenCount, FS_Subset, FS_CardinalityType

LEMMA AddOne ==
  ASSUME NEW S, IsFiniteSet(S), NEW b
  PROVE  /\ IsFiniteSet(S \cup {b})
         /\ Cardinality(S \cup {b}) \in Nat
         /\ Cardinality(S \cup {b}) <= Cardinality(S) + 1
<1>1. /\ IsFiniteSet(S \cup {b}) /\ Cardinality(S) \in Nat
      /\ Cardinality(S \cup {b}) = IF b \in S THEN Cardinality(S) ELSE Cardinality(S) + 1
  BY FS_AddElement, FS_CardinalityType
<1> QED
  BY <1>1

LEMMA OneMoreOpen ==
  ASSUME NEW p, NEW b, Open(p)' \subseteq Open(p) \cup {b}
  PROVE  OpenRequests(p)' \in Nat /\ OpenRequests(p)' <= OpenRequests(p) + 1
<1>1. OpenRequests(p)' = Cardinality(Open(p)')
  BY DEF OpenRequests, Open
<1>2. /\ IsFiniteSet(Open(p) \cup {b})
      /\ Cardinality(Open(p) \cup {b}) \in Nat
      /\ Cardinality(Open(p) \cup {b}) <= Cardinality(Open(p)) + 1
  BY OpenCount, AddOne
<1>3. /\ Cardinality(Open(p)') \in Nat
      /\ Cardinality(Open(p)') <= Cardinality(Open(p) \cup {b})
  BY <1>2, FS_Subset, FS_CardinalityType
<1> QED
  BY <1>1, <1>2, <1>3, OpenCount

\* Only an inserted row adds to what its booker has open.
LEMMA OpenAfter ==
  ASSUME TypeInv, NEW c \in Calls, UNCHANGED booking \/ Created(c) \/ Updated(c), NEW p
  PROVE  /\ ~(Created(c) /\ p = call[c].by) => Open(p)' \subseteq Open(p)
         /\ Created(c) => \E b \in BookingIds : Open(p)' \subseteq Open(p) \cup {b}
<1>1. CASE UNCHANGED booking
  BY <1>1 DEF Open, BookingsOf, Created
<1>2. CASE Created(c)
  <2>1. PICK b \in BookingIds :
          /\ booking'[b].status = "requested" /\ booking'[b].user = call[c].by
          /\ \A x \in BookingIds \ {b} : booking'[x] = booking[x]
    BY <1>2 DEF Created
  <2> QED
    BY <1>2, <2>1 DEF Open, BookingsOf
<1>3. CASE Updated(c)
  <2> DEFINE q == call[c]
  <2>1. /\ q.op \in Updates /\ q.from \in ReadStatus[q.op] /\ booking[q.id].status = q.from
        /\ booking'[q.id].status = Result[q.op] /\ booking'[q.id].user = booking[q.id].user
        /\ \A x \in BookingIds \ {q.id} : booking'[x] = booking[x]
        /\ q.op # "insert"
    BY <1>3 DEF Updated, TypeInv, CallsKnow, Updates
  <2>2. Result[q.op] \in {"requested", "alternative_proposed"} => q.from = "requested"
    BY <2>1 DEF Result, ReadStatus, Updates
  <2> QED
    BY <2>1, <2>2 DEF Open, BookingsOf, Created
<1> QED
  BY <1>1, <1>2, <1>3

LEMMA LimitFinish ==
  ASSUME TypeInv, LockHeld, OpenRequestLimit, NEW c \in Calls, Finish(c),
         UNCHANGED booking \/ Created(c) \/ Updated(c)
  PROVE  LockHeld' /\ OpenRequestLimit'
<1>1. call'[c] = Idle /\ \A d \in Calls \ {c} : call'[d] = call[d]
  BY DEF Finish, TypeInv, TypeOK
<1>2. Idle.op = "idle"
  BY DEF Idle
<1>3. \A d \in Calls : call[d].policy \in Policies
  BY DEF TypeInv, TypeOK, Call
<1>4. ASSUME NEW d \in Calls, call'[d].op = "insert"
      PROVE  (OpenRequests(call[d].by) < call[d].policy.maxOpenRequests)'
  <2>1. d # c /\ call[d].op = "insert" /\ call'[d] = call[d]
    BY <1>1, <1>2, <1>4
  <2>2. OpenRequests(call[d].by) < call[d].policy.maxOpenRequests
    BY <2>1 DEF LockHeld
  <2>3. ~(Created(c) /\ call[d].by = call[c].by)
    BY <2>1 DEF LockHeld, Created
  <2>4. ASSUME NEW p, p = call[d].by
        PROVE  OpenRequests(p)' < call[d].policy.maxOpenRequests
    <3>1. OpenRequests(p)' \in Nat /\ OpenRequests(p)' <= OpenRequests(p)
      BY <2>3, <2>4, OpenAfter, FewerOpen
    <3> QED
      BY <1>3, <2>2, <2>4, <3>1, OpenCount, LimitAssumption
  <2> QED
    BY <2>1, <2>4 DEF OpenRequests, BookingsOf
<1>5. LockHeld'
  BY <1>1, <1>2, <1>4 DEF LockHeld
<1>6. ASSUME NEW p \in Members
      PROVE  \E policy \in Policies : OpenRequests(p)' <= policy.maxOpenRequests
  <2>1. CASE Created(c) /\ p = call[c].by
    <3>1. OpenRequests(p) < call[c].policy.maxOpenRequests
      BY <2>1 DEF LockHeld, Created
    <3>2. OpenRequests(p)' \in Nat /\ OpenRequests(p)' <= OpenRequests(p) + 1
      BY <2>1, OpenAfter, OneMoreOpen
    <3> QED
      BY <1>3, <3>1, <3>2, OpenCount, LimitAssumption
  <2>2. CASE ~(Created(c) /\ p = call[c].by)
    <3>1. PICK policy \in Policies : OpenRequests(p) <= policy.maxOpenRequests
      BY DEF OpenRequestLimit
    <3>2. OpenRequests(p)' \in Nat /\ OpenRequests(p)' <= OpenRequests(p)
      BY <2>2, OpenAfter, FewerOpen
    <3> QED
      BY <3>1, <3>2, OpenCount, LimitAssumption
  <2> QED
    BY <2>1, <2>2
<1> QED
  BY <1>5, <1>6 DEF OpenRequestLimit

\* The rows stay, and no lock is taken.
LEMMA LimitKept ==
  ASSUME LockHeld, OpenRequestLimit, UNCHANGED booking,
         \A c \in Calls : call'[c] = call[c] \/ call'[c].op # "insert"
  PROVE  LockHeld' /\ OpenRequestLimit'
<1>1. \A p : OpenRequests(p)' = OpenRequests(p)
  BY DEF OpenRequests, BookingsOf
<1>2. OpenRequestLimit'
  BY <1>1 DEF OpenRequestLimit
<1>3. \A c \in Calls : call'[c].op = "insert" => call'[c] = call[c]
  OBVIOUS
<1>4. LockHeld'
  BY <1>1, <1>3 DEF LockHeld
<1> QED
  BY <1>2, <1>4

LEMMA LimitLock ==
  ASSUME TypeInv, LockHeld, OpenRequestLimit, NEW c \in Calls, LockAndCount(c)
  PROVE  LockHeld' /\ OpenRequestLimit'
<1>1. UNCHANGED booking
  BY DEF LockAndCount, rows
<1>2. CASE Finish(c)
  BY <1>1, <1>2, LimitFinish
<1>3. CASE WithinLimits(call[c]) /\ call' = [call EXCEPT ![c].op = "insert"]
  <2>1. /\ call'[c].op = "insert" /\ call'[c].by = call[c].by /\ call'[c].policy = call[c].policy
        /\ \A d \in Calls \ {c} : call'[d] = call[d]
    BY <1>3 DEF TypeInv, TypeOK, Call
  <2>2. /\ OpenRequests(call[c].by) < call[c].policy.maxOpenRequests
        /\ \A d \in Calls : ~(call[d].op = "insert" /\ call[d].by = call[c].by)
    BY <1>3 DEF WithinLimits, LockAndCount, UserRowFree
  <2>3. \A p : OpenRequests(p)' = OpenRequests(p)
    BY <1>1 DEF OpenRequests, BookingsOf
  <2>4. OpenRequestLimit'
    BY <2>3 DEF OpenRequestLimit
  <2>5. ASSUME NEW d \in Calls, call'[d].op = "insert"
        PROVE  (OpenRequests(call[d].by) < call[d].policy.maxOpenRequests)'
    <3>1. OpenRequests(call[d].by) < call[d].policy.maxOpenRequests
      BY <2>1, <2>2, <2>5 DEF LockHeld
    <3>2. call'[d].by = call[d].by /\ call'[d].policy = call[d].policy
      BY <2>1
    <3> QED
      BY <1>1, <3>1, <3>2 DEF OpenRequests, BookingsOf
  <2>6. \A d, e \in Calls :
          call'[d].op = "insert" /\ call'[e].op = "insert" /\ call'[d].by = call'[e].by => d = e
    BY <2>1, <2>2 DEF LockHeld
  <2> QED
    BY <2>4, <2>5, <2>6 DEF LockHeld
<1> QED
  BY <1>2, <1>3 DEF LockAndCount

LEMMA LimitStep ==
  ASSUME TypeInv, LockHeld, OpenRequestLimit, [Next]_vars
  PROVE  LockHeld' /\ OpenRequestLimit'
<1>1. CASE UNCHANGED vars
  BY <1>1, LimitKept DEF vars
<1>2. CASE Manage \/ Tick
  <2>1. UNCHANGED <<booking, call>>
    BY <1>2 DEF Manage, UpdateLab, SetLabHours, AddBlackout, RemoveBlackout, AddLabStaff,
                RemoveLabStaff, Tick, rows
  <2> QED
    BY <2>1, LimitKept
<1>3. ASSUME NEW c \in Calls, Begin(c)
      PROVE  LockHeld' /\ OpenRequestLimit'
  BY <1>3, BeginReads, LimitKept
<1>4. ASSUME NEW c \in Calls, End(c) \/ Crash(c)
      PROVE  LockHeld' /\ OpenRequestLimit'
  <2>1. Finish(c) /\ (UNCHANGED booking \/ Created(c) \/ Updated(c))
    BY <1>4, EndRows DEF Crash, rows
  <2> QED
    BY <2>1, LimitFinish
<1> QED
  BY <1>1, <1>2, <1>3, <1>4, LimitLock DEF Next

LEMMA LimitStart == Init => LockHeld /\ OpenRequestLimit
<1> SUFFICES ASSUME Init PROVE LockHeld /\ OpenRequestLimit
  OBVIOUS
<1>1. LockHeld
  BY DEF Init, LockHeld, Idle
<1>2. ASSUME NEW p
      PROVE  OpenRequests(p) = 0
  <2>1. Open(p) = {}
    BY DEF Init, Open, BookingsOf, NoBooking
  <2> QED
    BY <2>1, OpenCount, FS_EmptySet
<1>3. PICK policy \in Policies : policy.maxOpenRequests \in Nat
  BY LimitAssumption
<1> QED
  BY <1>1, <1>2, <1>3 DEF OpenRequestLimit

\* Nobody ever holds more open requests than the largest limit the lab has had, with any number of tabs
\* open: the request that inserts has counted, and holds the lock of the user's row since.
THEOREM LimitHolds == Spec => []OpenRequestLimit
BY TypeInit, TypeNext, LimitStart, LimitStep, PTL DEF Spec

-----------------------------------------------------------------------------
(* The time that bookings use, summed up. *)

\* Among sets of parts of a finite set there is a smallest one: what stands in for induction below.
LEMMA Least ==
  ASSUME NEW S, IsFiniteSet(S), NEW F, F \subseteq SUBSET S, F # {}
  PROVE  \E T \in F : \A U \in F : U \subseteq T => U = T
<1>1. F \subseteq FiniteSubsetsOf(S)
  BY FS_Subset DEF FiniteSubsetsOf
<1>2. IsWellFoundedOn(StrictSubsetOrdering(S), FiniteSubsetsOf(S))
  BY FS_StrictSubsetOrderingWellFounded
<1>3. PICK T \in F : \A U \in F : ~ (<<U, T>> \in StrictSubsetOrdering(S))
  <2> HIDE DEF IsWellFoundedOn, StrictSubsetOrdering, FiniteSubsetsOf
  <2> QED
    BY <1>1, <1>2, WFMin, Zenon
<1>4. ASSUME NEW U \in F, U \subseteq T, U # T
      PROVE  FALSE
  BY <1>3, <1>4 DEF StrictSubsetOrdering
<1> QED
  BY <1>4

Any(S) == CHOOSE x \in S : TRUE

LEMMA AnyOf ==
  ASSUME NEW S, S # {}
  PROVE  Any(S) \in S
  BY DEF Any

\* The function that UsedInWeek sums with, on the parts of S: one element after the other.
SumAt(iter, slotOf, s) == IF s = {} THEN 0 ELSE Duration(slotOf[Any(s)]) + iter[s \ {Any(s)}]

IsSum(iter, slotOf, S) == iter = [s \in SUBSET S |-> SumAt(iter, slotOf, s)]

Total(slotOf, S) == (CHOOSE iter : IsSum(iter, slotOf, S))[S]

\* The bookings of B in the week of s.
InWeek(B, slotOf, s) == { b \in B : WeekStart(slotOf[b].start) = WeekStart(s.start) }

LEMMA UsedIsTotal ==
  ASSUME NEW B, NEW slotOf, NEW s
  PROVE  UsedInWeek(B, slotOf, s) = Total(slotOf, InWeek(B, slotOf, s))
  BY DEF UsedInWeek, MapThenSumSet, MapThenFoldSet, Total, IsSum, SumAt, Any, InWeek

LEMMA SumValue ==
  ASSUME NEW slotOf, NEW S, NEW iter, IsSum(iter, slotOf, S), NEW s \in SUBSET S
  PROVE  iter[s] = SumAt(iter, slotOf, s)
<1>1. iter = [r \in SUBSET S |-> SumAt(iter, slotOf, r)]
  BY DEF IsSum
<1> QED
  BY <1>1

\* There is one such sum at most.
LEMMA SumUnique ==
  ASSUME NEW slotOf, NEW S, NEW R, NEW g, NEW h, IsSum(g, slotOf, S), IsSum(h, slotOf, R),
         NEW U, IsFiniteSet(U), U \subseteq S, U \subseteq R
  PROVE  g[U] = h[U]
<1> DEFINE Differ == { V \in SUBSET U : g[V] # h[V] }
<1>1. SUFFICES ASSUME Differ # {}
               PROVE  FALSE
  <2>1. U \in SUBSET U
    OBVIOUS
  <2> QED
    BY <2>1
<1>2. PICK V \in Differ : \A W \in Differ : W \subseteq V => W = V
  <2>1. Differ \subseteq SUBSET U
    OBVIOUS
  <2> HIDE DEF Differ
  <2> QED
    BY <1>1, <2>1, Least
<1>3. V \in SUBSET S /\ V \in SUBSET R /\ V \in SUBSET U /\ g[V] # h[V]
  BY <1>2
<1>4. g[V] = SumAt(g, slotOf, V) /\ h[V] = SumAt(h, slotOf, V)
  BY <1>3, SumValue
<1>5. V # {}
  BY <1>3, <1>4 DEF SumAt
<1>6. g[V \ {Any(V)}] = h[V \ {Any(V)}]
  BY <1>2, <1>3, <1>5, AnyOf
<1> QED
  BY <1>3, <1>4, <1>5, <1>6 DEF SumAt

LEMMA SumPart ==
  ASSUME NEW slotOf, NEW S, NEW g, IsSum(g, slotOf, S), NEW T \in SUBSET S
  PROVE  \E h : IsSum(h, slotOf, T)
<1> DEFINE h == [s \in SUBSET T |-> g[s]]
<1>1. ASSUME NEW s \in SUBSET T
      PROVE  g[s] = SumAt(h, slotOf, s)
  <2>1. s \in SUBSET S /\ s \ {Any(s)} \in SUBSET T
    OBVIOUS
  <2>2. h[s \ {Any(s)}] = g[s \ {Any(s)}]
    BY <2>1
  <2>3. g[s] = SumAt(g, slotOf, s)
    BY <2>1, SumValue
  <2> HIDE DEF h
  <2> QED
    BY <2>2, <2>3 DEF SumAt
<1>2. h = [s \in SUBSET T |-> SumAt(h, slotOf, s)]
  <2>1. [s \in SUBSET T |-> g[s]] = [s \in SUBSET T |-> SumAt(h, slotOf, s)]
    <3> HIDE DEF h
    <3> QED
      BY <1>1
  <2> QED
    BY <2>1
<1> QED
  BY <1>2 DEF IsSum

\* Where there is a sum, Total is it, one element at a time.
LEMMA TotalUnfolds ==
  ASSUME NEW slotOf, NEW S, IsFiniteSet(S), \E g : IsSum(g, slotOf, S)
  PROVE  Total(slotOf, S) = IF S = {} THEN 0 ELSE Duration(slotOf[Any(S)]) + Total(slotOf, S \ {Any(S)})
<1> DEFINE g == CHOOSE iter : IsSum(iter, slotOf, S)
           T == S \ {Any(S)}
           h == CHOOSE iter : IsSum(iter, slotOf, T)
<1>1. IsSum(g, slotOf, S)
  OBVIOUS
<1>2. T \in SUBSET S /\ IsFiniteSet(T)
  BY FS_Subset
<1>3. \E f : IsSum(f, slotOf, T)
  <2> HIDE DEF g
  <2> QED
    BY <1>1, <1>2, SumPart
<1>4. IsSum(h, slotOf, T)
  BY <1>3
<1>5. Total(slotOf, S) = g[S] /\ Total(slotOf, T) = h[T]
  BY DEF Total
<1> HIDE DEF g, h
<1>6. g[T] = h[T]
  BY <1>1, <1>2, <1>4, SumUnique
<1>7. S \in SUBSET S
  OBVIOUS
<1>8. g[S] = SumAt(g, slotOf, S)
  BY <1>1, <1>7, SumValue
<1> QED
  BY <1>5, <1>6, <1>8 DEF SumAt

LEMMA SumExists ==
  ASSUME NEW slotOf, NEW S, IsFiniteSet(S)
  PROVE  \E g : IsSum(g, slotOf, S)
<1> DEFINE Without == { T \in SUBSET S : ~ \E g : IsSum(g, slotOf, T) }
<1>1. SUFFICES ASSUME Without # {}
               PROVE  FALSE
  <2>1. S \in SUBSET S
    OBVIOUS
  <2> QED
    BY <2>1
<1>2. PICK T \in Without : \A U \in Without : U \subseteq T => U = T
  <2>1. Without \subseteq SUBSET S
    OBVIOUS
  <2> HIDE DEF Without
  <2> QED
    BY <1>1, <2>1, Least
<1>3. ASSUME NEW U \in SUBSET T, U # T
      PROVE  IsFiniteSet(U) /\ \E g : IsSum(g, slotOf, U)
  <2>1. U \in SUBSET S
    BY <1>2
  <2> QED
    BY <1>2, <1>3, <2>1, FS_Subset
<1> DEFINE sum(s) == IF s = {} THEN 0 ELSE Duration(slotOf[Any(s)]) + Total(slotOf, s \ {Any(s)})
           g == [s \in SUBSET T |-> sum(s)]
<1>4. ASSUME NEW s \in SUBSET T, s # {}
      PROVE  g[s \ {Any(s)}] = Total(slotOf, s \ {Any(s)})
  <2>1. s \ {Any(s)} \in SUBSET T /\ s \ {Any(s)} # T
    BY <1>4, AnyOf
  <2>2. Total(slotOf, s \ {Any(s)}) = sum(s \ {Any(s)})
    BY <1>3, <2>1, TotalUnfolds
  <2> HIDE DEF sum
  <2> QED
    BY <2>1, <2>2
<1>5. \A s \in SUBSET T : sum(s) = SumAt(g, slotOf, s)
  <2> HIDE DEF g
  <2> QED
    BY <1>4 DEF SumAt
<1>6. g = [s \in SUBSET T |-> SumAt(g, slotOf, s)]
  <2>1. [s \in SUBSET T |-> sum(s)] = [s \in SUBSET T |-> SumAt(g, slotOf, s)]
    <3> HIDE DEF g, sum
    <3> QED
      BY <1>5
  <2> QED
    BY <2>1
<1>7. IsSum(g, slotOf, T)
  BY <1>6 DEF IsSum
<1> HIDE DEF g
<1> QED
  BY <1>2, <1>7

LEMMA TotalValue ==
  ASSUME NEW slotOf, NEW S, IsFiniteSet(S)
  PROVE  Total(slotOf, S) = IF S = {} THEN 0 ELSE Duration(slotOf[Any(S)]) + Total(slotOf, S \ {Any(S)})
  BY SumExists, TotalUnfolds

\* Durations of a set of bookings that are natural numbers.
Lasting(slotOf, S) == \A b \in S : Duration(slotOf[b]) \in Nat

LEMMA TotalType ==
  ASSUME NEW slotOf, NEW S, IsFiniteSet(S), Lasting(slotOf, S)
  PROVE  Total(slotOf, S) \in Nat
<1> DEFINE Bad == { T \in SUBSET S : Total(slotOf, T) \notin Nat }
<1>1. SUFFICES ASSUME Bad # {}
               PROVE  FALSE
  <2>1. S \in SUBSET S
    OBVIOUS
  <2> QED
    BY <2>1
<1>2. PICK T \in Bad : \A U \in Bad : U \subseteq T => U = T
  <2>1. Bad \subseteq SUBSET S
    OBVIOUS
  <2> HIDE DEF Bad
  <2> QED
    BY <1>1, <2>1, Least
<1>3. T \in SUBSET S /\ IsFiniteSet(T) /\ Total(slotOf, T) \notin Nat
  BY <1>2, FS_Subset
<1>4. T # {} /\ Total(slotOf, T) = Duration(slotOf[Any(T)]) + Total(slotOf, T \ {Any(T)})
  BY <1>3, TotalValue
<1>5. Any(T) \in T
  BY <1>4, AnyOf
<1>6. Total(slotOf, T \ {Any(T)}) \in Nat
  <2>1. T \ {Any(T)} \in SUBSET S /\ T \ {Any(T)} \subseteq T /\ T \ {Any(T)} # T
    BY <1>3, <1>5
  <2> QED
    BY <1>2, <2>1
<1>7. Duration(slotOf[Any(T)]) \in Nat
  BY <1>3, <1>5 DEF Lasting
<1> QED
  BY <1>3, <1>4, <1>6, <1>7

\* Any element may be taken out first.
LEMMA TotalWithout ==
  ASSUME NEW slotOf, NEW S, IsFiniteSet(S), Lasting(slotOf, S), NEW x \in S
  PROVE  Total(slotOf, S) = Duration(slotOf[x]) + Total(slotOf, S \ {x})
<1> DEFINE Bad == { T \in SUBSET S : \E y \in T : Total(slotOf, T) # Duration(slotOf[y]) + Total(slotOf, T \ {y}) }
<1>1. SUFFICES ASSUME Bad # {}
               PROVE  FALSE
  <2>1. S \in SUBSET S
    OBVIOUS
  <2> QED
    BY <2>1
<1>2. PICK T \in Bad : \A U \in Bad : U \subseteq T => U = T
  <2>1. Bad \subseteq SUBSET S
    OBVIOUS
  <2> HIDE DEF Bad
  <2> QED
    BY <1>1, <2>1, Least
<1>3. T \in SUBSET S /\ IsFiniteSet(T)
  BY <1>2, FS_Subset
<1>4. PICK y \in T : Total(slotOf, T) # Duration(slotOf[y]) + Total(slotOf, T \ {y})
  BY <1>2
<1>5. ASSUME NEW z \in T
      PROVE  /\ T \ {z} \in SUBSET S /\ IsFiniteSet(T \ {z})
             /\ \A w \in T \ {z} : Total(slotOf, T \ {z}) = Duration(slotOf[w]) + Total(slotOf, (T \ {z}) \ {w})
  <2>1. T \ {z} \in SUBSET S /\ T \ {z} \subseteq T /\ T \ {z} # T
    BY <1>3, <1>5
  <2>2. T \ {z} \notin Bad
    BY <1>2, <2>1
  <2>3. IsFiniteSet(T \ {z})
    BY <2>1, FS_Subset
  <2> QED
    BY <2>1, <2>2, <2>3
<1> DEFINE c == Any(T)
<1>6. c \in T /\ Total(slotOf, T) = Duration(slotOf[c]) + Total(slotOf, T \ {c})
  BY <1>3, <1>4, TotalValue, AnyOf
<1> HIDE DEF c
<1>7. y # c
  BY <1>4, <1>6
<1>8. /\ Total(slotOf, T \ {c}) = Duration(slotOf[y]) + Total(slotOf, (T \ {c}) \ {y})
      /\ Total(slotOf, T \ {y}) = Duration(slotOf[c]) + Total(slotOf, (T \ {y}) \ {c})
  BY <1>5, <1>6, <1>7
<1>9. (T \ {c}) \ {y} = (T \ {y}) \ {c}
  OBVIOUS
<1>10. Total(slotOf, (T \ {c}) \ {y}) \in Nat
  <2>1. (T \ {c}) \ {y} \in SUBSET S
    BY <1>3
  <2>2. IsFiniteSet((T \ {c}) \ {y}) /\ Lasting(slotOf, (T \ {c}) \ {y})
    BY <2>1, FS_Subset DEF Lasting
  <2> QED
    BY <2>2, TotalType
<1>11. Duration(slotOf[y]) \in Nat /\ Duration(slotOf[c]) \in Nat
  BY <1>3, <1>6 DEF Lasting
<1> DEFINE dy == Duration(slotOf[y])
           dc == Duration(slotOf[c])
           rest == Total(slotOf, (T \ {c}) \ {y})
<1>12. dy \in Nat /\ dc \in Nat /\ rest \in Nat
  BY <1>10, <1>11
<1>13. Total(slotOf, T) = dc + (dy + rest) /\ Total(slotOf, T \ {y}) = dc + rest
  BY <1>6, <1>8, <1>9
<1>14. Total(slotOf, T) # dy + Total(slotOf, T \ {y})
  BY <1>4
<1> HIDE DEF dy, dc, rest
<1> QED
  BY <1>12, <1>13, <1>14

\* The total depends on the slots of these bookings alone.
LEMMA TotalSame ==
  ASSUME NEW slotOf, NEW other, NEW S, IsFiniteSet(S), \A b \in S : slotOf[b] = other[b]
  PROVE  Total(slotOf, S) = Total(other, S)
<1> DEFINE Bad == { T \in SUBSET S : Total(slotOf, T) # Total(other, T) }
<1>1. SUFFICES ASSUME Bad # {}
               PROVE  FALSE
  <2>1. S \in SUBSET S
    OBVIOUS
  <2> QED
    BY <2>1
<1>2. PICK T \in Bad : \A U \in Bad : U \subseteq T => U = T
  <2>1. Bad \subseteq SUBSET S
    OBVIOUS
  <2> HIDE DEF Bad
  <2> QED
    BY <1>1, <2>1, Least
<1>3. T \in SUBSET S /\ IsFiniteSet(T) /\ Total(slotOf, T) # Total(other, T)
  BY <1>2, FS_Subset
<1>4. /\ Total(slotOf, T) = IF T = {} THEN 0 ELSE Duration(slotOf[Any(T)]) + Total(slotOf, T \ {Any(T)})
      /\ Total(other, T) = IF T = {} THEN 0 ELSE Duration(other[Any(T)]) + Total(other, T \ {Any(T)})
  BY <1>3, TotalValue
<1>5. T # {}
  BY <1>3, <1>4
<1>6. Any(T) \in T
  BY <1>5, AnyOf
<1>7. Total(slotOf, T \ {Any(T)}) = Total(other, T \ {Any(T)})
  <2>1. T \ {Any(T)} \in SUBSET S /\ T \ {Any(T)} \subseteq T /\ T \ {Any(T)} # T
    BY <1>3, <1>6
  <2> QED
    BY <1>2, <2>1
<1> QED
  BY <1>3, <1>4, <1>5, <1>6, <1>7

\* Fewer bookings last no longer.
LEMMA TotalGrows ==
  ASSUME NEW slotOf, NEW S, IsFiniteSet(S), Lasting(slotOf, S), NEW R \in SUBSET S
  PROVE  Total(slotOf, R) <= Total(slotOf, S)
<1> DEFINE Bad == { T \in SUBSET S : R \subseteq T /\ ~ (Total(slotOf, R) <= Total(slotOf, T)) }
<1>1. SUFFICES ASSUME Bad # {}
               PROVE  FALSE
  <2>1. S \in SUBSET S
    OBVIOUS
  <2> QED
    BY <2>1
<1>2. PICK T \in Bad : \A U \in Bad : U \subseteq T => U = T
  <2>1. Bad \subseteq SUBSET S
    OBVIOUS
  <2> HIDE DEF Bad
  <2> QED
    BY <1>1, <2>1, Least
<1>3. T \in SUBSET S /\ IsFiniteSet(T) /\ R \subseteq T /\ ~ (Total(slotOf, R) <= Total(slotOf, T))
  BY <1>2, FS_Subset
<1>4. \A U \in SUBSET S : IsFiniteSet(U) /\ Lasting(slotOf, U) /\ Total(slotOf, U) \in Nat
  BY FS_Subset, TotalType DEF Lasting
<1>5. T # R
  BY <1>3, <1>4
<1>6. PICK x \in T : x \notin R
  BY <1>3, <1>5
<1>7. Total(slotOf, T) = Duration(slotOf[x]) + Total(slotOf, T \ {x})
  BY <1>3, <1>4, TotalWithout
<1>8. T \ {x} \in SUBSET S /\ R \subseteq T \ {x} /\ T \ {x} \subseteq T /\ T \ {x} # T
  BY <1>3, <1>6
<1>9. Total(slotOf, R) <= Total(slotOf, T \ {x})
  BY <1>2, <1>8
<1>10. Duration(slotOf[x]) \in Nat
  BY <1>3 DEF Lasting
<1>11. Total(slotOf, R) \in Nat /\ Total(slotOf, T \ {x}) \in Nat
  BY <1>4, <1>8
<1> QED
  BY <1>3, <1>7, <1>9, <1>10, <1>11

-----------------------------------------------------------------------------
(* The weekly cap, which is summed up under the lock of the user's row. *)

Counted(p) == BookingsOf(p, LiveStatuses \cup {"completed"})

\* The bookings of p that count in the week of s.
ThatWeek(p, s) == InWeek(Counted(p), SlotOf, s)

\* Every slot, of a row or at hand, runs forward.
SlotsForward ==
  /\ \A b \in BookingIds : Forward(booking[b].slot)
  /\ \A c \in Calls : Forward(call[c].slot)

\* What the holder of the row lock has summed up leaves room for its slot, unless its booker has accepted a
\* proposal.
CapHeld ==
  \A c \in Calls :
    call[c].op = "insert" /\ Rebooked(call[c].by) = {} =>
      WeekOf(call[c].by, call[c].slot) + Duration(call[c].slot) <= call[c].policy.maxPerWeek

CapInv == SlotsForward /\ CapHeld /\ WeeklyCap

LEMMA ForwardLasts ==
  ASSUME NEW s \in Slots, Forward(s)
  PROVE  Duration(s) \in Nat
  BY DEF Slots, Forward, Duration

LEMMA SlotsLast ==
  ASSUME TypeInv, SlotsForward
  PROVE  /\ \A b \in BookingIds : SlotOf[b] = booking[b].slot /\ Duration(SlotOf[b]) \in Nat
         /\ \A c \in Calls : Duration(call[c].slot) \in Nat
<1>1. ASSUME NEW b \in BookingIds
      PROVE  SlotOf[b] = booking[b].slot /\ Duration(SlotOf[b]) \in Nat
  <2>1. booking[b].slot \in Slots /\ Forward(booking[b].slot)
    BY DEF TypeInv, TypeOK, Booking, SlotsForward
  <2>2. SlotOf[b] = booking[b].slot
    BY DEF SlotOf
  <2> QED
    BY <2>1, <2>2, ForwardLasts
<1>2. ASSUME NEW c \in Calls
      PROVE  Duration(call[c].slot) \in Nat
  <2>1. call[c].slot \in Slots /\ Forward(call[c].slot)
    BY DEF TypeInv, TypeOK, Call, SlotsForward
  <2> QED
    BY <2>1, ForwardLasts
<1> QED
  BY <1>1, <1>2

\* What is to be known of the week of s, and of the bookings of p that count in it.
WeekKnown(p, s) ==
  /\ WeekOf(p, s) = Total(SlotOf, ThatWeek(p, s)) /\ WeekOf(p, s) \in Nat
  /\ ThatWeek(p, s) \subseteq BookingIds /\ IsFiniteSet(ThatWeek(p, s))
  /\ Lasting(SlotOf, ThatWeek(p, s))
  /\ \A b : b \in ThatWeek(p, s) <=>
       b \in Counted(p) /\ WeekStart(booking[b].slot.start) = WeekStart(s.start)

LEMMA WeekFacts == \A p, s : TypeInv /\ SlotsForward => WeekKnown(p, s)
<1> SUFFICES ASSUME TypeInv, SlotsForward, NEW p, NEW s
             PROVE  WeekKnown(p, s)
  OBVIOUS
<1>1. WeekOf(p, s) = Total(SlotOf, ThatWeek(p, s))
  BY UsedIsTotal DEF WeekOf, ThatWeek, Counted
<1>2. Counted(p) \subseteq BookingIds
  BY DEF Counted, BookingsOf
<1>3. \A b : b \in ThatWeek(p, s) <=>
              b \in Counted(p) /\ WeekStart(booking[b].slot.start) = WeekStart(s.start)
  BY <1>2, SlotsLast DEF ThatWeek, InWeek
<1>4. ThatWeek(p, s) \subseteq BookingIds
  BY <1>2, <1>3
<1>5. IsFiniteSet(ThatWeek(p, s))
  BY <1>4, FS_Subset, LimitAssumption
<1>6. Lasting(SlotOf, ThatWeek(p, s))
  BY <1>4, SlotsLast DEF Lasting
<1>7. WeekOf(p, s) \in Nat
  BY <1>1, <1>5, <1>6, TotalType
<1> QED
  BY <1>1, <1>3, <1>4, <1>5, <1>6, <1>7 DEF WeekKnown

LEMMA WeekFactsAfter == (\A p, s : TypeInv /\ SlotsForward => WeekKnown(p, s))'
  BY WeekFacts, PTL

\* Slots of the same week have the same bookings in it.
LEMMA SameWeek ==
  ASSUME NEW p, NEW s, NEW r, WeekStart(s.start) = WeekStart(r.start)
  PROVE  WeekOf(p, s) = WeekOf(p, r)
<1>1. InWeek(Counted(p), SlotOf, s) = InWeek(Counted(p), SlotOf, r)
  BY DEF InWeek
<1> QED
  BY <1>1, UsedIsTotal DEF WeekOf, Counted

\* A week in which p has no other bookings than before.
LEMMA WeekNoMore ==
  ASSUME TypeInv, SlotsForward, TypeInv', SlotsForward', NEW p, NEW s,
         \A b \in ThatWeek(p, s)' : b \in Counted(p) /\ booking'[b].slot = booking[b].slot
  PROVE  WeekOf(p, s)' \in Nat /\ WeekOf(p, s)' <= WeekOf(p, s)
<1> DEFINE now_ == ThatWeek(p, s)
           then == ThatWeek(p, s)'
           slots == SlotOf
           later == SlotOf'
<1>1. /\ WeekOf(p, s)' = Total(later, then) /\ WeekOf(p, s)' \in Nat
      /\ then \subseteq BookingIds /\ IsFiniteSet(then)
      /\ \A b : b \in then <=>
              b \in Counted(p)' /\ WeekStart(booking'[b].slot.start) = WeekStart(s.start)
  BY WeekFactsAfter DEF WeekKnown
<1>2. WeekOf(p, s) = Total(slots, now_) /\ IsFiniteSet(now_) /\ Lasting(slots, now_)
  BY WeekFacts DEF WeekKnown
<1>3. then \subseteq now_
  BY <1>1, WeekFacts DEF WeekKnown
<1>4. \A b \in then : later[b] = slots[b]
  BY <1>1 DEF SlotOf
<1> HIDE DEF now_, then, slots, later
<1>5. Total(later, then) = Total(slots, then)
  BY <1>1, <1>4, TotalSame
<1>6. Total(slots, then) <= Total(slots, now_)
  BY <1>2, <1>3, TotalGrows
<1> QED
  BY <1>1, <1>2, <1>5, <1>6

\* A week in which p has one booking more.
LEMMA WeekOneMore ==
  ASSUME TypeInv, SlotsForward, TypeInv', SlotsForward', NEW p, NEW s, NEW n \in BookingIds,
         n \in ThatWeek(p, s)',
         \A b \in ThatWeek(p, s)' \ {n} : b \in Counted(p) /\ booking'[b].slot = booking[b].slot
  PROVE  WeekOf(p, s)' <= WeekOf(p, s) + Duration(booking'[n].slot)
<1> DEFINE now_ == ThatWeek(p, s)
           then == ThatWeek(p, s)'
           slots == SlotOf
           later == SlotOf'
           rest == then \ {n}
<1>1. /\ WeekOf(p, s)' = Total(later, then) /\ then \subseteq BookingIds /\ IsFiniteSet(then)
      /\ Lasting(later, then)
      /\ \A b : b \in then <=>
              b \in Counted(p)' /\ WeekStart(booking'[b].slot.start) = WeekStart(s.start)
  BY WeekFactsAfter DEF WeekKnown
<1>2. WeekOf(p, s) = Total(slots, now_) /\ IsFiniteSet(now_) /\ Lasting(slots, now_) /\ WeekOf(p, s) \in Nat
  BY WeekFacts DEF WeekKnown
<1>3. rest \subseteq now_
  BY <1>1, WeekFacts DEF WeekKnown
<1>4. \A b \in rest : later[b] = slots[b]
  BY <1>1 DEF SlotOf
<1>5. later[n] = booking'[n].slot /\ n \in then /\ Duration(later[n]) \in Nat
  BY <1>1 DEF SlotOf, Lasting
<1> HIDE DEF now_, then, slots, later
<1>6. Total(later, then) = Duration(later[n]) + Total(later, rest)
  BY <1>1, <1>5, TotalWithout
<1>7. IsFiniteSet(rest) /\ Lasting(later, rest)
  BY <1>1, FS_Subset DEF Lasting
<1>8. Total(later, rest) = Total(slots, rest) /\ Total(later, rest) \in Nat
  BY <1>4, <1>7, TotalSame, TotalType
<1>9. Total(slots, rest) <= Total(slots, now_)
  BY <1>2, <1>3, TotalGrows
<1> HIDE DEF rest
<1> QED
  BY <1>1, <1>2, <1>5, <1>6, <1>8, <1>9

\* A row that is free has no trail.
LEMMA FreeUntouched ==
  ASSUME TypeInv, AuditTrail, NEW b \in BookingIds, booking[b].status = "none"
  PROVE  audit[b] = <<>>
<1>1. audit[b] \in Seq(AuditRow)
  BY DEF TypeInv, TypeOK
<1>2. audit[b] # <<>> => audit[b][Len(audit[b])] \in AuditRow
  BY <1>1
<1> QED
  BY <1>2 DEF AuditTrail, AuditRow, Statuses

\* The booking b took the time of an accepted proposal.
Took(b) == \E i \in 1 .. Len(audit[b]) : audit[b][i].before = "alternative_proposed" /\ audit[b][i].after = "approved"

LEMMA RebookedTook ==
  ASSUME NEW p
  PROVE  Rebooked(p) = { b \in BookingIds : booking[b].user = p /\ Took(b) }
  BY DEF Rebooked, Took

\* The trail that an update leaves.
LEMMA UpdatedTrail ==
  ASSUME TypeInv, NEW c \in Calls, Updated(c)
  PROVE  /\ \A b \in BookingIds : Took(b) => Took(b)'
         /\ \A b \in BookingIds : call[c].op = "accept" /\ b = call[c].id => Took(b)'
<1> DEFINE q == call[c]
           new == [by |-> q.by, before |-> q.from, after |-> Result[q.op]]
           trail == audit[q.id]
<1>1. /\ q.id \in BookingIds /\ trail \in Seq(AuditRow) /\ audit \in [BookingIds -> Seq(AuditRow)]
      /\ q.op \in Updates /\ q.by \in Persons /\ q.from \in ReadStatus[q.op]
  BY DEF Updated, TypeInv, TypeOK, CallsKnow
<1>2. CASE q.op = "cancel" /\ UNCHANGED audit
  BY <1>2 DEF Took
<1>3. CASE audit' = [audit EXCEPT ![q.id] = Append(@, new)]
  <2>1. audit'[q.id] = Append(trail, new) /\ \A x \in BookingIds \ {q.id} : audit'[x] = audit[x]
    BY <1>1, <1>3
  <2>2. new \in AuditRow /\ new.before = q.from /\ new.after = Result[q.op]
    BY <1>1 DEF AuditRow, Statuses, ReadStatus, Updates, Result
  <2> DEFINE longer == Append(trail, new)
  <2> HIDE DEF new
  <2>3. /\ Len(trail) \in Nat /\ Len(longer) = Len(trail) + 1 /\ longer[Len(trail) + 1] = new
        /\ \A i \in 1 .. Len(trail) : longer[i] = trail[i]
    BY <1>1, <2>2
  <2> HIDE DEF longer, trail
  <2>4. audit'[q.id] = longer /\ audit[q.id] = trail
    BY <2>1 DEF longer, trail
  <2>5. ASSUME NEW b \in BookingIds, Took(b)
        PROVE  Took(b)'
    <3>1. CASE b = q.id
      <4>1. PICK i \in 1 .. Len(trail) : trail[i].before = "alternative_proposed" /\ trail[i].after = "approved"
        BY <2>4, <2>5, <3>1 DEF Took
      <4>2. i \in 1 .. Len(longer) /\ longer[i] = trail[i]
        BY <2>3
      <4> QED
        BY <2>4, <3>1, <4>1, <4>2 DEF Took
    <3>2. CASE b # q.id
      BY <2>1, <2>5, <3>2 DEF Took
    <3> QED
      BY <3>1, <3>2
  <2>6. ASSUME NEW b \in BookingIds, q.op = "accept", b = q.id
        PROVE  Took(b)'
    <3>1. q.from = "alternative_proposed" /\ Result[q.op] = "approved"
      BY <1>1, <2>6 DEF ReadStatus, Result
    <3>2. Len(longer) \in 1 .. Len(longer) /\ longer[Len(longer)] = new
      BY <2>3
    <3>3. longer[Len(longer)].before = "alternative_proposed" /\ longer[Len(longer)].after = "approved"
      BY <2>2, <3>1, <3>2
    <3>4. \E i \in 1 .. Len(longer) : longer[i].before = "alternative_proposed" /\ longer[i].after = "approved"
      BY <3>2, <3>3
    <3> QED
      BY <2>4, <2>6, <3>4 DEF Took
  <2> QED
    BY <2>5, <2>6
<1> QED
  BY <1>2, <1>3 DEF Updated

\* Who has accepted a proposal has for ever.
LEMMA RebookedStays ==
  ASSUME TypeInv, AuditTrail, NEW c \in Calls, UNCHANGED <<booking, audit>> \/ Created(c) \/ Updated(c),
         NEW p, Rebooked(p)' = {}
  PROVE  Rebooked(p) = {}
<1>1. ASSUME NEW b \in Rebooked(p)
      PROVE  FALSE
  <2>1. b \in BookingIds /\ booking[b].user = p /\ Took(b)
    BY <1>1, RebookedTook
  <2>2. SUFFICES booking'[b].user = p /\ Took(b)'
    BY <2>1 DEF Rebooked, Took
  <2>3. CASE UNCHANGED <<booking, audit>>
    BY <2>1, <2>3 DEF Took
  <2>4. CASE Created(c)
    <3>1. booking[b].status # "none"
      <4>1. SUFFICES ASSUME booking[b].status = "none"
                     PROVE  FALSE
        OBVIOUS
      <4>2. audit[b] = <<>>
        BY <2>1, <4>1, FreeUntouched
      <4> QED
        BY <2>1, <4>2 DEF Took
    <3>2. booking'[b] = booking[b] /\ audit' = audit
      BY <2>1, <2>4, <3>1 DEF Created
    <3> QED
      BY <2>1, <3>2 DEF Took
  <2>5. CASE Updated(c)
    <3>1. Took(b)'
      BY <2>1, <2>5, UpdatedTrail
    <3>2. booking'[b].user = booking[b].user
      BY <2>1, <2>5 DEF Updated
    <3> QED
      BY <2>1, <3>1, <3>2
  <2> QED
    BY <2>3, <2>4, <2>5
<1> QED
  BY <1>1

\* What counts for p after a step: for one who has accepted nothing, only an insert adds to it, and no slot
\* moves.
LEMMA CountedAfter ==
  ASSUME TypeInv, NEW c \in Calls, UNCHANGED booking \/ Created(c) \/ Updated(c), NEW p, Rebooked(p)' = {},
         NEW b \in Counted(p)', ~(Created(c) /\ p = call[c].by)
  PROVE  b \in Counted(p) /\ booking'[b].slot = booking[b].slot
<1>1. b \in BookingIds /\ booking'[b].user = p /\ booking'[b].status \in LiveStatuses \cup {"completed"}
  BY DEF Counted, BookingsOf
<1>2. CASE booking'[b] = booking[b]
  BY <1>1, <1>2 DEF Counted, BookingsOf
<1>3. CASE Created(c) /\ booking'[b] # booking[b]
  BY <1>1, <1>3 DEF Created
<1>4. CASE Updated(c) /\ booking'[b] # booking[b]
  <2>1. /\ b = call[c].id /\ call[c].op \in Updates /\ booking[b].status = call[c].from
        /\ call[c].from \in ReadStatus[call[c].op] /\ booking[b].user = p
        /\ call[c].op # "accept" => booking'[b].slot = booking[b].slot
    BY <1>1, <1>4 DEF Updated, TypeInv, CallsKnow
  <2>2. booking[b].status \in LiveStatuses
    BY <2>1 DEF ReadStatus, Updates, LiveStatuses
  <2>3. call[c].op # "accept"
    <3>1. call[c].op = "accept" => Took(b)'
      BY <1>1, <1>4, <2>1, UpdatedTrail
    <3> QED
      BY <1>1, <3>1 DEF Rebooked, Took
  <2> QED
    BY <1>1, <2>1, <2>2, <2>3 DEF Counted, BookingsOf
<1> QED
  BY <1>2, <1>3, <1>4

LEMMA ForwardFinish ==
  ASSUME TypeInv, SlotsForward, NEW c \in Calls, Finish(c), UNCHANGED booking \/ Created(c) \/ Updated(c)
  PROVE  SlotsForward'
<1>1. \A d \in Calls : Forward(call'[d].slot)
  <2>1. call' = [call EXCEPT ![c] = Idle] /\ call \in [Calls -> Call]
    BY DEF Finish, TypeInv, TypeOK
  <2>2. Idle.slot = NoSlot
    BY DEF Idle
  <2> QED
    BY <2>1, <2>2, NoSlotForward DEF SlotsForward
<1>2. ASSUME NEW b \in BookingIds
      PROVE  Forward(booking'[b].slot)
  <2>1. \/ booking'[b].slot = booking[b].slot
        \/ booking'[b].slot = call[c].slot
    <3>1. CASE UNCHANGED booking
      BY <3>1
    <3>2. CASE Created(c)
      BY <3>2 DEF Created
    <3>3. CASE Updated(c)
      BY <3>3 DEF Updated
    <3> QED
      BY <3>1, <3>2, <3>3
  <2> QED
    BY <2>1 DEF SlotsForward
<1> QED
  BY <1>1, <1>2 DEF SlotsForward

LEMMA CapFinish ==
  ASSUME TypeInv, TypeInv', AuditTrail, LockHeld, CapInv, NEW c \in Calls, Finish(c),
         UNCHANGED <<booking, audit>> \/ Created(c) \/ Updated(c)
  PROVE  CapInv'
<1>0. UNCHANGED booking \/ Created(c) \/ Updated(c)
  OBVIOUS
<1>1. SlotsForward /\ SlotsForward'
  BY <1>0, ForwardFinish DEF CapInv
<1>2. call'[c] = Idle /\ (\A d \in Calls \ {c} : call'[d] = call[d]) /\ Idle.op = "idle"
  BY DEF Finish, TypeInv, TypeOK, Idle
<1>3. \A d \in Calls : call[d].policy \in Policies /\ call[d].policy.maxPerWeek \in Nat
  BY LimitAssumption DEF TypeInv, TypeOK, Call
<1>4. ASSUME NEW p, Rebooked(p)' = {}, ~(Created(c) /\ p = call[c].by), NEW s
      PROVE  WeekOf(p, s)' \in Nat /\ WeekOf(p, s)' <= WeekOf(p, s) /\ WeekOf(p, s) \in Nat
  <2>1. \A b \in ThatWeek(p, s)' : b \in Counted(p) /\ booking'[b].slot = booking[b].slot
    <3>1. ThatWeek(p, s)' \subseteq Counted(p)'
      BY DEF ThatWeek, InWeek
    <3> QED
      BY <1>0, <1>4, <3>1, CountedAfter
  <2>2. WeekOf(p, s)' \in Nat /\ WeekOf(p, s)' <= WeekOf(p, s)
    BY <1>1, <2>1, WeekNoMore
  <2> QED
    BY <1>1, <2>2, WeekFacts DEF WeekKnown
<1>5. ASSUME NEW d \in Calls, (call[d].op = "insert" /\ Rebooked(call[d].by) = {})'
      PROVE  (WeekOf(call[d].by, call[d].slot) + Duration(call[d].slot) <= call[d].policy.maxPerWeek)'
  <2>1. d # c /\ call[d].op = "insert" /\ call'[d] = call[d]
    BY <1>2, <1>5
  <2>2. ASSUME NEW p, p = call[d].by, NEW s, s = call[d].slot
        PROVE  WeekOf(p, s)' + Duration(s) <= call[d].policy.maxPerWeek
    <3>1. Rebooked(p)' = {}
      BY <1>5, <2>1, <2>2
    <3>2. Rebooked(p) = {}
      BY <3>1, RebookedStays
    <3>3. WeekOf(p, s) + Duration(s) <= call[d].policy.maxPerWeek
      BY <2>1, <2>2, <3>2 DEF CapInv, CapHeld
    <3>4. ~(Created(c) /\ p = call[c].by)
      BY <2>1, <2>2 DEF LockHeld, Created
    <3>5. WeekOf(p, s)' \in Nat /\ WeekOf(p, s)' <= WeekOf(p, s) /\ WeekOf(p, s) \in Nat
      BY <1>4, <3>1, <3>4
    <3>6. Duration(s) \in Nat
      BY <1>1, <2>2, SlotsLast
    <3> QED
      BY <1>3, <3>3, <3>5, <3>6
  <2>3. \A p, s : p = call'[d].by /\ s = call'[d].slot => WeekOf(p, s)' + Duration(s) <= call'[d].policy.maxPerWeek
    BY <2>1, <2>2
  <2> QED
    BY <2>3
<1>6. CapHeld'
  BY <1>5 DEF CapHeld
<1>7. ASSUME NEW p \in Members, Rebooked(p)' = {}, NEW b \in Counted(p)', NEW s, s = booking'[b].slot
      PROVE  \E policy \in Policies : WeekOf(p, s)' <= policy.maxPerWeek
  <2>0. Rebooked(p) = {}
    BY <1>7, RebookedStays
  <2>1. CASE ~(Created(c) /\ p = call[c].by)
    <3>1. b \in Counted(p) /\ s = booking[b].slot
      BY <1>0, <1>7, <2>1, CountedAfter
    <3>2. PICK policy \in Policies : WeekOf(p, s) <= policy.maxPerWeek
      BY <2>0, <3>1 DEF CapInv, WeeklyCap, Counted
    <3>3. WeekOf(p, s)' \in Nat /\ WeekOf(p, s)' <= WeekOf(p, s) /\ WeekOf(p, s) \in Nat
      BY <1>4, <1>7, <2>1
    <3>4. policy.maxPerWeek \in Nat
      BY LimitAssumption
    <3> QED
      BY <3>2, <3>3, <3>4
  <2>2. CASE Created(c) /\ p = call[c].by
    <3>1. PICK n \in BookingIds :
            /\ booking[n].status = "none" /\ booking'[n].slot = call[c].slot
            /\ \A x \in BookingIds \ {n} : booking'[x] = booking[x]
      BY <2>2 DEF Created
    <3>2. \A x \in Counted(p)' \ {n} : x \in Counted(p) /\ booking'[x].slot = booking[x].slot
      BY <3>1 DEF Counted, BookingsOf
    <3>3. \A r : ThatWeek(p, r)' \subseteq Counted(p)'
      BY DEF ThatWeek, InWeek
    <3>4. CASE n \in ThatWeek(p, s)'
      <4> DEFINE r == call[c].slot
      <4>1. WeekStart(s.start) = WeekStart(r.start)
        BY <1>1, <3>1, <3>4, WeekFactsAfter DEF WeekKnown
      <4>2. WeekOf(p, s)' <= WeekOf(p, s) + Duration(booking'[n].slot)
        BY <1>1, <3>2, <3>3, <3>4, WeekOneMore
      <4>3. WeekOf(p, s) = WeekOf(p, r)
        BY <4>1, SameWeek
      <4>4. WeekOf(p, r) + Duration(r) <= call[c].policy.maxPerWeek
        BY <2>0, <2>2 DEF CapInv, CapHeld, Created
      <4>5. WeekOf(p, s) \in Nat /\ WeekOf(p, s)' \in Nat
        BY <1>1, WeekFacts, WeekFactsAfter DEF WeekKnown
      <4>6. Duration(r) \in Nat /\ booking'[n].slot = r
        BY <1>1, <3>1, SlotsLast
      <4> HIDE DEF r
      <4>7. WeekOf(p, s)' <= call[c].policy.maxPerWeek
        BY <1>3, <4>2, <4>3, <4>4, <4>5, <4>6
      <4> QED
        BY <1>3, <4>7
    <3>5. CASE n \notin ThatWeek(p, s)'
      <4>1. b \in ThatWeek(p, s)'
        BY <1>1, <1>7, WeekFactsAfter DEF WeekKnown
      <4>2. b \in Counted(p) /\ s = booking[b].slot
        BY <1>7, <3>2, <3>5, <4>1
      <4>3. WeekOf(p, s)' \in Nat /\ WeekOf(p, s)' <= WeekOf(p, s)
        BY <1>1, <3>2, <3>3, <3>5, WeekNoMore
      <4>4. PICK policy \in Policies : WeekOf(p, s) <= policy.maxPerWeek
        BY <2>0, <4>2 DEF CapInv, WeeklyCap, Counted
      <4>5. WeekOf(p, s) \in Nat /\ policy.maxPerWeek \in Nat
        BY <1>1, WeekFacts, LimitAssumption DEF WeekKnown
      <4> QED
        BY <4>3, <4>4, <4>5
    <3> QED
      BY <3>4, <3>5
  <2> QED
    BY <2>1, <2>2
<1>8. WeeklyCap'
  <2> SUFFICES ASSUME NEW p \in Members, Rebooked(p)' = {}, NEW b \in Counted(p)'
               PROVE  \E policy \in Policies : (WeekOf(p, booking[b].slot))' <= policy.maxPerWeek
    BY DEF WeeklyCap, Counted
  <2>1. \A s : s = booking'[b].slot => \E policy \in Policies : WeekOf(p, s)' <= policy.maxPerWeek
    BY <1>7
  <2> QED
    BY <2>1
<1> QED
  BY <1>1, <1>6, <1>8 DEF CapInv

\* Nothing of the cap moves where no row does, as long as no call takes a lock meanwhile.
LEMMA CapKept ==
  ASSUME CapInv, UNCHANGED <<booking, audit>>,
         \A c \in Calls : call'[c] = call[c] \/ (call'[c].op # "insert" /\ Forward(call'[c].slot))
  PROVE  CapInv'
<1>1. /\ \A p, s : WeekOf(p, s)' = WeekOf(p, s)
      /\ \A p : Rebooked(p)' = Rebooked(p) /\ Counted(p)' = Counted(p)
  BY DEF WeekOf, BookingsOf, SlotOf, Rebooked, Counted
<1>2. SlotsForward'
  BY DEF CapInv, SlotsForward
<1>3. \A c \in Calls : call'[c].op = "insert" => call'[c] = call[c]
  OBVIOUS
<1>4. CapHeld'
  BY <1>1, <1>3 DEF CapInv, CapHeld
<1>5. WeeklyCap'
  <2> SUFFICES ASSUME NEW p \in Members, Rebooked(p)' = {}, NEW b \in Counted(p)'
               PROVE  \E policy \in Policies : (WeekOf(p, booking[b].slot))' <= policy.maxPerWeek
    BY DEF WeeklyCap, Counted
  <2>1. Rebooked(p) = {} /\ b \in Counted(p)
    BY <1>1
  <2>2. PICK policy \in Policies : WeekOf(p, booking[b].slot) <= policy.maxPerWeek
    BY <2>1 DEF CapInv, WeeklyCap, Counted
  <2> QED
    BY <1>1, <2>2
<1> QED
  BY <1>2, <1>4, <1>5 DEF CapInv

LEMMA CapLock ==
  ASSUME TypeInv, TypeInv', AuditTrail, LockHeld, CapInv, NEW c \in Calls, LockAndCount(c)
  PROVE  CapInv'
<1>1. UNCHANGED <<booking, audit>>
  BY DEF LockAndCount, rows
<1>2. CASE Finish(c)
  BY <1>1, <1>2, CapFinish
<1>3. CASE WithinLimits(call[c]) /\ call' = [call EXCEPT ![c].op = "insert"]
  <2>1. /\ call'[c].by = call[c].by /\ call'[c].policy = call[c].policy /\ call'[c].slot = call[c].slot
        /\ \A d \in Calls \ {c} : call'[d] = call[d]
    BY <1>3 DEF TypeInv, TypeOK, Call
  <2>2. WeekOf(call[c].by, call[c].slot) + Duration(call[c].slot) <= call[c].policy.maxPerWeek
    BY <1>3 DEF WithinLimits
  <2>3. /\ \A p, s : WeekOf(p, s)' = WeekOf(p, s)
        /\ \A p : Rebooked(p)' = Rebooked(p) /\ Counted(p)' = Counted(p)
    BY <1>1 DEF WeekOf, BookingsOf, SlotOf, Rebooked, Counted
  <2>4. SlotsForward'
    BY <1>1, <2>1 DEF CapInv, SlotsForward
  <2>5. ASSUME NEW d \in Calls, (call[d].op = "insert" /\ Rebooked(call[d].by) = {})'
        PROVE  (WeekOf(call[d].by, call[d].slot) + Duration(call[d].slot) <= call[d].policy.maxPerWeek)'
    <3>1. call'[d].by = call[d].by /\ call'[d].policy = call[d].policy /\ call'[d].slot = call[d].slot
      BY <2>1
    <3>2. Rebooked(call[d].by) = {}
      BY <2>3, <2>5, <3>1
    <3>3. WeekOf(call[d].by, call[d].slot) + Duration(call[d].slot) <= call[d].policy.maxPerWeek
      BY <2>1, <2>2, <2>5, <3>2 DEF CapInv, CapHeld
    <3> QED
      BY <2>3, <3>1, <3>3
  <2>6. CapHeld'
    BY <2>5 DEF CapHeld
  <2>7. WeeklyCap'
    <3> SUFFICES ASSUME NEW p \in Members, Rebooked(p)' = {}, NEW b \in Counted(p)'
                 PROVE  \E policy \in Policies : (WeekOf(p, booking[b].slot))' <= policy.maxPerWeek
      BY DEF WeeklyCap, Counted
    <3>1. Rebooked(p) = {} /\ b \in Counted(p)
      BY <2>3
    <3>2. PICK policy \in Policies : WeekOf(p, booking[b].slot) <= policy.maxPerWeek
      BY <3>1 DEF CapInv, WeeklyCap, Counted
    <3> QED
      BY <1>1, <2>3, <3>2
  <2> QED
    BY <2>4, <2>6, <2>7 DEF CapInv
<1> QED
  BY <1>2, <1>3 DEF LockAndCount

LEMMA CapStep ==
  ASSUME TypeInv, TypeInv', AuditTrail, LockHeld, CapInv, [Next]_vars
  PROVE  CapInv'
<1>1. CASE UNCHANGED vars
  BY <1>1, CapKept DEF vars
<1>2. CASE Manage \/ Tick
  <2>1. UNCHANGED <<booking, audit, call>>
    BY <1>2 DEF Manage, UpdateLab, SetLabHours, AddBlackout, RemoveBlackout, AddLabStaff,
                RemoveLabStaff, Tick, rows
  <2> QED
    BY <2>1, CapKept
<1>3. ASSUME NEW c \in Calls, Begin(c)
      PROVE  CapInv'
  BY <1>3, BeginReads, CapKept
<1>4. ASSUME NEW c \in Calls, End(c) \/ Crash(c)
      PROVE  CapInv'
  <2>1. Finish(c) /\ (UNCHANGED <<booking, audit>> \/ Created(c) \/ Updated(c))
    BY <1>4, EndRows DEF Crash, rows
  <2> QED
    BY <2>1, CapFinish
<1> QED
  BY <1>1, <1>2, <1>3, <1>4, CapLock DEF Next

LEMMA CapStart == Init => CapInv
<1> SUFFICES ASSUME Init PROVE CapInv
  OBVIOUS
<1>1. SlotsForward
  BY NoSlotForward DEF Init, SlotsForward, Idle, NoBooking
<1>2. CapHeld
  BY DEF Init, CapHeld, Idle
<1>3. \A p : BookingsOf(p, LiveStatuses \cup {"completed"}) = {}
  BY DEF Init, BookingsOf, NoBooking, LiveStatuses
<1>4. WeeklyCap
  BY <1>3 DEF WeeklyCap
<1> QED
  BY <1>1, <1>2, <1>4 DEF CapInv

\* Nobody who has accepted no proposal ever has more time in one week than the largest cap the lab has had: the
\* request that inserts has summed up the week, and only it can add to the week while it holds the lock of the
\* user's row.
THEOREM WeeklyCapHolds == Spec => []WeeklyCap
<1>1. CapInv => WeeklyCap
  BY DEF CapInv
<1>2. Init => AuditTrail
  BY DEF Init, AuditTrail, NoBooking
<1> QED
  BY <1>1, <1>2, TypeInit, TypeNext, TrailStep, LimitStart, LimitStep, CapStart, CapStep, PTL DEF Spec

-----------------------------------------------------------------------------
(* The calendar, which is cut from the opening hours, and the rules that judge a slot. *)

LEMMA DivMod ==
  ASSUME NEW a \in Nat, NEW d \in Nat \ {0}
  PROVE  /\ a \div d \in Nat /\ a % d \in Nat /\ a % d < d
         /\ a = d * (a \div d) + (a % d)
<1>1. a \div d \in Nat /\ a % d \in Nat /\ a % d < d
  OBVIOUS
<1>2. a = d * (a \div d) + (a % d)
  BY Z3T(30)
<1> QED
  BY <1>1, <1>2

LEMMA DivUnique ==
  ASSUME NEW d \in Nat \ {0}, NEW k \in Nat, NEW r \in Nat, r < d
  PROVE  (d * k + r) \div d = k /\ (d * k + r) % d = r
  OBVIOUS

LEMMA DivTimes ==
  ASSUME NEW d \in Nat \ {0}, NEW k \in Nat
  PROVE  (d * k) \div d = k /\ (d * k) % d = 0
  OBVIOUS

LEMMA TimesMore ==
  ASSUME NEW d \in Nat \ {0}, NEW k \in Nat, NEW n \in Nat, k + 1 <= n
  PROVE  d * k + d <= d * n
  OBVIOUS

LEMMA TimesLess ==
  ASSUME NEW d \in Nat \ {0}, NEW k \in Nat, NEW n \in Nat, NEW r \in Nat, r < d,
         d * k + d <= d * n + r
  PROVE  k + 1 <= n
  OBVIOUS

\* The block k of a length, in a span of time, is one of the whole blocks that fit.
LEMMA WholeBlock ==
  ASSUME NEW length \in Nat \ {0}, NEW span \in Nat, NEW k \in Nat
  PROVE  k \in 0 .. (span \div length) - 1 <=> length * k + length <= span
<1> DEFINE n == span \div length
           r == span % length
<1>1. n \in Nat /\ r \in Nat /\ r < length /\ span = length * n + r
  BY DivMod
<1> HIDE DEF n, r
<1>2. k + 1 <= n => length * k + length <= span
  <2> SUFFICES ASSUME k + 1 <= n
               PROVE  length * k + length <= span
    OBVIOUS
  <2>1. length * k + length <= length * n
    BY <1>1, TimesMore
  <2>2. length * k \in Nat /\ length * n \in Nat
    BY <1>1
  <2> QED
    BY <1>1, <2>1, <2>2
<1>3. length * k + length <= span => k + 1 <= n
  BY <1>1, TimesLess
<1>4. k \in 0 .. n - 1 <=> length * k + length <= span
  BY <1>1, <1>2, <1>3
<1> QED
  BY <1>4 DEF n

\* An instant is an instant of a minute, which is a minute of a date.
LEMMA DateAndMinute ==
  ASSUME NEW t \in Nat
  PROVE  /\ Minute(t) \in Nat /\ t % MinuteLength \in Nat /\ t % MinuteLength < MinuteLength
         /\ t = MinuteLength * Minute(t) + (t % MinuteLength)
         /\ Date(t) \in Nat /\ MinuteOfDay(t) \in Nat /\ MinuteOfDay(t) < DayLength
         /\ Minute(t) = DayLength * Date(t) + MinuteOfDay(t)
<1>1. MinuteLength \in Nat \ {0} /\ DayLength \in Nat \ {0}
  BY CalendarAssumption
<1>2. /\ Minute(t) \in Nat /\ t % MinuteLength \in Nat /\ t % MinuteLength < MinuteLength
      /\ t = MinuteLength * Minute(t) + (t % MinuteLength)
  BY <1>1, DivMod DEF Minute
<1>3. /\ Date(t) \in Nat /\ MinuteOfDay(t) \in Nat /\ MinuteOfDay(t) < DayLength
      /\ Minute(t) = DayLength * Date(t) + MinuteOfDay(t)
  BY <1>1, <1>2, DivMod DEF Date, MinuteOfDay
<1> QED
  BY <1>2, <1>3

LEMMA MinuteOf ==
  ASSUME NEW n \in Nat, NEW r \in Nat, r < MinuteLength
  PROVE  Minute(MinuteLength * n + r) = n /\ (MinuteLength * n + r) % MinuteLength = r
  BY DivUnique, CalendarAssumption DEF Minute

LEMMA MinutesOf ==
  ASSUME NEW n \in Nat
  PROVE  Minutes(n) \in Nat /\ Minutes(n) = MinuteLength * n /\ Minute(Minutes(n)) = n /\ Minutes(n) % MinuteLength = 0
<1>1. MinuteLength \in Nat \ {0}
  BY CalendarAssumption
<1>2. Minutes(n) = MinuteLength * n /\ MinuteLength * n \in Nat
  BY <1>1 DEF Minutes
<1> QED
  BY <1>1, <1>2, DivTimes DEF Minute

LEMMA DateOf ==
  ASSUME NEW t \in Nat, NEW date \in Nat, NEW m \in Nat, m < DayLength, Minute(t) = DayLength * date + m
  PROVE  Date(t) = date
  BY DivUnique, CalendarAssumption DEF Date

\* The minute in which the block k of the window w starts, and the block, which generateSlots counts from the opening.
BlockStart(policy, w, date, k) == date * DayLength + w.opens + k * policy.slotMinutes

Block(policy, w, date, k) ==
  Slot(Minutes(BlockStart(policy, w, date, k)), Minutes(BlockStart(policy, w, date, k + 1)))

LEMMA BlocksAre ==
  ASSUME NEW policy, NEW hrs, NEW date, NEW s
  PROVE  s \in Blocks(policy, hrs, date) <=>
           \E w \in hrs : w.weekday = Weekday(date) /\ \E k \in BlocksOf(policy, w) : s = Block(policy, w, date, k)
  BY DEF Blocks, Block, BlockStart

\* A block is as many minutes long as the policy says.
LEMMA BlockLasts ==
  ASSUME NEW policy, policy.slotMinutes \in Nat \ {0}, NEW w, w.opens \in Nat, NEW date \in Nat, NEW k \in Nat
  PROVE  /\ BlockStart(policy, w, date, k) \in Nat
         /\ Block(policy, w, date, k).start = MinuteLength * BlockStart(policy, w, date, k)
         /\ Block(policy, w, date, k).end = Block(policy, w, date, k).start + Minutes(policy.slotMinutes)
<1> DEFINE n == policy.slotMinutes
           from == BlockStart(policy, w, date, k)
<1>1. n \in Nat /\ DayLength \in Nat /\ MinuteLength \in Nat
  BY CalendarAssumption
<1>2. date * DayLength \in Nat /\ k * n \in Nat /\ (k + 1) * n = k * n + n
  BY <1>1
<1>3. from \in Nat /\ BlockStart(policy, w, date, k + 1) = from + n
  BY <1>1, <1>2 DEF BlockStart
<1>4. MinuteLength * (from + n) = MinuteLength * from + MinuteLength * n
  BY <1>1, <1>3
<1>5. Minutes(from) = MinuteLength * from /\ Minutes(from + n) = MinuteLength * (from + n) /\ Minutes(n) = MinuteLength * n
  BY <1>1, <1>3, MinutesOf
<1> HIDE DEF n, from
<1> QED
  BY <1>3, <1>4, <1>5 DEF Block, Slot, n, from

\* A block of a window starts in a given minute exactly when the minute lies on the window's grid, with time for the block.
LEMMA BlockOnGrid ==
  ASSUME NEW policy, policy.slotMinutes \in Nat \ {0},
         NEW w, w.opens \in Nat, w.closes \in Nat, w.opens < w.closes,
         NEW date \in Nat, NEW m \in Nat
  PROVE  (\E k \in BlocksOf(policy, w) : DayLength * date + m = BlockStart(policy, w, date, k))
           <=> /\ w.opens <= m
               /\ m + policy.slotMinutes <= w.closes
               /\ (m - w.opens) % policy.slotMinutes = 0
<1> DEFINE n == policy.slotMinutes
           base == DayLength * date
<1>1. n \in Nat \ {0} /\ DayLength \in Nat /\ base \in Nat /\ date * DayLength = base
  BY CalendarAssumption
<1>3. w.closes - w.opens \in Nat
  OBVIOUS
<1>4. \A k \in Nat : k \in BlocksOf(policy, w) <=> n * k + n <= w.closes - w.opens
  BY <1>1, <1>3, WholeBlock DEF BlocksOf
<1>5. BlocksOf(policy, w) \subseteq Nat
  BY <1>1, <1>3, DivMod DEF BlocksOf
<1>6. ASSUME NEW k \in Nat
      PROVE  base + m = BlockStart(policy, w, date, k) <=> m = w.opens + n * k
  <2>1. n * k \in Nat /\ k * policy.slotMinutes = n * k
    BY <1>1
  <2>2. BlockStart(policy, w, date, k) = base + w.opens + n * k
    BY <1>1, <2>1 DEF BlockStart
  <2> DEFINE x == n * k
             y == BlockStart(policy, w, date, k)
  <2>3. x \in Nat /\ base \in Nat /\ y = base + w.opens + x
    BY <1>1, <2>1, <2>2
  <2> HIDE DEF n, base, x, y
  <2>4. base + m = y <=> m = w.opens + x
    BY <2>3
  <2> QED
    BY <2>4 DEF x, y
<1>7. ASSUME NEW k \in Nat, n * k + n <= w.closes - w.opens, m = w.opens + n * k
      PROVE  w.opens <= m /\ m + n <= w.closes /\ (m - w.opens) % n = 0
  <2>1. n * k \in Nat
    BY <1>1
  <2>2. (n * k) % n = 0
    BY <1>1, DivTimes
  <2>3. m - w.opens = n * k
    BY <1>7, <2>1
  <2> HIDE DEF n
  <2> QED
    BY <1>1, <1>7, <2>1, <2>2, <2>3
<1>8. ASSUME w.opens <= m, m + n <= w.closes, (m - w.opens) % n = 0
      PROVE  \E k \in Nat : n * k + n <= w.closes - w.opens /\ m = w.opens + n * k
  <2>1. m - w.opens \in Nat
    BY <1>8
  <2>2. PICK k \in Nat : m - w.opens = n * k + 0
    BY <1>1, <1>8, <2>1, DivMod
  <2>3. n * k \in Nat
    BY <1>1
  <2> HIDE DEF n
  <2>4. n * k + n <= w.closes - w.opens /\ m = w.opens + n * k
    BY <1>1, <1>8, <2>2, <2>3
  <2> QED
    BY <2>4
<1> HIDE DEF n, base
<1>10. (\E k \in BlocksOf(policy, w) : base + m = BlockStart(policy, w, date, k)) <=>
         w.opens <= m /\ m + n <= w.closes /\ (m - w.opens) % n = 0
  BY <1>4, <1>5, <1>6, <1>7, <1>8
<1> QED
  BY <1>10 DEF n, base

\* What the settings of the lab let through.
LEMMA SettingsKnown ==
  ASSUME TypeInv
  PROVE  /\ lab.policy.slotMinutes \in Nat \ {0} /\ lab.policy.maxConsecutiveSlots \in Nat \ {0}
         /\ lab.policy.capacity \in Nat \ {0}
         /\ \A w \in hours : /\ w.opens \in Nat /\ w.closes \in Nat
                            /\ w.opens < w.closes /\ w.closes <= DayLength
<1>1. lab.policy \in Policies /\ hours \in Timetables
  BY DEF TypeInv, TypeOK
<1> QED
  BY <1>1, SettingsAssumption

\* A slot of one block is on the grid exactly when some block of its date starts in the minute in which it starts.
LEMMA GridIsBlocks ==
  ASSUME TypeInv, NEW s \in Slots, OneBlock(s)
  PROVE  LET policy == lab.policy
             date == Date(s.start)
         IN  OnTheGrid(policy, hours, s) <=>
               \E w \in hours : /\ w.weekday = Weekday(date)
                                /\ \E k \in BlocksOf(policy, w) : Minute(s.start) = BlockStart(policy, w, date, k)
<1> DEFINE policy == lab.policy
           date == Date(s.start)
           m == MinuteOfDay(s.start)
<1>1. s.start \in Nat
  BY DEF Slots
<1>2. date \in Nat /\ m \in Nat /\ Minute(s.start) = DayLength * date + m
  BY <1>1, DateAndMinute
<1>3. Minute(Duration(s)) = policy.slotMinutes
  BY MinutesOf, SettingsKnown DEF OneBlock
<1>4. \A w \in hours :
        (\E k \in BlocksOf(policy, w) : Minute(s.start) = BlockStart(policy, w, date, k))
          <=> w.opens <= m /\ m + policy.slotMinutes <= w.closes /\ (m - w.opens) % policy.slotMinutes = 0
  <2> HIDE DEF m, date
  <2> QED
    BY <1>2, BlockOnGrid, SettingsKnown
<1> QED
  BY <1>3, <1>4 DEF OnTheGrid

\* generateSlots and problemWithRequest agree on the slots of one block that start on a whole minute.
LEMMA OfferedFits ==
  ASSUME TypeInv, NEW s \in Slots, OneBlock(s)
  PROVE  s \in GenerateSlots(lab.policy, hours, blackouts, Date(s.start), now)
           <=> Fits(lab.policy, s) /\ s.start % MinuteLength = 0
<1> DEFINE policy == lab.policy
           n == policy.slotMinutes
           date == Date(s.start)
           m == MinuteOfDay(s.start)
           minute == Minute(s.start)
           InTime == s.start >= now + policy.minLead /\ s.start <= now + Minutes(policy.maxHorizonDays * DayLength)
           Begun == \E w \in hours : /\ w.weekday = Weekday(date)
                                     /\ \E k \in BlocksOf(policy, w) : minute = BlockStart(policy, w, date, k)
           Whole == s.start % MinuteLength = 0
<1>1. /\ n \in Nat \ {0} /\ MinuteLength \in Nat \ {0} /\ DayLength \in Nat
      /\ s.start \in Nat /\ s.end \in Nat /\ s = [start |-> s.start, end |-> s.end]
      /\ Minutes(n) = MinuteLength * n /\ s.end = s.start + MinuteLength * n /\ MinuteLength * n \in Nat \ {0}
  <2>1. n \in Nat \ {0} /\ MinuteLength \in Nat \ {0} /\ DayLength \in Nat
    BY SettingsKnown, CalendarAssumption
  <2>2. Minutes(n) = MinuteLength * n /\ MinuteLength * n \in Nat \ {0}
    BY <2>1, MinutesOf
  <2>3. Duration(s) = MinuteLength * n
    BY <2>2 DEF OneBlock
  <2>4. s.start \in Nat /\ s.end \in Nat /\ s = [start |-> s.start, end |-> s.end]
    BY DEF Slots
  <2> HIDE DEF n
  <2> QED
    BY <2>1, <2>2, <2>3, <2>4 DEF Duration
<1>2. /\ minute \in Nat /\ s.start = MinuteLength * minute + (s.start % MinuteLength)
      /\ s.start % MinuteLength \in Nat
      /\ date \in Nat /\ m \in Nat /\ minute = DayLength * date + m
  BY <1>1, DateAndMinute
<1>3. s \in Blocks(policy, hours, date) <=> Begun /\ Whole
  <2>1. ASSUME NEW w, w \in hours, NEW k \in BlocksOf(policy, w)
        PROVE  s = Block(policy, w, date, k) <=> minute = BlockStart(policy, w, date, k) /\ Whole
    <3> DEFINE from == BlockStart(policy, w, date, k)
               block == Block(policy, w, date, k)
    <3>1. k \in Nat
      <4>1. w.closes - w.opens \in Nat
        BY <2>1, SettingsKnown
      <4> QED
        BY <4>1, <1>1, DivMod DEF BlocksOf
    <3>2. /\ from \in Nat /\ block.start = MinuteLength * from /\ block.end = block.start + MinuteLength * n
      BY <1>1, <1>2, <2>1, <3>1, BlockLasts, SettingsKnown
    <3>3. block = [start |-> block.start, end |-> block.end]
      BY DEF Block, Slot
    <3>4. s = block <=> s.start = MinuteLength * from
      <4> HIDE DEF block, from, n
      <4> QED
        BY <1>1, <3>2, <3>3
    <3>5. s.start = MinuteLength * from => minute = from /\ Whole
      BY <1>1, <3>2, DivTimes DEF Minute
    <3>6. minute = from /\ Whole => s.start = MinuteLength * from
      BY <1>1, <1>2, <3>2
    <3> QED
      BY <3>4, <3>5, <3>6
  <2> HIDE DEF minute, Whole
  <2> QED
    BY <2>1, BlocksAre
<1>4. s \in GenerateSlots(policy, hours, blackouts, date, now)
        <=> ~IsBlackedOut(date, blackouts) /\ Begun /\ Whole /\ InTime
  BY <1>3 DEF GenerateSlots
<1>5. Begun <=> OnTheGrid(policy, hours, s)
  BY GridIsBlocks
<1>6. s.start < s.end /\ 1 \in 1 .. policy.capacity
  BY <1>1, SettingsKnown
<1>7. WholeBlocks(policy, s)
  <2>1. Duration(s) % MinuteLength = 0 /\ Minute(Duration(s)) = n
    BY <1>1, MinutesOf DEF OneBlock
  <2>2. n % n = 0 /\ n \div n = 1
    <3> HIDE DEF n
    <3> QED
      BY <1>1
  <2> QED
    BY <2>1, <2>2, SettingsKnown DEF WholeBlocks
<1>8. Whole /\ OnTheGrid(policy, hours, s) => date = Date(s.end - 1)
  <2> SUFFICES ASSUME Whole, NEW w \in hours, m + Minute(Duration(s)) <= w.closes
               PROVE  date = Date(s.end - 1)
    BY DEF OnTheGrid
  <2> DEFINE last == m + n - 1
  <2>1. Minute(Duration(s)) = n /\ w.closes <= DayLength /\ w.closes \in Nat
    BY <1>1, MinutesOf, SettingsKnown DEF OneBlock
  <2>2. last \in Nat /\ last < DayLength
    <3> HIDE DEF m, n
    <3> QED
      BY <1>1, <1>2, <2>1
  <2>3. DayLength * date \in Nat /\ minute + n - 1 \in Nat /\ minute + n - 1 = DayLength * date + last
    <3>1. DayLength * date \in Nat
      BY <1>1, <1>2
    <3> HIDE DEF m, n, minute, date
    <3> QED
      BY <1>1, <1>2, <3>1
  <2>4. MinuteLength * (minute + n - 1) + (MinuteLength - 1) = s.end - 1
    <3>1. MinuteLength * (minute + n - 1) = MinuteLength * minute + MinuteLength * n - MinuteLength
      <4> HIDE DEF n, minute
      <4> QED
        BY <1>1, <1>2
    <3>2. s.start = MinuteLength * minute /\ MinuteLength * minute \in Nat
      BY <1>1, <1>2
    <3> HIDE DEF n, minute
    <3> QED
      BY <1>1, <3>1, <3>2
  <2>5. Minute(s.end - 1) = minute + n - 1 /\ s.end - 1 \in Nat
    <3>1. MinuteLength - 1 \in Nat /\ MinuteLength - 1 < MinuteLength
      BY <1>1
    <3>2. Minute(MinuteLength * (minute + n - 1) + (MinuteLength - 1)) = minute + n - 1
      BY <2>3, <3>1, MinuteOf
    <3>3. s.end - 1 \in Nat
      BY <1>1, <1>6
    <3> QED
      BY <2>4, <3>2, <3>3
  <2> HIDE DEF last, date, minute, n
  <2> QED
    BY <1>2, <2>2, <2>3, <2>5, DateOf
<1> HIDE DEF policy, date, InTime, Begun, Whole
<1>9. Fits(policy, s) /\ Whole <=> ~IsBlackedOut(date, blackouts) /\ Begun /\ Whole /\ InTime
  BY <1>5, <1>6, <1>7, <1>8 DEF Fits, Bookable, date, InTime
<1> QED
  BY <1>4, <1>9 DEF policy, date, Whole

\* Whatever fits starts in a minute in which a block of its date starts.
LEMMA FitsABlock ==
  ASSUME TypeInv, NEW s \in Slots, OneBlock(s), Fits(lab.policy, s)
  PROVE  \E block \in Blocks(lab.policy, hours, Date(s.start)) :
           block.start <= s.start /\ s.start < block.start + MinuteLength
<1> DEFINE policy == lab.policy
           date == Date(s.start)
<1>1. s.start \in Nat /\ MinuteLength \in Nat
  BY CalendarAssumption DEF Slots
<1>2. OnTheGrid(policy, hours, s)
  BY DEF Fits, Bookable
<1>3. PICK w \in hours :
        /\ w.weekday = Weekday(date)
        /\ \E k \in BlocksOf(policy, w) : Minute(s.start) = BlockStart(policy, w, date, k)
  BY <1>2, GridIsBlocks
<1>10. PICK k \in BlocksOf(policy, w) : Minute(s.start) = BlockStart(policy, w, date, k)
  BY <1>3
<1> DEFINE block == Block(policy, w, date, k)
           from == BlockStart(policy, w, date, k)
<1>4. date \in Nat /\ k \in Nat
  <2>1. w.closes - w.opens \in Nat /\ policy.slotMinutes \in Nat \ {0}
    BY SettingsKnown
  <2> QED
    BY <1>1, <2>1, DateAndMinute, DivMod DEF BlocksOf
<1>5. from \in Nat /\ block.start = MinuteLength * from
  BY <1>4, BlockLasts, SettingsKnown
<1>6. /\ s.start = MinuteLength * from + (s.start % MinuteLength)
      /\ s.start % MinuteLength \in Nat /\ s.start % MinuteLength < MinuteLength
  BY <1>1, <1>10, DateAndMinute
<1>7. MinuteLength * from \in Nat
  BY <1>1, <1>5
<1>8. block.start <= s.start /\ s.start < block.start + MinuteLength
  <2> HIDE DEF block, from
  <2> QED
    BY <1>1, <1>5, <1>6, <1>7
<1>9. block \in Blocks(policy, hours, date)
  BY <1>3, BlocksAre
<1> QED
  BY <1>8, <1>9

LEMMA HonestState == TypeInv => CalendarHonest
<1> SUFFICES ASSUME TypeInv, lab.active, NEW s \in Slots, OneBlock(s)
             PROVE  /\ Offered(s) => Taken(s)
                    /\ Taken(s) /\ s.start % MinuteLength = 0 => Offered(s)
                    /\ Taken(s) => \E block \in Blocks(lab.policy, hours, Date(s.start)) :
                                     block.start <= s.start /\ s.start < block.start + MinuteLength
  BY DEF CalendarHonest
<1> DEFINE offered == GenerateSlots(lab.policy, hours, blackouts, Date(s.start), now)
           Held(r) == \E b \in BookingIds : Live(b) /\ Overlaps(r, booking[b].slot)
<1>1. s \in offered <=> Fits(lab.policy, s) /\ s.start % MinuteLength = 0
  BY OfferedFits
<1>2. Availability(Date(s.start)) = { [slot |-> r, free |-> ~Held(r)] : r \in offered }
  BY DEF Availability
<1>3. NoConflict(NoId, s) <=> ~Held(s)
  BY DEF NoConflict, Overlaps
<1> HIDE DEF offered, Held
<1>4. [slot |-> s, free |-> TRUE] \in { [slot |-> r, free |-> ~Held(r)] : r \in offered } <=>
        s \in offered /\ ~Held(s)
  OBVIOUS
<1>5. Offered(s) <=> Taken(s) /\ s.start % MinuteLength = 0
  BY <1>1, <1>2, <1>3, <1>4 DEF Offered, Taken
<1> QED
  BY <1>5, FitsABlock DEF Taken

\* The calendar tells the truth in every reachable state and for any settings: what generateSlots cuts from the
\* opening hours is what problemWithRequest and the constraint let through, up to the seconds of a start.
THEOREM CalendarTrue == Spec => []CalendarHonest
BY TypeInit, TypeNext, HonestState, PTL DEF Spec

=============================================================================

------------------------------ MODULE ScanIntake ------------------------------
(***************************************************************************)
(* The attendance of one booking by QR: the scan intake and the review     *)
(* queue of src/src/server/labs/attendance-qr.ts, with the decision and    *)
(* the pairing of src/src/lib/lab-qr/decide.ts, next to the other actions  *)
(* that close a booking (service.ts) or revoke a key.                      *)
(*                                                                         *)
(* The staff member's device scans the booker's pass and the booker's      *)
(* device scans the desk's challenge; each makes one half of an exchange.  *)
(* Devices submit what they hold in batches, again when an answer is lost. *)
(* The server works through a batch event by event: it decides on what it  *)
(* reads, then stores and pairs in a transaction that locks the booking.   *)
(*                                                                         *)
(* Each side has one key. Only events whose tokens verify, name this       *)
(* booking and are submitted by their scanner are modelled: the others are *)
(* refused by what they say, and leave no trace that anything here reads.  *)
(***************************************************************************)
EXTENDS Integers, Sequences, FiniteSets

CONSTANTS
  Scans,            \* the events that devices may make (their ids)
  Scan,             \* what each says: [side, action, code, offline, drift]
  Requests,         \* server requests in progress at once (bounds the model)
  MaxBatch,         \* MAX_BATCH_EVENTS
  Opens, Closes,    \* the slot, widened by its grace periods
  PairWindow,       \* PAIR_WINDOW_MS
  OnlineTolerance,  \* ONLINE_TOLERANCE_MS
  MaxFuture,        \* MAX_FUTURE_MS
  MaxSkew,          \* MAX_CLOCK_SKEW_MS
  MaxSyncDelay,     \* MAX_SYNC_DELAY_MS
  MaxUpsets,        \* what may happen besides scans and reviews (bounds the model)
  Horizon,          \* the last instant of the model (bounds the clock)
  Free              \* no request

Sides == {"staff", "student"}
Actions == {"in", "out"}

\* code is the pass or challenge that was scanned; drift is what the scanner's clock is fast by.
ScanFacts == [side : Sides, action : Actions, code : Nat, offline : BOOLEAN, drift : Int]

ASSUME ScanAssumption ==
  /\ Scan \in [Scans -> ScanFacts]
  /\ Free \notin Requests
  /\ MaxBatch \in Nat \ {0} /\ Horizon \in Nat
  /\ Opens \in Int /\ Closes \in Int
  /\ PairWindow \in Nat /\ OnlineTolerance \in Nat /\ MaxFuture \in Nat
  /\ MaxSkew \in Nat /\ MaxSyncDelay \in Nat /\ MaxUpsets \in Nat

VARIABLES
  now,          \* the server's clock
  made,         \* when each event was scanned, or Never
  revoked,      \* when each side's key was revoked, or Never
  staffed,      \* whether the staff member may scan for this booking
  booking,      \* the status of the booking
  attendance,   \* its row in lab_attendance, or "none"
  events,       \* lab_scan_events: the status of each event, or "none"
  check,        \* lab_qr_checks: [state, staff, student] for each action
  lock,         \* the request that holds the booking's row lock, or Free
  request,      \* the requests in progress
  told,         \* the last answer to its owner about each event
  upsets        \* how often something else has happened

world == <<now, made, revoked, staffed>>
rows == <<booking, attendance, events, check>>
vars == <<now, made, revoked, staffed, booking, attendance, events, check, lock, request, told,
          upsets>>

-----------------------------------------------------------------------------
(* Rows and requests. *)

Never == Horizon + 1
Instants == 0 .. Never

Verdicts == {"none", "accepted", "review", "rejected"}
Statuses == {"approved", "completed", "no_show", "cancelled"}

\* A verified check names its two halves; those of a partial one are left out.
Check == [state : {"none", "partial", "verified"}, halves : SUBSET Scans]
NoCheck == [state |-> "none", halves |-> {}]

\* What memoisedLookups remembers for the length of one request.
Facts == [read : BOOLEAN, revoked : [Sides -> Instants], staffed : BOOLEAN]
Unread == [read |-> FALSE, revoked |-> [s \in Sides |-> Never], staffed |-> FALSE]

\* "look" is about to look at the first event of the queue and "store" has decided it; "review"
\* has a head's decision about it. "pair" and "approve" are in the transaction that accepts it:
\* they hold the lock and have read the events in view. "replay" was refused by the unique index.
Phases == {"idle", "look", "store", "review", "pair", "approve", "replay"}

Request == [ phase : Phases, queue : Seq(Scans), since : 0 .. Horizon, facts : Facts,
             verdict : Verdicts, view : SUBSET Scans ]

Idle == [ phase |-> "idle", queue |-> <<>>, since |-> 0, facts |-> Unread,
          verdict |-> "none", view |-> {} ]

\* A request with a batch, or one event, before it.
Begun(phase, queue, since, verdict) ==
  [ phase |-> phase, queue |-> queue, since |-> since, facts |-> Unread,
    verdict |-> verdict, view |-> {} ]

\* A request q that is still about the same event.
Moved(q, phase, facts, verdict, view) ==
  [ phase |-> phase, queue |-> q.queue, since |-> q.since, facts |-> facts,
    verdict |-> verdict, view |-> view ]

\* A request q that turns to its next event.
Turned(q) ==
  [ phase |-> "look", queue |-> Tail(q.queue), since |-> q.since, facts |-> q.facts,
    verdict |-> "none", view |-> {} ]

TypeOK ==
  /\ now \in 0 .. Horizon
  /\ made \in [Scans -> Instants]
  /\ revoked \in [Sides -> Instants]
  /\ staffed \in BOOLEAN
  /\ booking \in Statuses
  /\ attendance \in {"none", "attended", "no_show"}
  /\ events \in [Scans -> Verdicts]
  /\ check \in [Actions -> Check]
  /\ lock \in Requests \cup {Free}
  /\ request \in [Requests -> Request]
  /\ \A r \in Requests : request[r].phase = "idle" <=> request[r].queue = <<>>
  /\ told \in [Scans -> Verdicts]
  /\ upsets \in 0 .. MaxUpsets

Init ==
  /\ now = 0
  /\ made = [e \in Scans |-> Never]
  /\ revoked = [s \in Sides |-> Never]
  /\ staffed = TRUE
  /\ booking = "approved"
  /\ attendance = "none"
  /\ events = [e \in Scans |-> "none"]
  /\ check = [a \in Actions |-> NoCheck]
  /\ lock = Free
  /\ request = [r \in Requests |-> Idle]
  /\ told = [e \in Scans |-> "none"]
  /\ upsets = 0

-----------------------------------------------------------------------------
(* The decision: decide.ts. *)

\* The scan time on the server's timeline: the clock of an offline event is corrected.
Effective(e) == made[e] + (IF Scan[e].offline THEN 0 ELSE Scan[e].drift)

Distance(s, t) == IF s < t THEN t - s ELSE s - t

Revoked(facts) == { s \in Sides : facts.revoked[s] # Never }

Refused(e, facts) ==
  \/ ~facts.staffed
  \/ Effective(e) < Opens \/ Effective(e) > Closes
  \/ \E s \in Revoked(facts) : Effective(e) >= facts.revoked[s]
  \/ booking = "cancelled"

\* Believable, but to be seen by a person.
Doubtful(e, facts, t) ==
  \/ booking = "no_show"
  \/ Revoked(facts) # {}
  \/ IF Scan[e].offline THEN Distance(Scan[e].drift, 0) > MaxSkew
     ELSE Distance(Effective(e), t) > OnlineTolerance
  \/ t - Effective(e) > MaxSyncDelay
  \/ Effective(e) - t > MaxFuture

\* decideScan, of an event that reached the server at t.
Decision(e, facts, t) ==
  IF Refused(e, facts) THEN "rejected" ELSE IF Doubtful(e, facts, t) THEN "review" ELSE "accepted"

-----------------------------------------------------------------------------
(* submitScanBatch. *)

Current(r) == Head(request[r].queue)

\* Fault: the request does not end with its last event.
NextEvent_NoEnd(r) ==
  request' = [request EXCEPT ![r] = Turned(request[r])]

\* The request turns to its next event, or ends; what it remembers is kept.
NextEvent(r) ==
  request' = [request EXCEPT ![r] =
                IF Len(request[r].queue) = 1 THEN Idle ELSE Turned(request[r])]

Answer(r, v) == told' = [told EXCEPT ![Current(r)] = v]

\* The batches that the device of a side may send, once more or for the first time.
Batches(side) ==
  LET held == { e \in Scans : made[e] # Never /\ Scan[e].side = side }
  IN  { q \in UNION { [1 .. n -> held] : n \in 1 .. MaxBatch } :
          \A i, j \in DOMAIN q : q[i] = q[j] => i = j }

Submit(r, q) ==
  /\ request[r].phase = "idle"
  /\ request' = [request EXCEPT ![r] = Begun("look", q, now, "none")]
  /\ UNCHANGED <<world, rows, lock, told, upsets>>

\* Seen before: the stored outcome, whatever has become of it since.
AnswerAgain(r) ==
  /\ request[r].phase = "look"
  /\ events[Current(r)] # "none"
  /\ Answer(r, events[Current(r)])
  /\ NextEvent(r)
  /\ UNCHANGED <<world, rows, lock, upsets>>

\* What the lookups answer: keys and roles are read once in a request, the booking every time.
\* They are remembered as long as there is another event to decide.
FactsFor(r) ==
  IF request[r].facts.read THEN request[r].facts
  ELSE [read |-> TRUE, revoked |-> revoked, staffed |-> staffed]

DecideScan(r) ==
  /\ request[r].phase = "look"
  /\ events[Current(r)] = "none"
  /\ request' = [request EXCEPT ![r] =
                   Moved(request[r], "store",
                         IF Len(request[r].queue) = 1 THEN Unread ELSE FactsFor(r),
                         Decision(Current(r), FactsFor(r), request[r].since), {})]
  /\ UNCHANGED <<world, rows, lock, told, upsets>>

-----------------------------------------------------------------------------
(* persist: the transaction, under the lock of the booking's row. *)

\* Fault: the transaction does not lock the booking.
RowFree_Unlocked == TRUE

RowFree == lock = Free

\* Two events made from one pass, or from one challenge.
SameCode(d, e) == d # e /\ Scan[d].side = Scan[e].side /\ Scan[d].code = Scan[e].code

\* Fault: the unique index covers accepted events only.
CodeTaken_AcceptedOnly(e) == \E d \in Scans : SameCode(d, e) /\ events[d] = "accepted"

\* The unique indexes on codes: a pass is used once, and so is a challenge by one booker.
CodeTaken(e) == \E d \in Scans : SameCode(d, e) /\ events[d] \in {"accepted", "review"}

Accepted(a) == { e \in Scans : events[e] = "accepted" /\ Scan[e].action = a }

\* Fault: the answer is what this submission had decided.
FindStored_OwnVerdict(r) ==
  /\ request[r].phase = "store"
  /\ RowFree
  /\ events[Current(r)] # "none"
  /\ Answer(r, request[r].verdict)
  /\ NextEvent(r)
  /\ UNCHANGED <<world, rows, lock, upsets>>

\* The event was stored meanwhile by another submission of it: its outcome is the answer.
FindStored(r) ==
  /\ request[r].phase = "store"
  /\ RowFree
  /\ events[Current(r)] # "none"
  /\ Answer(r, events[Current(r)])
  /\ NextEvent(r)
  /\ UNCHANGED <<world, rows, lock, upsets>>

\* Stored, but not counted. No index covers a rejected event.
StoreUncounted(r) ==
  /\ request[r].phase = "store"
  /\ RowFree
  /\ events[Current(r)] = "none"
  /\ \/ request[r].verdict = "rejected"
     \/ request[r].verdict = "review" /\ ~CodeTaken(Current(r))
  /\ events' = [events EXCEPT ![Current(r)] = request[r].verdict]
  /\ Answer(r, request[r].verdict)
  /\ NextEvent(r)
  /\ UNCHANGED <<world, booking, attendance, check, lock, upsets>>

\* The lock is taken, the event inserted, and the accepted events of its action read.
InsertAccepted(r) ==
  /\ request[r].phase = "store"
  /\ RowFree
  /\ events[Current(r)] = "none"
  /\ request[r].verdict = "accepted"
  /\ ~CodeTaken(Current(r))
  /\ lock' = r
  /\ request' = [request EXCEPT ![r] =
                   Moved(request[r], "pair", request[r].facts, request[r].verdict,
                         Accepted(Scan[Current(r)].action))]
  /\ UNCHANGED <<world, rows, told, upsets>>

\* The index refuses the code: the transaction is rolled back.
CodeUsed(r) ==
  /\ request[r].phase = "store"
  /\ RowFree
  /\ events[Current(r)] = "none"
  /\ request[r].verdict \in {"accepted", "review"}
  /\ CodeTaken(Current(r))
  /\ request' = [request EXCEPT ![r] =
                   Moved(request[r], "replay", request[r].facts, request[r].verdict, {})]
  /\ UNCHANGED <<world, rows, lock, told, upsets>>

\* No open transaction has inserted the event.
InsertFree(e) == \A d \in Requests : request[d].phase = "pair" => Current(d) # e

\* A replay is stored as rejected, outside the transaction, unless it was stored meanwhile.
StoreReplay(r) ==
  /\ request[r].phase = "replay"
  /\ InsertFree(Current(r))
  /\ events' = [events EXCEPT ![Current(r)] =
                  IF events[Current(r)] = "none" THEN "rejected" ELSE events[Current(r)]]
  /\ Answer(r, "rejected")
  /\ NextEvent(r)
  /\ UNCHANGED <<world, booking, attendance, check, lock, upsets>>

-----------------------------------------------------------------------------
(* pairAndRecord, and the commit that releases the lock. *)

\* The staff and student events of S that are close enough.
Pairs(S) ==
  { p \in S \X S :
      /\ Scan[p[1]].side = "staff" /\ Scan[p[2]].side = "student"
      /\ Distance(Effective(p[1]), Effective(p[2])) <= PairWindow }

\* pickPair: the earliest staff event that has a partner, with its earliest partner.
Picked(S) ==
  { p \in Pairs(S) :
      \A q \in Pairs(S) :
        \/ Effective(p[1]) < Effective(q[1])
        \/ Effective(p[1]) = Effective(q[1]) /\ Effective(p[2]) <= Effective(q[2]) }

\* Fault: a verified check-in closes the booking whatever its status.
CloseBooking_Always ==
  booking' = "completed" /\ attendance' = "attended"

\* The booking is completed and the attendance recorded, if it is still approved.
CloseBooking ==
  \/ /\ booking = "approved"
     /\ booking' = "completed"
     /\ attendance' = IF attendance = "none" THEN "attended" ELSE attendance
  \/ booking # "approved" /\ UNCHANGED <<booking, attendance>>

\* What the accepted events S of action a amount to.
Record(a, S) ==
  \/ /\ check[a].state = "verified"
     /\ UNCHANGED <<check, booking, attendance>>
  \/ /\ check[a].state # "verified"
     /\ Pairs(S) = {}
     /\ check' = [check EXCEPT ![a] = [state |-> "partial", halves |-> {}]]
     /\ UNCHANGED <<booking, attendance>>
  \/ /\ check[a].state # "verified"
     /\ \E p \in Picked(S) :
          check' = [check EXCEPT ![a] = [state |-> "verified", halves |-> {p[1], p[2]}]]
     /\ IF a = "in" THEN CloseBooking ELSE UNCHANGED <<booking, attendance>>

PairAndRecord(r) ==
  /\ request[r].phase \in {"pair", "approve"}
  /\ events' = [events EXCEPT ![Current(r)] = "accepted"]
  /\ Record(Scan[Current(r)].action, request[r].view \cup {Current(r)})
  /\ lock' = Free
  /\ \/ request[r].phase = "pair" /\ Answer(r, "accepted")
     \/ request[r].phase = "approve" /\ UNCHANGED told
  /\ NextEvent(r)
  /\ UNCHANGED <<world, upsets>>

-----------------------------------------------------------------------------
(* decideReview: a head approves or declines a held event. *)

\* The event is read with no lock; whether it is still held is asked again in the transaction.
BeginReview(r, e, v) ==
  /\ request[r].phase = "idle"
  /\ events[e] = "review"
  /\ request' = [request EXCEPT ![r] = Begun("review", <<e>>, 0, v)]
  /\ UNCHANGED <<world, rows, lock, told, upsets>>

\* Fault: the update names the event only, not that it is held.
StillHeld_Unconditional(e) == TRUE

StillHeld(e) == events[e] = "review"

AlreadyDecided(r) ==
  /\ request[r].phase = "review"
  /\ RowFree
  /\ ~StillHeld(Current(r))
  /\ NextEvent(r)
  /\ UNCHANGED <<world, rows, lock, told, upsets>>

Decline(r) ==
  /\ request[r].phase = "review"
  /\ RowFree
  /\ StillHeld(Current(r))
  /\ request[r].verdict = "rejected"
  /\ events' = [events EXCEPT ![Current(r)] = "rejected"]
  /\ NextEvent(r)
  /\ UNCHANGED <<world, booking, attendance, check, lock, told, upsets>>

\* The lock is taken, the event updated, and the accepted events of its action read.
Approve(r) ==
  /\ request[r].phase = "review"
  /\ RowFree
  /\ StillHeld(Current(r))
  /\ request[r].verdict = "accepted"
  /\ lock' = r
  /\ request' = [request EXCEPT ![r] =
                   Moved(request[r], "approve", request[r].facts, request[r].verdict,
                         Accepted(Scan[Current(r)].action))]
  /\ UNCHANGED <<world, rows, told, upsets>>

-----------------------------------------------------------------------------
(* The environment: devices, the other handlers that touch the booking, crashes, time. *)

\* A device makes an event of what it has just scanned.
MakeScan(e) ==
  /\ made[e] = Never
  /\ made' = [made EXCEPT ![e] = now]
  /\ UNCHANGED <<now, revoked, staffed, rows, lock, request, told, upsets>>

Upset == upsets < MaxUpsets /\ upsets' = upsets + 1

\* markAttendance, by hand: a conditional update of the locked row.
MarkAttendance(outcome) ==
  /\ Upset
  /\ RowFree
  /\ booking = "approved"
  /\ booking' = IF outcome = "attended" THEN "completed" ELSE "no_show"
  /\ attendance' = outcome
  /\ UNCHANGED <<world, events, check, lock, request, told>>

\* cancelBooking.
CancelBooking ==
  /\ Upset
  /\ RowFree
  /\ booking = "approved"
  /\ booking' = "cancelled"
  /\ UNCHANGED <<world, attendance, events, check, lock, request, told>>

RevokeKey(s) ==
  /\ Upset
  /\ revoked[s] = Never
  /\ revoked' = [revoked EXCEPT ![s] = now]
  /\ UNCHANGED <<now, made, staffed, rows, lock, request, told>>

\* removeLabStaff.
LoseDuty ==
  /\ Upset
  /\ staffed
  /\ staffed' = FALSE
  /\ UNCHANGED <<now, made, revoked, rows, lock, request, told>>

\* The process dies: an open transaction is rolled back and its lock released.
Crash(r) ==
  /\ Upset
  /\ request[r].phase # "idle"
  /\ request' = [request EXCEPT ![r] = Idle]
  /\ lock' = IF lock = r THEN Free ELSE lock
  /\ UNCHANGED <<world, rows, told>>

Tick ==
  /\ now < Horizon
  /\ now' = now + 1
  /\ UNCHANGED <<made, revoked, staffed, rows, lock, request, told, upsets>>

-----------------------------------------------------------------------------
Work(r) ==
  \/ AnswerAgain(r) \/ DecideScan(r) \/ StoreReplay(r) \/ PairAndRecord(r)
  \/ FindStored(r) \/ StoreUncounted(r) \/ InsertAccepted(r) \/ CodeUsed(r)
  \/ AlreadyDecided(r) \/ Decline(r) \/ Approve(r)

Devices ==
  \/ \E e \in Scans : MakeScan(e)
  \/ \E r \in Requests :
       \/ \E side \in Sides : \E q \in Batches(side) : Submit(r, q)
       \/ \E e \in Scans, v \in {"accepted", "rejected"} : BeginReview(r, e, v)

Others ==
  \/ \E outcome \in {"attended", "no_show"} : MarkAttendance(outcome)
  \/ CancelBooking
  \/ \E s \in Sides : RevokeKey(s)
  \/ LoseDuty
  \/ Tick

Next ==
  \/ Devices
  \/ Others
  \/ \E r \in Requests : Work(r) \/ Crash(r)

Spec == Init /\ [][Next]_vars

-----------------------------------------------------------------------------
(* Safety. *)

\* Whether two accepted events are the two halves of one exchange.
Match(d, e) ==
  /\ events[d] = "accepted" /\ events[e] = "accepted"
  /\ Scan[d].action = Scan[e].action
  /\ Scan[d].side = "staff" /\ Scan[e].side = "student"
  /\ Distance(Effective(d), Effective(e)) <= PairWindow

\* A check is verified only on two halves the server accepted, close in time, whichever of them
\* came last: by a scan, by a retry or by a head's approval.
VerifiedHasBoth ==
  \A a \in Actions : check[a].state = "verified" =>
    \E d, e \in Scans :
      Scan[d].action = a /\ Match(d, e) /\ check[a].halves = {d, e}

\* No exchange is missed: as soon as two accepted halves match, their check is verified, even
\* when they arrive at once from two devices and each is decided before the other is stored.
PairIsVerified ==
  \A d, e \in Scans : Match(d, e) => check[Scan[d].action].state = "verified"

\* A booking still open has no verified check-in, and its outcome, by hand or by scan, is on
\* record once it is closed.
OutcomeRecorded ==
  /\ check["in"].state = "verified" => booking # "approved"
  /\ booking = "completed" <=> attendance = "attended"
  /\ booking = "no_show" <=> attendance = "no_show"

\* One pass, or one challenge, counts once: at most one event made from it is accepted or held.
CodeCountsOnce ==
  \A d, e \in Scans :
    SameCode(d, e) => ~({events[d], events[e]} \subseteq {"accepted", "review"})

\* A device is never told that a scan counts when it does not, or that one that counts or is held
\* was refused, whatever it resends and whenever its answer was computed; save that an event taken
\* for a replay may be stored after all, by a second submission, once a head has declined the
\* event that had used its code.
ToldAsStored ==
  \A e \in Scans :
    /\ told[e] = "accepted" => events[e] = "accepted"
    /\ told[e] = "rejected" =>
         events[e] = "rejected" \/ \E d \in Scans : SameCode(d, e) /\ events[d] = "rejected"

-----------------------------------------------------------------------------
(* Action properties. *)

\* What a person decided about a booking stays: a scan, however late, never changes the outcome
\* of a booking that was closed, marked as a no-show or cancelled.
ClosedStays ==
  [][ booking # "approved" => booking' = booking /\ attendance' = attendance ]_vars

\* The intake keeps the ledger: an event is decided once, and a held one once more.
Ledger == INSTANCE ScanLedger WITH verdict <- [e \in Scans |-> events[e]]

ImplementsLedger == Ledger!LedgerSpec

-----------------------------------------------------------------------------
(* What a comment says and the code does not do. *)

\* A verified check-in is the same fact as a manual "attended".
VerifiedIsAttended == check["in"].state = "verified" => attendance = "attended"

=============================================================================

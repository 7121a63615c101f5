---------------------------- MODULE BookingLedger ----------------------------
(***************************************************************************)
(* What lab booking promises, whatever its handlers interleave: bookings   *)
(* move only along the table of permitted moves, two live bookings never   *)
(* share time, a booking changes its slot only when a proposed time is     *)
(* accepted, and a booking is closed together with its attendance record.  *)
(*                                                                         *)
(* The module has no handlers: LabBooking, the member and staff actions,   *)
(* is shown to implement it.                                               *)
(***************************************************************************)
EXTENDS LabRules

CONSTANTS
  BookingIds,   \* the rows lab_bookings may hold
  Slots,        \* the intervals of time a booking may occupy
  NoSlot        \* the slot of a row that does not exist

VARIABLES
  status,       \* the status of each row, "none" before it is inserted
  slot,         \* the slot of each row
  attendance    \* the outcome recorded for each booking, or "none"

ledger == <<status, slot, attendance>>

Live(b) == status[b] \in LiveStatuses

\* No live booking other than b uses any of the time of s.
FreeFor(b, s) ==
  \A other \in BookingIds \ {b} : Live(other) => ~Overlaps(slot[other], s)

LedgerTypeOK ==
  /\ status \in [BookingIds -> Statuses \cup {"none"}]
  /\ slot \in [BookingIds -> Slots \cup {NoSlot}]
  /\ attendance \in [BookingIds -> {"none", "attended", "no_show"}]

LedgerInit ==
  /\ status = [b \in BookingIds |-> "none"]
  /\ slot = [b \in BookingIds |-> NoSlot]
  /\ attendance = [b \in BookingIds |-> "none"]

Create(b, s) ==
  /\ status[b] = "none"
  /\ FreeFor(b, s)
  /\ status' = [status EXCEPT ![b] = "requested"]
  /\ slot' = [slot EXCEPT ![b] = s]
  /\ UNCHANGED attendance

\* A decision, an answer or a cancellation that leaves the slot as it was.
Move(b, to) ==
  /\ to \notin {"completed", "no_show"}
  /\ CanTransition(status[b], to)
  /\ to = "approved" => status[b] = "requested"
  /\ status' = [status EXCEPT ![b] = to]
  /\ UNCHANGED <<slot, attendance>>

\* A proposed time is accepted: the booking is approved at another slot.
Rebook(b, s) ==
  /\ status[b] = "alternative_proposed"
  /\ FreeFor(b, s)
  /\ status' = [status EXCEPT ![b] = "approved"]
  /\ slot' = [slot EXCEPT ![b] = s]
  /\ UNCHANGED attendance

\* The booking is closed and its outcome recorded, in one step.
Close(b, outcome) ==
  /\ status[b] = "approved"
  /\ attendance[b] = "none"
  /\ status' = [status EXCEPT ![b] = IF outcome = "attended" THEN "completed" ELSE "no_show"]
  /\ attendance' = [attendance EXCEPT ![b] = outcome]
  /\ UNCHANGED slot

LedgerNext ==
  \E b \in BookingIds :
    \/ \E s \in Slots : Create(b, s) \/ Rebook(b, s)
    \/ \E to \in Statuses : Move(b, to)
    \/ \E outcome \in {"attended", "no_show"} : Close(b, outcome)

LedgerSpec == LedgerInit /\ [][LedgerNext]_ledger

-----------------------------------------------------------------------------
\* Two live bookings never share time.
NoOverlap ==
  \A a, b \in BookingIds :
    a # b /\ Live(a) /\ Live(b) => ~Overlaps(slot[a], slot[b])

\* A booking is closed exactly when its outcome is on record.
OutcomeOnRecord ==
  \A b \in BookingIds :
    attendance[b] = CASE status[b] = "completed" -> "attended"
                      [] status[b] = "no_show"   -> "no_show"
                      [] OTHER                   -> "none"

=============================================================================

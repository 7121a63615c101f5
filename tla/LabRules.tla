------------------------------ MODULE LabRules ------------------------------
(***************************************************************************)
(* The lab booking rules of src/src/server/labs/rules.ts as operators on   *)
(* data: the calendar, the bookable slots, the validation of a request,    *)
(* the weekly cap and the table of permitted moves.                        *)
(*                                                                         *)
(* Time is a natural number of instants since the start (in India time) of *)
(* a Sunday.  MinuteLength instants make a minute, DayLength minutes a day *)
(* and WeekDays days a week, so that a small instance can cross all the    *)
(* boundaries.  Opening hours and blocks are in minutes; everything else   *)
(* is an instant or a length of time in instants, as a Date is, and need   *)
(* not be a whole minute.                                                  *)
(***************************************************************************)
EXTENDS Integers, FiniteSets, FiniteSetsExt

CONSTANTS MinuteLength, DayLength, WeekDays

ASSUME CalendarAssumption ==
  MinuteLength \in Nat \ {0} /\ DayLength \in Nat \ {0} /\ WeekDays \in Nat \ {0}

-----------------------------------------------------------------------------
(* The calendar. *)

\* The instant at which a minute starts, and the length of n minutes.
Minutes(n) == n * MinuteLength

\* The minute that an instant lies in: istParts drops the seconds.
Minute(t) == t \div MinuteLength

Date(t) == Minute(t) \div DayLength

MinuteOfDay(t) == Minute(t) % DayLength

Weekday(date) == date % WeekDays

\* Weeks run from Monday, weekday 1, so the first day of the calendar closes a week.
WeekStart(t) == Date(t) - ((Weekday(Date(t)) + WeekDays - 1) % WeekDays)

\* A closed period names its first and its last date, both closed.
IsBlackedOut(date, blackouts) ==
  \E p \in blackouts : p.startsOn <= date /\ date <= p.endsOn

-----------------------------------------------------------------------------
(* Slots: half-open intervals of time. *)

Slot(start, end) == [start |-> start, end |-> end]

Duration(s) == s.end - s.start

Overlaps(a, b) == a.start < b.end /\ b.start < a.end

\* Fault: a last block that runs past closing time is offered too.
BlocksOf_Partial(policy, w) ==
  0 .. (w.closes - w.opens + policy.slotMinutes - 1) \div policy.slotMinutes - 1

\* The whole blocks of a window, counted from its opening.
BlocksOf(policy, w) == 0 .. (w.closes - w.opens) \div policy.slotMinutes - 1

\* The blocks of a date: each of its opening windows is cut into slots.
Blocks(policy, hours, date) ==
  LET block(w, k) == Minutes(date * DayLength + w.opens + k * policy.slotMinutes)
  IN  UNION { { Slot(block(w, k), block(w, k + 1)) : k \in BlocksOf(policy, w) }
              : w \in { v \in hours : v.weekday = Weekday(date) } }

\* The slots of one date that are offered at `now`.
GenerateSlots(policy, hours, blackouts, date, now) ==
  IF IsBlackedOut(date, blackouts) THEN {}
  ELSE { s \in Blocks(policy, hours, date) :
         /\ s.start >= now + policy.minLead
         /\ s.start <= now + Minutes(policy.maxHorizonDays * DayLength) }

\* The minute in which the slot starts, and the minutes it lasts, lie in one opening window, on the
\* blocks counted from its opening.
OnTheGrid(policy, hours, s) ==
  LET first == MinuteOfDay(s.start)
  IN  \E w \in hours :
        /\ w.weekday = Weekday(Date(s.start))
        /\ w.opens <= first
        /\ first + Minute(Duration(s)) <= w.closes
        /\ (first - w.opens) % policy.slotMinutes = 0

\* The slot lasts a whole number of blocks, and not too many.
WholeBlocks(policy, s) ==
  /\ Duration(s) % MinuteLength = 0
  /\ Minute(Duration(s)) % policy.slotMinutes = 0
  /\ Minute(Duration(s)) \div policy.slotMinutes <= policy.maxConsecutiveSlots

\* problemWithRequest finds nothing wrong.
Bookable(policy, hours, blackouts, now, s, headcount) ==
  /\ s.start < s.end
  /\ headcount \in 1 .. policy.capacity
  /\ Date(s.start) = Date(s.end - 1)
  /\ ~IsBlackedOut(Date(s.start), blackouts)
  /\ WholeBlocks(policy, s)
  /\ OnTheGrid(policy, hours, s)
  /\ s.start >= now + policy.minLead
  /\ s.start <= now + Minutes(policy.maxHorizonDays * DayLength)

\* The time that the bookings in B, with slots slotOf[b], use in the week of s.
UsedInWeek(B, slotOf, s) ==
  MapThenSumSet(LAMBDA b : Duration(slotOf[b]),
                { b \in B : WeekStart(slotOf[b].start) = WeekStart(s.start) })

-----------------------------------------------------------------------------
(* The life of a booking. *)

Statuses == { "requested", "approved", "rejected", "cancelled",
              "alternative_proposed", "completed", "no_show" }

BookingTransitions ==
  [ requested |-> {"approved", "rejected", "alternative_proposed", "cancelled"},
    alternative_proposed |-> {"approved", "cancelled", "rejected"},
    approved |-> {"cancelled", "completed", "no_show"},
    rejected |-> {}, cancelled |-> {}, completed |-> {}, no_show |-> {} ]

CanTransition(from, to) ==
  from \in Statuses /\ to \in BookingTransitions[from]

\* The statuses that hold a slot: the list the database's exclusion constraint names.
LiveStatuses == {"requested", "approved", "alternative_proposed"}

=============================================================================

---------------------------- MODULE MCLabBooking ----------------------------
(* Values for the constants of LabBooking when members race: one administrator decides. *)
EXTENDS LabBooking, TLC

CONSTANTS adm, m1, m2

MCNoStaff == [p \in Persons |-> "none"]

\* One setting, so that the limits are exact: one block a slot, at most two blocks in a row,
\* one open request, two blocks a week, one block of notice to cancel.
MCPolicy == [ slotMinutes |-> 1, maxConsecutiveSlots |-> 2, minLead |-> 0,
              maxHorizonDays |-> 9, capacity |-> 1, maxOpenRequests |-> 1,
              maxPerWeek |-> 2, cancelCutoff |-> 1, requiresAssistant |-> FALSE ]
MCPolicies == {MCPolicy}

MCAllHandlers == Ops \ {"insert"}

\* Weeks of one day, open all day.
MCTimetables == {{[weekday |-> 0, opens |-> 0, closes |-> DayLength]}}

-----------------------------------------------------------------------------
(* When settings change: a head h as well, who may be demoted, removed and reappointed. *)

CONSTANTS h

MCOneHead == [p \in Persons |-> IF p = h THEN "head" ELSE "none"]

\* The two settings differ in the blocks, the notice and the assistant rule.
MCStrict == [ slotMinutes |-> 2, maxConsecutiveSlots |-> 1, minLead |-> 1,
              maxHorizonDays |-> 9, capacity |-> 1, maxOpenRequests |-> 1,
              maxPerWeek |-> 4, cancelCutoff |-> 1, requiresAssistant |-> TRUE ]
MCChanging == {[MCPolicy EXCEPT !.maxHorizonDays = 1], MCStrict}

\* Open all day, or for half a block of the longer setting: late on the first day of the week,
\* early on the second.
MCNewHours ==
  { {[weekday |-> d, opens |-> 0, closes |-> DayLength] : d \in 0 .. WeekDays - 1},
    { [weekday |-> 0, opens |-> 1, closes |-> DayLength],
      [weekday |-> 1, opens |-> 0, closes |-> 1] } }

MCClosures == {[startsOn |-> 1, endsOn |-> 1]}

-----------------------------------------------------------------------------
Symmetry == Permutations(BookingIds) \cup Permutations(Calls)
=============================================================================

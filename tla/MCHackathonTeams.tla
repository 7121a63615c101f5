--------------------------- MODULE MCHackathonTeams ---------------------------
(***************************************************************************)
(* An instance of HackathonTeams for TLC.  People, teams and calls are     *)
(* interchangeable.                                                        *)
(***************************************************************************)
EXTENDS HackathonTeams, TLC

Row(status, maxTeamSize, voting) ==
  [status |-> status, maxTeamSize |-> maxTeamSize, voting |-> voting]

\* The organiser lowers and raises the limit, and goes on and back.
MCSaves == { Row("open", 2, FALSE), Row("building", 1, FALSE), Row("building", 2, FALSE),
             Row("judging", 1, TRUE) }

Symmetry == Permutations(Persons) \cup Permutations(Teams) \cup Permutations(Calls)
=============================================================================

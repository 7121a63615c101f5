----------------------------- MODULE MCScanIntake -----------------------------
(* Values for the constants of ScanIntake. *)
EXTENDS ScanIntake, TLC

CONSTANTS s1, s2, t1

\* Two scans by the staff of one pass, the first offline, and one by the booker whose clock is
\* fast by one.
MCScan ==
  s1 :> [side |-> "staff", action |-> "in", code |-> 1, offline |-> TRUE, drift |-> 0] @@
  s2 :> [side |-> "staff", action |-> "in", code |-> 1, offline |-> FALSE, drift |-> 0] @@
  t1 :> [side |-> "student", action |-> "in", code |-> 1, offline |-> FALSE, drift |-> 1]

Symmetry == Permutations(Requests)
=============================================================================

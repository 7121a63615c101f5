---------------------------- MODULE MCApplications ----------------------------
(* Values for the constants of Applications. *)
EXTENDS Applications, TLC

CONSTANTS v1, v2

\* Questions that were tightened: an option less, and an answer and a document that are needed.
Loose == [accepts |-> {v1, v2}, question |-> "optional", file |-> "optional"]
Strict == [accepts |-> {v1}, question |-> "required", file |-> "required"]
MCForms == {Loose, Strict}
MCFirst == [state |-> "open", form |-> Loose]
MCPrograms == {MCFirst, [state |-> "open", form |-> Strict], [state |-> "closed", form |-> Strict]}

Symmetry == Permutations(Calls) \cup Permutations(Keys)
=============================================================================

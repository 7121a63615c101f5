---------------------------- MODULE MCEmailOutbox ----------------------------
(* Values for the constants of EmailOutbox. *)
EXTENDS EmailOutbox, TLC

MCBackoff == <<1>>
=============================================================================

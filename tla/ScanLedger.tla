------------------------------ MODULE ScanLedger ------------------------------
(***************************************************************************)
(* What the attendance server promises about scan events: an event is      *)
(* decided once, whatever number of times it is submitted, and a decision  *)
(* that was held for a person is decided once more, for good.              *)
(***************************************************************************)

CONSTANT Scans

VARIABLE verdict    \* what the server has decided about each event

Verdicts == {"none", "accepted", "review", "rejected"}

LedgerTypeOK == verdict \in [Scans -> Verdicts]

LedgerInit == verdict = [e \in Scans |-> "none"]

\* An event the server has not seen is decided.
Decide(e, v) ==
  /\ verdict[e] = "none"
  /\ verdict' = [verdict EXCEPT ![e] = v]

\* A head decides an event that is held.
Settle(e, v) ==
  /\ verdict[e] = "review"
  /\ verdict' = [verdict EXCEPT ![e] = v]

LedgerNext ==
  \E e \in Scans :
    \/ \E v \in {"accepted", "review", "rejected"} : Decide(e, v)
    \/ \E v \in {"accepted", "rejected"} : Settle(e, v)

LedgerSpec == LedgerInit /\ [][LedgerNext]_verdict

=============================================================================

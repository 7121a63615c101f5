------------------------------ MODULE MailLedger ------------------------------
(***************************************************************************)
(* What the mail queue promises, whatever its processes interleave: a      *)
(* message is recorded as sent only when the provider has taken it, and    *)
(* put in the queue only with its text.  Unless it is late, it is also in  *)
(* the provider's hands once at a time and only while it waits, and is     *)
(* written off as dead only when its attempts are used up.                 *)
(*                                                                         *)
(* A message is late once its sender has kept it longer than allowed: then *)
(* others may send it too, and write what becomes of it over each other.   *)
(* The module has no processes, leases or clocks: EmailOutbox is shown to  *)
(* implement it.                                                           *)
(***************************************************************************)
EXTENDS Naturals

CONSTANTS
  Messages,
  MaxAttempts   \* how often a message is tried before it is written off

VARIABLES
  status,       \* of each message, "none" before it is stored
  text,         \* whether its text is still kept
  failures,     \* the failed attempts that were counted, up to MaxAttempts
  handed,       \* the messages in the provider's hands
  taken,        \* the messages that the provider has taken
  late          \* the messages that were kept too long

ledger == <<status, text, failures, handed, taken, late>>

LedgerInit ==
  /\ status = [m \in Messages |-> "none"]
  /\ text = [m \in Messages |-> FALSE]
  /\ failures = [m \in Messages |-> 0]
  /\ handed = {} /\ taken = {} /\ late = {}

\* A message is stored, or put back by an operator as long as it has its text, and handed over at once.
Submit(m) ==
  /\ \/ status[m] = "none" /\ text' = [text EXCEPT ![m] = TRUE]
     \/ status[m] \in {"dead", "expired"} /\ text[m] /\ UNCHANGED text
  /\ m \in handed => m \in late
  /\ status' = [status EXCEPT ![m] = "pending"]
  /\ failures' = [failures EXCEPT ![m] = 0]
  /\ handed' = handed \cup {m}
  /\ UNCHANGED <<taken, late>>

\* The message waits, and nobody is sending it; a late one is free for all.
AtRest(m) == status[m] # "none" /\ (m \notin late => status[m] = "pending" /\ m \notin handed)

HandOver(m) ==
  /\ AtRest(m)
  /\ handed' = handed \cup {m}
  /\ UNCHANGED <<status, text, failures, taken, late>>

\* The provider takes the message, or it does not, or nobody waits for the answer any more.
Answer(m) ==
  /\ m \in handed
  /\ handed' = handed \ {m} \/ (m \in late /\ UNCHANGED handed)
  /\ taken' \in {taken, taken \cup {m}}
  /\ UNCHANGED <<status, text, failures, late>>

Fail(m) ==
  /\ AtRest(m)
  /\ failures' = [failures EXCEPT ![m] = IF @ < MaxAttempts THEN @ + 1 ELSE MaxAttempts]
  /\ UNCHANGED <<status, text, handed, taken, late>>

\* The message is settled: as sent, as too late, or as dead, with its text kept for a while.
Settle(m, as) ==
  /\ AtRest(m)
  /\ as = "sent" => m \in taken
  /\ as = "dead" => m \in late \/ failures[m] = MaxAttempts
  /\ status' = [status EXCEPT ![m] = as]
  /\ text' = [text EXCEPT ![m] = as = "dead" /\ @]
  /\ UNCHANGED <<failures, handed, taken, late>>

\* The texts of some dead messages are blanked.
Blank ==
  /\ \E old \in SUBSET { m \in Messages : status[m] = "dead" } :
       text' = [m \in Messages |-> text[m] /\ m \notin old]
  /\ UNCHANGED <<status, failures, handed, taken, late>>

\* Messages that wait have been kept too long.
Overrun ==
  /\ \E kept \in SUBSET { m \in Messages : status[m] = "pending" } : late' = late \cup kept
  /\ UNCHANGED <<status, text, failures, handed, taken>>

LedgerNext ==
  \/ \E m \in Messages :
       \/ Submit(m) \/ HandOver(m) \/ Answer(m) \/ Fail(m)
       \/ \E as \in {"sent", "expired", "dead"} : Settle(m, as)
  \/ Blank \/ Overrun

LedgerSpec == LedgerInit /\ [][LedgerNext]_ledger

=============================================================================

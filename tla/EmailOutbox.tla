----------------------------- MODULE EmailOutbox -----------------------------
(***************************************************************************)
(* The durable queue of outgoing mail: src/src/server/email/outbox.ts.     *)
(*                                                                         *)
(* A request stores a message and makes the first attempt itself; workers, *)
(* one in each server process, claim what is due under a lease and attempt *)
(* the claimed messages one after the other; an operator may put a message *)
(* that was given up back in the queue.  An attempt hands the message to   *)
(* the provider and then records the outcome, in one or two updates that   *)
(* name the row only.                                                      *)
(*                                                                         *)
(* Timestamps are timers that count down to zero as time passes: due until *)
(* next_attempt_at, life until expires_at, keep until the row has the age  *)
(* at which a dead body is blanked.  The transport bounds what an attempt  *)
(* may take; nothing bounds a batch, and a call may hold a message longer  *)
(* than the lease under which it claimed it.                               *)
(***************************************************************************)
EXTENDS Integers, Sequences, FiniteSets

CONSTANTS
  Messages,      \* the rows email_outbox may hold
  Workers,       \* the processes that run the retry loop
  Requests,      \* first attempts and operator resends in progress at once (bounds the model)
  Limit,         \* how many messages processDue claims at once
  MaxAttempts,   \* MAX_ATTEMPTS
  Lease,         \* LEASE_MS
  AttemptTime,   \* the longest an attempt takes: the transport's own timeouts
  Ttl,           \* how long a message is worth sending
  Retention,     \* DEAD_BODY_RETENTION_MS
  Backoff,       \* BACKOFF_MS, a sequence
  MaxCrashes     \* crashes and failed statements (bounds the model)

Calls == Workers \cup Requests

ASSUME OutboxAssumption ==
  /\ IsFiniteSet(Messages)
  /\ Workers \cap Requests = {}
  /\ Limit \in Nat \ {0} /\ MaxAttempts \in Nat \ {0}
  /\ Lease \in Nat \ {0} /\ AttemptTime \in Nat /\ Ttl \in Nat /\ Retention \in Nat
  /\ Backoff \in Seq(Nat) /\ Backoff # <<>>
  /\ MaxCrashes \in Nat

VARIABLES
  outbox,        \* the rows of email_outbox
  call,          \* the attempts in progress
  delivered,     \* the messages the provider has taken
  late,          \* history: the messages that some call has held after their lease had run out
  crashes        \* how many calls have been cut short

vars == <<outbox, call, delivered, late, crashes>>

-----------------------------------------------------------------------------
(* Rows and calls. *)

Statuses == {"none", "pending", "sent", "expired", "dead"}

\* Attempts are counted up to MaxAttempts: the code only asks whether they have reached it.
Row == [ status : Statuses, body : BOOLEAN, attempts : 0 .. MaxAttempts,
         due : Nat, life : Nat, keep : Nat ]

NoRow == [status |-> "none", body |-> FALSE, attempts |-> 0, due |-> 0, life |-> 0, keep |-> 0]

\* A claimed message, with the time it had left to live when it was claimed.
Item == [id : Messages, life : Nat]

\* "next" is about to look at the first message of the queue, "sending" has handed it to the
\* provider, "accepted" and "refused" have the answer, and the others have a verdict to write.
Phases == {"idle", "next", "sending", "accepted", "refused", "retry", "expired", "dead"}

\* left is the time the attempt may still take, failed the count that its failure returned.
Call == [at : Phases, queue : Seq(Item), left : 0 .. AttemptTime, failed : 0 .. MaxAttempts]

Idle == [at |-> "idle", queue |-> <<>>, left |-> 0, failed |-> 0]

Attempt(phase, queue) ==
  [at |-> phase, queue |-> queue, left |-> AttemptTime, failed |-> 0]

TypeOK ==
  /\ outbox \in [Messages -> Row]
  /\ call \in [Calls -> Call]
  /\ \A c \in Calls : call[c].at = "idle" <=> call[c].queue = <<>>
  /\ delivered \subseteq Messages
  /\ late \subseteq Messages
  /\ crashes \in 0 .. MaxCrashes

Init ==
  /\ outbox = [m \in Messages |-> NoRow]
  /\ call = [c \in Calls |-> Idle]
  /\ delivered = {}
  /\ late = {}
  /\ crashes = 0

\* The message at hand.
Current(c) == Head(call[c].queue).id

\* The call has claimed m and is not through with it.
Holds(c, m) == \E i \in DOMAIN call[c].queue : call[c].queue[i].id = m

Becomes(c, phase) == call' = [call EXCEPT ![c].at = phase]

\* The call is done with its message, and turns to the next one it has claimed.
NextMessage(c) ==
  call' = [call EXCEPT ![c] =
             IF Len(@.queue) = 1 THEN Idle ELSE Attempt("next", Tail(@.queue))]

-----------------------------------------------------------------------------
(* Where attempts come from. *)

\* A row with a new life, to be attempted at once by the one who writes it.
Waiting(body, keep) == [ status |-> "pending", body |-> body, attempts |-> 0,
                         due |-> Lease, life |-> Ttl, keep |-> keep ]

\* sendDurably: stored under a lease, and attempted.
SendDurably(r, m) ==
  /\ call[r].at = "idle"
  /\ outbox[m].status = "none"
  /\ outbox' = [outbox EXCEPT ![m] = Waiting(TRUE, Retention)]
  /\ call' = [call EXCEPT ![r] = Attempt("sending", <<[id |-> m, life |-> Ttl]>>)]
  /\ UNCHANGED <<delivered, late, crashes>>

Resendable(m) == outbox[m].status \in {"dead", "expired"} /\ outbox[m].body

\* requeue, by an operator: a new life and a new count, and an attempt at once.
Requeue(r, m) ==
  /\ call[r].at = "idle"
  /\ Resendable(m)
  /\ outbox' = [outbox EXCEPT ![m] = Waiting(@.body, @.keep)]
  /\ call' = [call EXCEPT ![r] = Attempt("sending", <<[id |-> m, life |-> Ttl]>>)]
  /\ UNCHANGED <<delivered, late, crashes>>

\* Fault: the lease of a message that is being sent is not respected.
DueNow_Leased(m) == outbox[m].status = "pending"

\* Fault: only messages with attempts left are looked for.
DueNow_AttemptsLeft(m) ==
  outbox[m].status = "pending" /\ outbox[m].due = 0 /\ outbox[m].attempts < MaxAttempts

DueNow(m) == outbox[m].status = "pending" /\ outbox[m].due = 0

\* The batches processDue may claim: as many due messages as there are, up to the limit.
Batches ==
  LET waiting == { m \in Messages : DueNow(m) }
      size == IF Cardinality(waiting) < Limit THEN Cardinality(waiting) ELSE Limit
  IN  { q \in [1 .. size -> waiting] : \A i, j \in 1 .. size : q[i] = q[j] => i = j }

\* Fault: the bodies of all dead messages are blanked, however young.
TooOld_Dead(m) == outbox[m].status = "dead"

TooOld(m) == outbox[m].status = "dead" /\ outbox[m].keep = 0

\* processDue: the old dead bodies are blanked, and a batch is claimed under a lease. The two
\* statements touch rows of different statuses and are one step here.
Claim(w) ==
  /\ call[w].at = "idle"
  /\ \E q \in Batches :
       /\ outbox' = [ m \in Messages |->
                        IF \E i \in DOMAIN q : q[i] = m THEN [outbox[m] EXCEPT !.due = Lease]
                        ELSE IF TooOld(m) THEN [outbox[m] EXCEPT !.body = FALSE]
                        ELSE outbox[m] ]
       /\ call' = IF q = <<>> THEN call
                  ELSE [call EXCEPT ![w] =
                          Attempt("next", [i \in DOMAIN q |->
                                             [id |-> q[i], life |-> outbox[q[i]].life]])]
  /\ UNCHANGED <<delivered, late, crashes>>

\* A claimed message that has outlived its use is not sent.
GiveUp(w) ==
  /\ call[w].at = "next"
  /\ Head(call[w].queue).life = 0
  /\ outbox' = [outbox EXCEPT ![Current(w)].status = "expired", ![Current(w)].body = FALSE]
  /\ NextMessage(w)
  /\ UNCHANGED <<delivered, late, crashes>>

Begin(w) ==
  /\ call[w].at = "next"
  /\ Head(call[w].queue).life > 0
  /\ Becomes(w, "sending")
  /\ UNCHANGED <<outbox, delivered, late, crashes>>

-----------------------------------------------------------------------------
(* attempt. *)

\* sendEmailDirect: the provider takes the message, or an error or a timeout ends the attempt, which
\* does not tell whether the provider has taken it.
Deliver(c) ==
  /\ call[c].at = "sending"
  /\ \/ Becomes(c, "accepted") /\ delivered' = delivered \cup {Current(c)}
     \/ Becomes(c, "refused") /\ delivered' \in {delivered, delivered \cup {Current(c)}}
  /\ UNCHANGED <<outbox, late, crashes>>

MarkSent(c) ==
  /\ call[c].at = "accepted"
  /\ outbox' = [outbox EXCEPT ![Current(c)].status = "sent", ![Current(c)].body = FALSE]
  /\ NextMessage(c)
  /\ UNCHANGED <<delivered, late, crashes>>

\* Neither try to record the delivery succeeds: the row stays as it is.
MarkFails(c) ==
  /\ call[c].at = "accepted"
  /\ crashes < MaxCrashes
  /\ crashes' = crashes + 1
  /\ NextMessage(c)
  /\ UNCHANGED <<outbox, delivered, late>>

\* Fault: a message is written off one failure too early.
Exhausted_Early(failed) == failed + 1 >= MaxAttempts

Exhausted(failed) == failed >= MaxAttempts

\* The failure is counted, and the row that returns decides what is to be written next.
CountFailure(c) ==
  /\ call[c].at = "refused"
  /\ LET row == outbox[Current(c)]
         failed == IF row.attempts < MaxAttempts THEN row.attempts + 1 ELSE MaxAttempts
         verdict == IF row.life = 0 THEN "expired"
                    ELSE IF Exhausted(failed) THEN "dead" ELSE "retry"
     IN  /\ outbox' = [outbox EXCEPT ![Current(c)].attempts = failed]
         /\ call' = [call EXCEPT ![c].at = verdict, ![c].failed = failed]
  /\ UNCHANGED <<delivered, late, crashes>>

BackoffAfter(failed) == Backoff[IF failed < Len(Backoff) THEN failed ELSE Len(Backoff)]

\* Fault: the verdict is written as the status, whatever it is.
WriteVerdict_AsStatus(c) ==
  /\ call[c].at \in {"retry", "expired", "dead"}
  /\ outbox' = [outbox EXCEPT ![Current(c)].status = call[c].at,
                              ![Current(c)].due = BackoffAfter(call[c].failed)]
  /\ NextMessage(c)
  /\ UNCHANGED <<delivered, late, crashes>>

WriteVerdict(c) ==
  /\ \/ /\ call[c].at = "retry"
        /\ outbox' = [outbox EXCEPT ![Current(c)].due = BackoffAfter(call[c].failed)]
     \/ /\ call[c].at = "expired"
        /\ outbox' = [outbox EXCEPT ![Current(c)].status = "expired", ![Current(c)].body = FALSE]
     \/ /\ call[c].at = "dead"
        /\ outbox' = [outbox EXCEPT ![Current(c)].status = "dead"]
  /\ NextMessage(c)
  /\ UNCHANGED <<delivered, late, crashes>>

-----------------------------------------------------------------------------
(* The environment. *)

\* The process dies, or a statement fails and its error ends the call: what else the call had
\* claimed is left to its lease.
Crash(c) ==
  /\ call[c].at # "idle"
  /\ crashes < MaxCrashes
  /\ crashes' = crashes + 1
  /\ call' = [call EXCEPT ![c] = Idle]
  /\ UNCHANGED <<outbox, delivered, late>>

Less(n) == IF n = 0 THEN 0 ELSE n - 1

OlderRow(row) == [ status |-> row.status, body |-> row.body, attempts |-> row.attempts,
                   due |-> Less(row.due), life |-> Less(row.life), keep |-> Less(row.keep) ]

OlderQueue(queue) ==
  [i \in DOMAIN queue |-> [id |-> queue[i].id, life |-> Less(queue[i].life)]]

OlderCall(e) == [ at |-> e.at, queue |-> OlderQueue(e.queue),
                  left |-> Less(e.left), failed |-> e.failed ]

\* Time passes, but no attempt outlasts the time its transport allows it. What is held when its lease
\* runs out is late.
Tick ==
  /\ \A c \in Calls : call[c].at # "idle" => call[c].left > 0
  /\ outbox' = [m \in Messages |-> OlderRow(outbox[m])]
  /\ call' = [c \in Calls |-> OlderCall(call[c])]
  /\ late' = late \cup { m \in Messages : outbox[m].due <= 1 /\ \E c \in Calls : Holds(c, m) }
  /\ UNCHANGED <<delivered, crashes>>

Proceed(c) ==
  GiveUp(c) \/ Begin(c) \/ Deliver(c) \/ MarkSent(c) \/ MarkFails(c) \/ CountFailure(c)
    \/ WriteVerdict(c)

Next ==
  \/ \E r \in Requests, m \in Messages : SendDurably(r, m) \/ Requeue(r, m)
  \/ \E w \in Workers : Claim(w)
  \/ \E c \in Calls : Proceed(c) \/ Crash(c)
  \/ Tick

Spec == Init /\ [][Next]_vars

\* Processes run the steps they have before them, the retry loop wakes up again and again, and
\* time does not stop.
Fairness ==
  /\ \A c \in Calls : WF_vars(Proceed(c))
  /\ \A w \in Workers : WF_vars(Claim(w))
  /\ WF_vars(Tick)

FairSpec == Spec /\ Fairness

-----------------------------------------------------------------------------
(* Safety. *)

\* The call has handed m to the provider and has no answer yet.
Sending(c, m) == call[c].at = "sending" /\ Current(c) = m

\* Two calls send a message at the same time only if some call has held it past its lease: nothing
\* else, no resend, crash, failed statement or backoff, puts it in a second pair of hands.
TwiceOnlyIfLate ==
  \A c, d \in Calls, m \in Messages : Sending(c, m) /\ Sending(d, m) => c = d \/ m \in late

\* A message that is still to be sent has its text: whatever blanks a body settles the row, and
\* an operator puts back only what still has one.
PendingHasBody == \A m \in Messages : outbox[m].status = "pending" => outbox[m].body

\* A text is thrown away only when the message is delivered, too late, or too old to resend. (Of a
\* message held past its lease, one call's "expired" may be overwritten by another's "dead".)
NothingLost ==
  \A m \in Messages :
    outbox[m].status # "none" /\ ~outbox[m].body =>
      m \in delivered \/ outbox[m].status = "expired" \/ outbox[m].keep = 0 \/ m \in late

\* A message recorded as sent is never put back in the queue, although a late call may write another
\* outcome over it by the id of the row alone: its text is gone, and a resend asks for the text.
SentNotRequeued ==
  [][ \A m \in Messages :
        outbox[m].status \notin {"none", "pending"} /\ ~outbox[m].body =>
          outbox'[m].status # "pending" /\ ~outbox'[m].body ]_vars

\* The queue implements the ledger: however its calls interleave, fail and crash, a message is recorded
\* as sent only when it was taken, and a text that is gone does not come back; and as long as no call has
\* held the message past its lease, it is in the provider's hands once at a time and only while it waits,
\* and its fate is written only then, although every outcome is written by the id of the row alone.
Ledger == INSTANCE MailLedger WITH
            status <- [m \in Messages |-> outbox[m].status],
            text <- [m \in Messages |-> outbox[m].body],
            failures <- [m \in Messages |-> outbox[m].attempts],
            handed <- { m \in Messages : \E c \in Calls : Sending(c, m) },
            taken <- delivered

ImplementsLedger == Ledger!LedgerSpec

-----------------------------------------------------------------------------
(* Liveness. *)

\* Every message that waits is sent or given up, whatever fails: also one whose process died
\* between counting its last failure and writing it off.
Settled == \A m \in Messages : outbox[m].status = "pending" ~> outbox[m].status # "pending"

=============================================================================

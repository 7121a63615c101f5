-------------------------- MODULE EmailOutboxProofs --------------------------
(***************************************************************************)
(* Proofs about EmailOutbox for any messages, processes and timeouts.      *)
(*                                                                         *)
(* Nothing is assumed of how long a lease is, or how many messages a call  *)
(* claims under it.  Types and PendingHasBody hold as they stand.  For the *)
(* rest, the inductive invariant says that a message which a call has      *)
(* claimed, and no call has ever held past its lease, waits under a lease  *)
(* that still runs, and that no other call has claimed it.  A message held *)
(* past its lease is in late, and what is shown of it is less.             *)
(***************************************************************************)
EXTENDS EmailOutbox, SequenceTheorems, FiniteSetTheorems, TLAPS

TypeInv ==
  /\ TypeOK
  /\ \A c \in Calls : call[c].at = "retry" => call[c].failed > 0

\* What a step of the call c does to the calls when it is done with its message.
LEMMA QueueMoves ==
  ASSUME TypeInv, NEW c \in Calls, call[c].at # "idle", NextMessage(c)
  PROVE  /\ call' \in [Calls -> Call]
         /\ \A d \in Calls \ {c} : call'[d] = call[d]
         /\ call'[c].at \in {"idle", "next"}
         /\ call'[c].at = "idle" <=> call'[c].queue = <<>>
         /\ Len(call'[c].queue) = Len(call[c].queue) - 1
         /\ \A i \in 1 .. Len(call'[c].queue) :
              call'[c].queue[i] = call[c].queue[i + 1] /\ call'[c].left = AttemptTime
<1> DEFINE q == call[c].queue
<1>1. /\ call \in [Calls -> Call] /\ q \in Seq(Item) /\ q # <<>>
      /\ AttemptTime \in Nat /\ MaxAttempts \in Nat
  BY OutboxAssumption DEF TypeInv, TypeOK, Call
<1>2. /\ Len(q) \in Nat \ {0} /\ Tail(q) \in Seq(Item) /\ Len(Tail(q)) = Len(q) - 1
      /\ \A i \in 1 .. Len(Tail(q)) : Tail(q)[i] = q[i + 1]
  <2>1. Len(q) \in Nat \ {0}
    BY <1>1, EmptySeq
  <2>2. QED
    BY <2>1, <1>1, HeadTailProperties
<1>3. call' = [call EXCEPT ![c] = IF Len(q) = 1 THEN Idle ELSE Attempt("next", Tail(q))]
  BY DEF NextMessage
<1>4. CASE Len(q) = 1
  <2>1. call' = [call EXCEPT ![c] = Idle]
    BY <1>3, <1>4
  <2>2. Idle \in Call
    BY <1>1 DEF Idle, Call, Phases
  <2>3. Len(call'[c].queue) = 0 /\ call'[c].queue = <<>> /\ call'[c].at = "idle"
    BY <2>1, <1>1 DEF Idle
  <2>4. QED
    BY <2>1, <2>2, <2>3, <1>1, <1>4
<1>5. CASE Len(q) # 1
  <2> DEFINE e == Attempt("next", Tail(q))
  <2>1. call' = [call EXCEPT ![c] = e]
    BY <1>3, <1>5
  <2>2. /\ e = [at |-> "next", queue |-> Tail(q), left |-> AttemptTime, failed |-> 0]
        /\ e \in Call
    BY <1>1, <1>2 DEF Call, Phases, Attempt
  <2>3. Tail(q) # <<>>
    <3>1. Len(<<>>) = 0
      OBVIOUS
    <3>2. Len(Tail(q)) # 0
      BY <1>2, <1>5
    <3>3. QED
      BY <3>1, <3>2
  <2> HIDE DEF e
  <2>4. call'[c] = e
    BY <2>1, <1>1
  <2>5. QED
    BY <2>1, <2>2, <2>3, <2>4, <1>1, <1>2
<1>6. QED
  BY <1>4, <1>5

\* A call in progress is at work on a message of the table.
LEMMA AtWork ==
  ASSUME TypeInv, NEW c \in Calls, call[c].at # "idle"
  PROVE  /\ Current(c) \in Messages
         /\ Current(c) = call[c].queue[1].id
         /\ 1 \in 1 .. Len(call[c].queue)
<1> DEFINE q == call[c].queue
<1>1. q \in Seq(Item) /\ q # <<>>
  BY DEF TypeInv, TypeOK, Call
<1>2. Len(q) \in Nat \ {0}
  BY <1>1, EmptySeq
<1>3. 1 \in 1 .. Len(q) /\ q[1] \in Item /\ Head(q) = q[1]
  BY <1>1, <1>2, ElementOfSeq
<1>4. QED
  BY <1>3 DEF Current, Item

LEMMA BackoffIsTime ==
  ASSUME NEW n \in 0 .. MaxAttempts, n > 0
  PROVE  BackoffAfter(n) \in Nat
<1>1. Backoff \in Seq(Nat) /\ Len(Backoff) \in Nat \ {0} /\ MaxAttempts \in Nat
  BY OutboxAssumption, EmptySeq
<1> DEFINE k == IF n < Len(Backoff) THEN n ELSE Len(Backoff)
<1>2. k \in 1 .. Len(Backoff)
  BY <1>1
<1>3. QED
  BY <1>1, <1>2, ElementOfSeq DEF BackoffAfter

-----------------------------------------------------------------------------
(* Types. *)

LEMMA TypeInitial == Init => TypeInv
  BY OutboxAssumption DEF Init, TypeInv, TypeOK, NoRow, Row, Statuses, Idle, Call, Phases

\* A batch is a sequence of different messages that are due.
LEMMA BatchShape ==
  ASSUME TypeInv, NEW q \in Batches
  PROVE  /\ q \in Seq(Messages) /\ Len(q) <= Limit
         /\ DOMAIN q = 1 .. Len(q)
         /\ \A i, j \in 1 .. Len(q) : q[i] = q[j] => i = j
         /\ \A i \in 1 .. Len(q) : DueNow(q[i])
<1> DEFINE waiting == { m \in Messages : DueNow(m) }
           size == IF Cardinality(waiting) < Limit THEN Cardinality(waiting) ELSE Limit
<1>1. IsFiniteSet(Messages) /\ Limit \in Nat
  BY OutboxAssumption
<1>2. Cardinality(waiting) \in Nat
  <2>1. waiting \in SUBSET Messages
    OBVIOUS
  <2>2. IsFiniteSet(waiting)
    BY <2>1, <1>1, FS_Subset
  <2>3. QED
    BY <2>2, FS_CardinalityType
<1>3. size \in Nat /\ size <= Limit
  BY <1>1, <1>2
<1>4. /\ q \in [1 .. size -> waiting]
      /\ \A i, j \in 1 .. size : q[i] = q[j] => i = j
  BY DEF Batches
<1> HIDE DEF size
<1>5. q \in Seq(waiting) /\ Len(q) = size /\ DOMAIN q = 1 .. size
  BY <1>3, <1>4
<1>6. \A i \in 1 .. size : q[i] \in Messages /\ DueNow(q[i])
  BY <1>4
<1>7. q \in Seq(Messages)
  BY <1>3, <1>4, <1>6
<1>8. QED
  BY <1>3, <1>4, <1>5, <1>6, <1>7

\* The batch is remembered with the time each message has left to live.
LEMMA ItemsShape ==
  ASSUME TypeInv, NEW q \in Seq(Messages), NEW items,
         items = [i \in DOMAIN q |-> [id |-> q[i], life |-> outbox[q[i]].life]]
  PROVE  /\ items \in Seq(Item) /\ Len(items) = Len(q)
         /\ \A i \in 1 .. Len(q) : items[i] \in Item /\ items[i].id = q[i]
         /\ q # <<>> => items # <<>>
<1>1. DOMAIN q = 1 .. Len(q) /\ Len(q) \in Nat /\ \A i \in 1 .. Len(q) : q[i] \in Messages
  OBVIOUS
<1>2. \A m \in Messages : outbox[m].life \in Nat
  BY DEF TypeInv, TypeOK, Row
<1>3. \A i \in 1 .. Len(q) :
        /\ items[i] = [id |-> q[i], life |-> outbox[q[i]].life]
        /\ items[i] \in Item /\ items[i].id = q[i]
  BY <1>1, <1>2 DEF Item
<1>4. items \in [1 .. Len(q) -> Item]
  BY <1>1, <1>3
<1>5. items \in Seq(Item) /\ Len(items) = Len(q)
  BY <1>1, <1>4
<1>6. q # <<>> => items # <<>>
  <2>1. Len(<<>>) = 0
    OBVIOUS
  <2>2. q # <<>> => Len(q) # 0
    BY EmptySeq
  <2>3. QED
    BY <1>5, <2>1, <2>2
<1>7. QED
  BY <1>3, <1>5, <1>6

LEMMA TypeClaim ==
  ASSUME TypeInv, NEW w \in Workers, Claim(w)
  PROVE  TypeInv'
<1>1. PICK q \in Batches :
        /\ outbox' = [ m \in Messages |->
                         IF \E i \in DOMAIN q : q[i] = m THEN [outbox[m] EXCEPT !.due = Lease]
                         ELSE IF TooOld(m) THEN [outbox[m] EXCEPT !.body = FALSE]
                         ELSE outbox[m] ]
        /\ call' = IF q = <<>> THEN call
                   ELSE [call EXCEPT ![w] =
                           Attempt("next", [i \in DOMAIN q |->
                                              [id |-> q[i], life |-> outbox[q[i]].life]])]
  BY DEF Claim
<1>2. Lease \in Nat /\ AttemptTime \in Nat /\ MaxAttempts \in Nat /\ w \in Calls
  BY OutboxAssumption DEF Calls
<1>3. outbox \in [Messages -> Row] /\ call \in [Calls -> Call]
  BY DEF TypeInv, TypeOK
<1>4. outbox' \in [Messages -> Row]
  BY <1>1, <1>2, <1>3 DEF Row
<1>5. CASE q = <<>>
  BY <1>1, <1>4, <1>5 DEF Claim, TypeInv, TypeOK
<1>6. CASE q # <<>>
  <2> DEFINE items == [i \in DOMAIN q |-> [id |-> q[i], life |-> outbox[q[i]].life]]
             e == Attempt("next", items)
  <2>1. q \in Seq(Messages)
    BY BatchShape
  <2>2. items \in Seq(Item) /\ items # <<>>
    BY <2>1, <1>6, ItemsShape
  <2>3. call' = [call EXCEPT ![w] = e]
    BY <1>1, <1>6
  <2> HIDE DEF items
  <2>4. /\ e = [at |-> "next", queue |-> items, left |-> AttemptTime, failed |-> 0]
        /\ e \in Call
    BY <1>2, <2>2 DEF Attempt, Call, Phases
  <2> HIDE DEF e
  <2>5. call' \in [Calls -> Call]
    BY <2>3, <2>4, <1>2, <1>3
  <2>6. call'[w] = e /\ \A c \in Calls \ {w} : call'[c] = call[c]
    BY <2>3, <1>2, <1>3
  <2>7. \A c \in Calls : /\ call'[c].at = "idle" <=> call'[c].queue = <<>>
                         /\ call'[c].at = "retry" => call'[c].failed > 0
    BY <2>2, <2>4, <2>6 DEF TypeInv, TypeOK
  <2>8. QED
    BY <2>5, <2>7, <1>4 DEF Claim, TypeInv, TypeOK
<1>7. QED
  BY <1>5, <1>6


\* A new attempt by a request that was idle.
LEMMA TypeRequest ==
  ASSUME TypeInv, NEW r \in Requests, NEW m \in Messages, SendDurably(r, m) \/ Requeue(r, m)
  PROVE  TypeInv'
<1> DEFINE queue == <<[id |-> m, life |-> Ttl]>>
           e == Attempt("sending", queue)
<1>1. /\ Lease \in Nat /\ AttemptTime \in Nat /\ MaxAttempts \in Nat /\ Ttl \in Nat
      /\ Retention \in Nat /\ r \in Calls
  BY OutboxAssumption DEF Calls
<1>2. outbox \in [Messages -> Row] /\ call \in [Calls -> Call]
  BY DEF TypeInv, TypeOK
<1>3. outbox' \in [Messages -> Row]
  <2>1. /\ Waiting(TRUE, Retention) \in Row
        /\ Waiting(outbox[m].body, outbox[m].keep) \in Row
    BY <1>1, <1>2 DEF Waiting, Row, Statuses
  <2>2. \/ outbox' = [outbox EXCEPT ![m] = Waiting(TRUE, Retention)]
        \/ outbox' = [outbox EXCEPT ![m] = Waiting(outbox[m].body, outbox[m].keep)]
    BY DEF SendDurably, Requeue
  <2>3. QED
    BY <1>2, <2>1, <2>2
<1>4. call' = [call EXCEPT ![r] = e] /\ UNCHANGED <<delivered, late, crashes>>
  BY DEF SendDurably, Requeue
<1>5. queue \in Seq(Item) /\ queue # <<>>
  BY <1>1 DEF Item
<1> HIDE DEF queue
<1>6. /\ e = [at |-> "sending", queue |-> queue, left |-> AttemptTime, failed |-> 0]
      /\ e \in Call
  BY <1>1, <1>5 DEF Attempt, Call, Phases
<1> HIDE DEF e
<1>7. /\ call' \in [Calls -> Call]
      /\ call'[r] = e /\ \A c \in Calls \ {r} : call'[c] = call[c]
  BY <1>1, <1>2, <1>4, <1>6
<1>8. \A c \in Calls : /\ call'[c].at = "idle" <=> call'[c].queue = <<>>
                       /\ call'[c].at = "retry" => call'[c].failed > 0
  BY <1>5, <1>6, <1>7 DEF TypeInv, TypeOK
<1>9. QED
  BY <1>3, <1>4, <1>7, <1>8 DEF TypeInv, TypeOK

\* A step after which the call turns to its next message: what is left to show is the table's.
LEMMA TypeNextMessage ==
  ASSUME TypeInv, NEW c \in Calls, call[c].at # "idle", NextMessage(c),
         outbox' \in [Messages -> Row], UNCHANGED <<delivered, late>>, crashes' \in 0 .. MaxCrashes
  PROVE  TypeInv'
<1>1. \A d \in Calls : /\ call'[d].at = "idle" <=> call'[d].queue = <<>>
                       /\ call'[d].at = "retry" => call'[d].failed > 0
  BY QueueMoves DEF TypeInv, TypeOK
<1>2. QED
  BY <1>1, QueueMoves DEF TypeInv, TypeOK

\* A step after which the call is in another phase of the same message.
LEMMA TypeBecomes ==
  ASSUME TypeInv, NEW c \in Calls, call[c].at # "idle", NEW p \in Phases \ {"idle", "retry"},
         Becomes(c, p), UNCHANGED <<outbox, late, crashes>>, delivered' \subseteq Messages
  PROVE  TypeInv'
<1>1. call \in [Calls -> Call]
  BY DEF TypeInv, TypeOK
<1>2. /\ call' \in [Calls -> Call]
      /\ call'[c].at = p /\ call'[c].queue = call[c].queue
      /\ \A d \in Calls \ {c} : call'[d] = call[d]
  BY <1>1 DEF Becomes, Call
<1>3. QED
  BY <1>2 DEF TypeInv, TypeOK

LEMMA TypeProceed ==
  ASSUME TypeInv, NEW c \in Calls, Proceed(c)
  PROVE  TypeInv'
<1>1. outbox \in [Messages -> Row] /\ call \in [Calls -> Call] /\ MaxAttempts \in Nat \ {0}
  BY OutboxAssumption DEF TypeInv, TypeOK
<1>2. call[c].at # "idle"
  BY DEF Proceed, GiveUp, Begin, Deliver, MarkSent, MarkFails, CountFailure, WriteVerdict
<1>3. Current(c) \in Messages
  BY <1>2, AtWork
<1>4. CASE GiveUp(c) \/ MarkSent(c)
  <2>1. outbox' \in [Messages -> Row]
    BY <1>1, <1>3, <1>4 DEF GiveUp, MarkSent, Row, Statuses
  <2>2. QED
    BY <2>1, <1>2, <1>4, TypeNextMessage DEF GiveUp, MarkSent, TypeInv, TypeOK
<1>5. CASE Begin(c)
  BY <1>2, <1>5, TypeBecomes DEF Begin, Phases, TypeInv, TypeOK
<1>6. CASE Deliver(c)
  BY <1>2, <1>3, <1>6, TypeBecomes DEF Deliver, Phases, TypeInv, TypeOK
<1>7. CASE MarkFails(c)
  <2>1. crashes' \in 0 .. MaxCrashes
    BY <1>7, OutboxAssumption DEF MarkFails, TypeInv, TypeOK
  <2>2. QED
    BY <2>1, <1>1, <1>2, <1>7, TypeNextMessage DEF MarkFails
<1>8. CASE CountFailure(c)
  <2> DEFINE row == outbox[Current(c)]
             failed == IF row.attempts < MaxAttempts THEN row.attempts + 1 ELSE MaxAttempts
             verdict == IF row.life = 0 THEN "expired"
                        ELSE IF Exhausted(failed) THEN "dead" ELSE "retry"
  <2>1. failed \in 0 .. MaxAttempts /\ failed > 0
    BY <1>1, <1>3 DEF Row
  <2>2. verdict \in Phases \ {"idle"}
    BY DEF Phases
  <2>3. /\ outbox' = [outbox EXCEPT ![Current(c)].attempts = failed]
        /\ call' = [call EXCEPT ![c].at = verdict, ![c].failed = failed]
        /\ UNCHANGED <<delivered, late, crashes>>
    BY <1>8 DEF CountFailure
  <2> HIDE DEF failed, verdict
  <2>4. outbox' \in [Messages -> Row]
    BY <2>1, <2>3, <1>1, <1>3 DEF Row
  <2>5. /\ call' \in [Calls -> Call]
        /\ call'[c].at = verdict /\ call'[c].queue = call[c].queue /\ call'[c].failed = failed
        /\ \A d \in Calls \ {c} : call'[d] = call[d]
    BY <2>1, <2>2, <2>3, <1>1 DEF Call
  <2>6. QED
    BY <2>1, <2>2, <2>3, <2>4, <2>5, <1>2 DEF TypeInv, TypeOK
<1>9. CASE WriteVerdict(c)
  <2>1. CASE call[c].at = "retry"
    <3>1. BackoffAfter(call[c].failed) \in Nat
      BY <2>1, <1>1, BackoffIsTime DEF TypeInv, Call
    <3>2. outbox' = [outbox EXCEPT ![Current(c)].due = BackoffAfter(call[c].failed)]
      BY <2>1, <1>9 DEF WriteVerdict
    <3>3. outbox' \in [Messages -> Row]
      BY <3>1, <3>2, <1>1, <1>3 DEF Row
    <3>4. QED
      BY <3>3, <1>2, <1>9, TypeNextMessage DEF WriteVerdict, TypeInv, TypeOK
  <2>2. CASE call[c].at # "retry"
    <3>1. outbox' \in [Messages -> Row]
      BY <2>2, <1>1, <1>3, <1>9 DEF WriteVerdict, Row, Statuses
    <3>2. QED
      BY <3>1, <1>2, <1>9, TypeNextMessage DEF WriteVerdict, TypeInv, TypeOK
  <2>3. QED
    BY <2>1, <2>2
<1>10. QED
  BY <1>4, <1>5, <1>6, <1>7, <1>8, <1>9 DEF Proceed

LEMMA TypeCrash ==
  ASSUME TypeInv, NEW c \in Calls, Crash(c)
  PROVE  TypeInv'
<1>1. AttemptTime \in Nat /\ MaxAttempts \in Nat /\ MaxCrashes \in Nat
  BY OutboxAssumption
<1>2. Idle \in Call /\ Idle.at = "idle" /\ Idle.queue = <<>>
  BY <1>1 DEF Idle, Call, Phases
<1>3. /\ call' \in [Calls -> Call] /\ call'[c] = Idle
      /\ \A d \in Calls \ {c} : call'[d] = call[d]
  BY <1>2 DEF Crash, TypeInv, TypeOK
<1>4. crashes' \in 0 .. MaxCrashes
  BY <1>1 DEF Crash, TypeInv, TypeOK
<1>5. QED
  BY <1>2, <1>3, <1>4 DEF Crash, TypeInv, TypeOK

\* What time does to the calls.
LEMMA TickMoves ==
  ASSUME TypeInv, Tick, NEW c \in Calls
  PROVE  /\ call'[c] \in Call
         /\ call'[c].at = call[c].at /\ call'[c].failed = call[c].failed
         /\ call'[c].left = Less(call[c].left)
         /\ Len(call'[c].queue) = Len(call[c].queue)
         /\ \A i \in 1 .. Len(call[c].queue) : call'[c].queue[i].id = call[c].queue[i].id
         /\ call'[c].queue = <<>> <=> call[c].queue = <<>>
<1> DEFINE q == call[c].queue
           r == OlderQueue(q)
<1>1. /\ call[c] \in Call /\ q \in Seq(Item) /\ DOMAIN q = 1 .. Len(q) /\ Len(q) \in Nat
      /\ AttemptTime \in Nat
  BY OutboxAssumption DEF TypeInv, TypeOK, Call
<1>2. call'[c] = [ at |-> call[c].at, queue |-> r, left |-> Less(call[c].left),
                   failed |-> call[c].failed ]
  BY DEF Tick, OlderCall
<1>3. \A i \in 1 .. Len(q) : r[i] \in Item /\ r[i].id = q[i].id
  <2> SUFFICES ASSUME NEW i \in 1 .. Len(q)
               PROVE  r[i] \in Item /\ r[i].id = q[i].id
    OBVIOUS
  <2>1. q[i] \in Item
    BY <1>1
  <2>2. r[i] = [id |-> q[i].id, life |-> Less(q[i].life)]
    BY <1>1 DEF OlderQueue
  <2>3. QED
    BY <2>1, <2>2 DEF Item, Less
<1>4. r \in Seq(Item) /\ Len(r) = Len(q)
  <2>1. r \in [1 .. Len(q) -> Item]
    BY <1>1, <1>3 DEF OlderQueue
  <2>2. QED
    BY <2>1, <1>1
<1>5. r = <<>> <=> q = <<>>
  <2>1. Len(r) = 0 <=> r = <<>>
    BY <1>4, EmptySeq
  <2>2. Len(q) = 0 <=> q = <<>>
    BY <1>1, EmptySeq
  <2>3. QED
    BY <2>1, <2>2, <1>4
<1> HIDE DEF r
<1>6. Less(call[c].left) \in 0 .. AttemptTime
  BY <1>1 DEF Less, Call
<1>7. QED
  BY <1>1, <1>2, <1>3, <1>4, <1>5, <1>6 DEF Call

LEMMA TypeTick ==
  ASSUME TypeInv, Tick
  PROVE  TypeInv'
<1>1. outbox' \in [Messages -> Row]
  BY DEF Tick, OlderRow, Less, TypeInv, TypeOK, Row
<1>2. call' \in [Calls -> Call]
  <2>1. call' = [c \in Calls |-> call'[c]]
    BY DEF Tick
  <2>2. QED
    BY <2>1, TickMoves
<1>3. \A c \in Calls : /\ call'[c].at = "idle" <=> call'[c].queue = <<>>
                       /\ call'[c].at = "retry" => call'[c].failed > 0
  BY TickMoves DEF TypeInv, TypeOK
<1>4. late' \subseteq Messages
  BY DEF Tick, TypeInv, TypeOK
<1>5. QED
  BY <1>1, <1>2, <1>3, <1>4 DEF Tick, TypeInv, TypeOK

LEMMA TypeStep == TypeInv /\ [Next]_vars => TypeInv'
<1> SUFFICES ASSUME TypeInv, [Next]_vars
             PROVE  TypeInv'
  OBVIOUS
<1>1. CASE \E r \in Requests, m \in Messages : SendDurably(r, m) \/ Requeue(r, m)
  BY <1>1, TypeRequest
<1>2. CASE \E w \in Workers : Claim(w)
  BY <1>2, TypeClaim
<1>3. CASE \E c \in Calls : Proceed(c) \/ Crash(c)
  BY <1>3, TypeProceed, TypeCrash
<1>4. CASE Tick
  BY <1>4, TypeTick
<1>5. CASE UNCHANGED vars
  BY <1>5 DEF vars, TypeInv, TypeOK
<1>6. QED
  BY <1>1, <1>2, <1>3, <1>4, <1>5 DEF Next

\* The table and the calls keep their shape: statuses, counts and timers stay in their ranges,
\* and a call has messages claimed exactly while it is at work.
THEOREM TypeCorrect == Spec => []TypeOK
<1>1. TypeInv => TypeOK
  BY DEF TypeInv
<1>2. QED
  BY <1>1, TypeInitial, TypeStep, PTL DEF Spec

-----------------------------------------------------------------------------
(* A message that waits has its text. *)

LEMMA PendingHasBodyStep == TypeInv /\ PendingHasBody /\ [Next]_vars => PendingHasBody'
<1> SUFFICES ASSUME TypeInv, PendingHasBody, [Next]_vars, NEW m \in Messages,
                    outbox'[m].status = "pending"
             PROVE  outbox'[m].body
  BY DEF PendingHasBody
<1>1. outbox \in [Messages -> Row] /\ call \in [Calls -> Call]
  BY DEF TypeInv, TypeOK
<1>2. outbox[m].status = "pending" => outbox[m].body
  BY DEF PendingHasBody
<1>3. CASE \E r \in Requests, n \in Messages : SendDurably(r, n) \/ Requeue(r, n)
  BY <1>1, <1>2, <1>3 DEF SendDurably, Requeue, Resendable, Waiting
<1>4. CASE \E w \in Workers : Claim(w)
  BY <1>1, <1>2, <1>4 DEF Claim, TooOld, Row
<1>5. CASE \E c \in Calls : Proceed(c) \/ Crash(c)
  <2>1. PICK c \in Calls : Proceed(c) \/ Crash(c)
    BY <1>5
  <2>2. CASE outbox'[m] = outbox[m]
    BY <2>2, <1>2
  <2>3. CASE outbox'[m] # outbox[m]
    <3>1. Current(c) = m
      BY <1>1, <2>1, <2>3
         DEF Proceed, GiveUp, Begin, Deliver, MarkSent, MarkFails, CountFailure, WriteVerdict, Crash
    <3>2. outbox[m].status = "pending" /\ outbox'[m].body = outbox[m].body
      BY <1>1, <2>1, <2>3, <3>1
         DEF Proceed, GiveUp, Begin, Deliver, MarkSent, MarkFails, CountFailure, WriteVerdict,
             Crash, Row
    <3>3. QED
      BY <3>2, <1>2
  <2>4. QED
    BY <2>2, <2>3
<1>6. CASE Tick
  BY <1>1, <1>2, <1>6 DEF Tick, OlderRow
<1>7. CASE UNCHANGED vars
  BY <1>2, <1>7 DEF vars
<1>8. QED
  BY <1>3, <1>4, <1>5, <1>6, <1>7 DEF Next

\* Whatever fails, a message that waits to be sent still has the text to send.
THEOREM NothingEmpty == Spec => []PendingHasBody
<1>1. Init => PendingHasBody
  BY DEF Init, NoRow, PendingHasBody
<1>2. QED
  BY <1>1, TypeInitial, TypeStep, PendingHasBodyStep, PTL DEF Spec

-----------------------------------------------------------------------------
(* One sender. *)

Claimed(c) == 1 .. Len(call[c].queue)
Id(c, i) == call[c].queue[i].id

\* What a call has claimed is in the table, and waits under a lease that runs unless it is late.
LeaseHeld ==
  \A c \in Calls : \A i \in Claimed(c) :
    /\ outbox[Id(c, i)].status # "none"
    /\ Id(c, i) \notin late => outbox[Id(c, i)].status = "pending" /\ outbox[Id(c, i)].due > 0

\* A batch has no message twice, and two calls have claimed the same message only if it is late.
Alone ==
  \A c, d \in Calls : \A i \in Claimed(c), j \in Claimed(d) :
    Id(c, i) = Id(d, j) => IF c = d THEN i = j ELSE Id(c, i) \in late

LeaseInv == TypeInv /\ LeaseHeld /\ Alone

LEMMA ClaimedInTable ==
  ASSUME TypeInv, NEW c \in Calls, NEW i \in Claimed(c)
  PROVE  Id(c, i) \in Messages /\ call[c].at # "idle"
<1>1. call[c].queue \in Seq(Item) /\ Len(<<>>) = 0
  BY DEF TypeInv, TypeOK, Call
<1>2. call[c].queue[i] \in Item /\ call[c].queue # <<>>
  BY <1>1 DEF Claimed
<1>3. QED
  BY <1>2 DEF Id, Item, TypeInv, TypeOK

\* A call that is through with its message leaves the others as they were, a place nearer.
LEMMA LeaseNextMessage ==
  ASSUME LeaseInv, TypeInv', NEW c \in Calls, call[c].at # "idle", NextMessage(c), UNCHANGED late,
         outbox'[Current(c)].status # "none",
         \A m \in Messages \ {Current(c)} : outbox'[m] = outbox[m]
  PROVE  LeaseInv'
<1>1. TypeInv
  BY DEF LeaseInv
<1>2. /\ Current(c) = Id(c, 1) /\ 1 \in Claimed(c)
      /\ \A d \in Calls : Len(call[d].queue) \in Nat
  BY <1>1, AtWork DEF Id, Claimed, TypeInv, TypeOK, Call
<1>3. \A d \in Calls \ {c} : call'[d] = call[d]
  BY <1>1, QueueMoves
<1>4. /\ Len(call'[c].queue) = Len(call[c].queue) - 1
      /\ \A i \in 1 .. Len(call'[c].queue) : call'[c].queue[i] = call[c].queue[i + 1]
  BY <1>1, QueueMoves
<1>5. \A i \in Claimed(c)' : i + 1 \in Claimed(c) /\ i + 1 # 1 /\ Id(c, i)' = Id(c, i + 1)
  BY <1>2, <1>4 DEF Claimed, Id
<1>6. \A d \in Calls \ {c} : Claimed(d)' = Claimed(d) /\ \A i \in Claimed(d) : Id(d, i)' = Id(d, i)
  BY <1>3 DEF Claimed, Id
<1> DEFINE before(d, i) == IF d = c THEN i + 1 ELSE i
<1>7. \A d \in Calls : \A i \in Claimed(d)' :
        before(d, i) \in Claimed(d) /\ Id(d, i)' = Id(d, before(d, i))
  BY <1>5, <1>6
<1>8. LeaseHeld'
  <2> SUFFICES ASSUME NEW d \in Calls, NEW i \in Claimed(d)'
               PROVE  /\ outbox'[Id(d, i)'].status # "none"
                      /\ Id(d, i)' \notin late =>
                           outbox'[Id(d, i)'].status = "pending" /\ outbox'[Id(d, i)'].due > 0
    BY DEF LeaseHeld
  <2> DEFINE m == Id(d, before(d, i))
  <2>1. Id(d, i)' = m /\ before(d, i) \in Claimed(d) /\ m \in Messages
    BY <1>1, <1>7, ClaimedInTable
  <2>2. /\ outbox[m].status # "none"
        /\ m \notin late => outbox[m].status = "pending" /\ outbox[m].due > 0
    BY <2>1 DEF LeaseInv, LeaseHeld
  <2>3. m = Current(c) => m \in late
    <3> SUFFICES ASSUME Id(d, before(d, i)) = Id(c, 1)
                 PROVE  m \in late
      BY <1>2
    <3>1. d # c
      BY <1>2, <1>5, <2>1 DEF LeaseInv, Alone
    <3> QED
      BY <1>2, <2>1, <3>1 DEF LeaseInv, Alone
  <2> HIDE DEF m
  <2> QED
    BY <2>1, <2>2, <2>3
<1>9. Alone'
  <2> SUFFICES ASSUME NEW d \in Calls, NEW e \in Calls, NEW i \in Claimed(d)', NEW j \in Claimed(e)',
                      Id(d, i)' = Id(e, j)'
               PROVE  IF d = e THEN i = j ELSE Id(d, i)' \in late
    BY DEF Alone
  <2>1. /\ before(d, i) \in Claimed(d) /\ Id(d, i)' = Id(d, before(d, i))
        /\ before(e, j) \in Claimed(e) /\ Id(e, j)' = Id(e, before(e, j))
    BY <1>7
  <2>2. IF d = e THEN before(d, i) = before(e, j) ELSE Id(d, before(d, i)) \in late
    <3> HIDE DEF before
    <3> QED
      BY <2>1 DEF LeaseInv, Alone
  <2>3. i \in Int /\ j \in Int
    BY <1>2, <1>4, <1>6 DEF Claimed
  <2>4. QED
    BY <2>1, <2>2, <2>3
<1>10. QED
  BY <1>8, <1>9 DEF LeaseInv

\* A call that looks at its message, hands it over or counts its failure keeps its claims.
LEMMA LeaseSame ==
  ASSUME LeaseInv, TypeInv', UNCHANGED late, \A c \in Calls : call'[c].queue = call[c].queue,
         \A m \in Messages : outbox'[m].status = outbox[m].status /\ outbox'[m].due = outbox[m].due
  PROVE  LeaseInv'
<1>1. \A c \in Calls : Claimed(c)' = Claimed(c) /\ \A i \in Claimed(c) : Id(c, i)' = Id(c, i)
  BY DEF Claimed, Id
<1>2. \A c \in Calls : \A i \in Claimed(c) : Id(c, i) \in Messages
  BY ClaimedInTable DEF LeaseInv
<1>3. LeaseHeld'
  BY <1>1, <1>2 DEF LeaseInv, LeaseHeld
<1>4. Alone'
  BY <1>1 DEF LeaseInv, Alone
<1>5. QED
  BY <1>3, <1>4 DEF LeaseInv

\* A call that was idle starts on a batch of different messages that are under nobody's lease.
LEMMA LeaseStart ==
  ASSUME LeaseInv, TypeInv', UNCHANGED late, NEW c \in Calls, call[c].at = "idle",
         \A d \in Calls \ {c} : call'[d] = call[d],
         \A i, j \in Claimed(c)' : Id(c, i)' = Id(c, j)' => i = j,
         \A i \in Claimed(c)' :
           /\ outbox'[Id(c, i)'].status = "pending"
           /\ outbox'[Id(c, i)'].due > 0
           /\ outbox[Id(c, i)'].status # "pending" \/ outbox[Id(c, i)'].due = 0,
         \A m \in Messages :
           /\ outbox[m].status # "none" => outbox'[m].status # "none"
           /\ outbox[m].status = "pending" /\ outbox[m].due > 0
                => outbox'[m].status = "pending" /\ outbox'[m].due = outbox[m].due
  PROVE  LeaseInv'
<1>1. \A d \in Calls \ {c} : Claimed(d)' = Claimed(d) /\ \A i \in Claimed(d) : Id(d, i)' = Id(d, i)
  BY DEF Claimed, Id
<1>2. \A d \in Calls : \A i \in Claimed(d) :
        /\ Id(d, i) \in Messages
        /\ outbox[Id(d, i)].status # "none"
        /\ Id(d, i) \notin late => outbox[Id(d, i)].status = "pending" /\ outbox[Id(d, i)].due > 0
  BY ClaimedInTable DEF LeaseInv, LeaseHeld
<1>3. LeaseHeld'
  <2> SUFFICES ASSUME NEW d \in Calls, NEW i \in Claimed(d)'
               PROVE  /\ outbox'[Id(d, i)'].status # "none"
                      /\ Id(d, i)' \notin late =>
                           outbox'[Id(d, i)'].status = "pending" /\ outbox'[Id(d, i)'].due > 0
    BY DEF LeaseHeld
  <2>1. CASE d = c
    BY <2>1
  <2>2. CASE d # c
    <3>1. i \in Claimed(d) /\ Id(d, i)' = Id(d, i)
      BY <1>1, <2>2
    <3>2. QED
      BY <3>1, <1>2
  <2>3. QED
    BY <2>1, <2>2
<1>4. \A f \in Calls \ {c} : \A k \in Claimed(f)', l \in Claimed(c)' :
        Id(f, k)' = Id(c, l)' => Id(f, k)' \in late
  <2> SUFFICES ASSUME NEW f \in Calls \ {c}, NEW k \in Claimed(f)', NEW l \in Claimed(c)',
                      Id(f, k)' = Id(c, l)', Id(f, k)' \notin late
               PROVE  FALSE
    OBVIOUS
  <2>1. k \in Claimed(f) /\ Id(f, k)' = Id(f, k)
    BY <1>1
  <2>2. outbox[Id(f, k)].status = "pending" /\ outbox[Id(f, k)].due > 0
    BY <2>1, <1>2
  <2>3. outbox[Id(c, l)'].status # "pending" \/ outbox[Id(c, l)'].due = 0
    OBVIOUS
  <2>4. QED
    BY <2>1, <2>2, <2>3
<1>5. Alone'
  <2> SUFFICES ASSUME NEW d \in Calls, NEW e \in Calls, NEW i \in Claimed(d)', NEW j \in Claimed(e)',
                      Id(d, i)' = Id(e, j)'
               PROVE  IF d = e THEN i = j ELSE Id(d, i)' \in late
    BY DEF Alone
  <2>1. CASE d = c /\ e = c
    BY <2>1
  <2>2. CASE d # c /\ e # c
    BY <2>2, <1>1 DEF LeaseInv, Alone
  <2>3. QED
    BY <1>4, <2>1, <2>2
<1>6. QED
  BY <1>3, <1>5 DEF LeaseInv

\* What is held when its lease runs out is late from then on.
LEMMA LeaseTick ==
  ASSUME LeaseInv, TypeInv', Tick
  PROVE  LeaseInv'
<1>1. TypeInv
  BY DEF LeaseInv
<1>2. \A c \in Calls : Claimed(c)' = Claimed(c) /\ \A i \in Claimed(c) : Id(c, i)' = Id(c, i)
  BY <1>1, TickMoves DEF Claimed, Id
<1>3. Alone'
  <2>1. late \subseteq late'
    BY DEF Tick
  <2> QED
    BY <1>2, <2>1 DEF LeaseInv, Alone
<1>4. LeaseHeld'
  <2> SUFFICES ASSUME NEW c \in Calls, NEW i \in Claimed(c)
               PROVE  /\ outbox'[Id(c, i)].status # "none"
                      /\ Id(c, i) \notin late' =>
                           outbox'[Id(c, i)].status = "pending" /\ outbox'[Id(c, i)].due > 0
    BY <1>2 DEF LeaseHeld
  <2> DEFINE m == Id(c, i)
  <2>1. m \in Messages /\ outbox[m].due \in Nat
    BY <1>1, ClaimedInTable DEF TypeInv, TypeOK, Row
  <2>2. /\ outbox[m].status # "none"
        /\ m \notin late => outbox[m].status = "pending" /\ outbox[m].due > 0
    BY DEF LeaseInv, LeaseHeld
  <2>3. Holds(c, m)
    <3>1. call[c].queue \in Seq(Item)
      BY <1>1 DEF TypeInv, TypeOK, Call
    <3> QED
      BY <3>1 DEF Holds, Claimed, Id
  <2>4. m \notin late' => m \notin late /\ ~(outbox[m].due <= 1)
    BY <2>1, <2>3 DEF Tick
  <2>5. outbox'[m].status = outbox[m].status /\ outbox'[m].due = Less(outbox[m].due)
    BY <2>1 DEF Tick, OlderRow
  <2> HIDE DEF m
  <2>6. m \notin late' => outbox'[m].due > 0
    BY <2>1, <2>4, <2>5 DEF Less
  <2> QED
    BY <2>2, <2>4, <2>5, <2>6 DEF m
<1>5. QED
  BY <1>3, <1>4 DEF LeaseInv

LEMMA LeaseRequest ==
  ASSUME LeaseInv, TypeInv',
         NEW r \in Requests, NEW m \in Messages, SendDurably(r, m) \/ Requeue(r, m)
  PROVE  LeaseInv'
<1> DEFINE q == <<[id |-> m, life |-> Ttl]>>
<1>1. /\ r \in Calls /\ outbox \in [Messages -> Row] /\ call \in [Calls -> Call]
      /\ Lease \in Nat \ {0}
  BY OutboxAssumption DEF Calls, LeaseInv, TypeInv, TypeOK
<1>2. /\ call[r].at = "idle"
      /\ call' = [call EXCEPT ![r] = Attempt("sending", q)]
      /\ outbox[m].status # "pending" /\ UNCHANGED late
  BY DEF SendDurably, Requeue, Resendable
<1>3. /\ outbox'[m].status = "pending" /\ outbox'[m].due = Lease
      /\ \A n \in Messages \ {m} : outbox'[n] = outbox[n]
  BY <1>1 DEF SendDurably, Requeue, Waiting
<1>4. q \in Seq(Item) /\ Len(q) = 1 /\ q[1].id = m
  BY OutboxAssumption DEF Item
<1> HIDE DEF q
<1>5. call'[r].queue = q /\ \A d \in Calls \ {r} : call'[d] = call[d]
  BY <1>1, <1>2 DEF Attempt
<1>6. Len(call'[r].queue) = 1 /\ Id(r, 1)' = m
  <2>1. Len(call'[r].queue) = Len(q)
    BY <1>5
  <2>2. QED
    BY <2>1, <1>4, <1>5 DEF Id
<1>7. /\ \A i, j \in Claimed(r)' : Id(r, i)' = Id(r, j)' => i = j
      /\ \A i \in Claimed(r)' :
           /\ outbox'[Id(r, i)'].status = "pending"
           /\ outbox'[Id(r, i)'].due > 0
           /\ outbox[Id(r, i)'].status # "pending" \/ outbox[Id(r, i)'].due = 0
  <2>1. Claimed(r)' = 1 .. 1
    BY <1>6 DEF Claimed
  <2>2. \A i \in Claimed(r)' : i = 1 /\ Id(r, i)' = m
    BY <2>1, <1>6
  <2>3. QED
    BY <2>2, <1>1, <1>2, <1>3
<1>8. \A n \in Messages :
        /\ outbox[n].status # "none" => outbox'[n].status # "none"
        /\ outbox[n].status = "pending" /\ outbox[n].due > 0
             => outbox'[n].status = "pending" /\ outbox'[n].due = outbox[n].due
  BY <1>2, <1>3
<1>9. QED
  BY <1>1, <1>2, <1>5, <1>7, <1>8, LeaseStart

LEMMA LeaseClaim ==
  ASSUME LeaseInv, TypeInv', NEW w \in Workers, Claim(w)
  PROVE  LeaseInv'
<1>1. /\ w \in Calls /\ outbox \in [Messages -> Row] /\ call \in [Calls -> Call] /\ TypeInv
      /\ Lease \in Nat \ {0} /\ UNCHANGED late
  BY OutboxAssumption DEF Claim, Calls, LeaseInv, TypeInv, TypeOK
<1>2. PICK q \in Batches :
        /\ outbox' = [ m \in Messages |->
                         IF \E i \in DOMAIN q : q[i] = m THEN [outbox[m] EXCEPT !.due = Lease]
                         ELSE IF TooOld(m) THEN [outbox[m] EXCEPT !.body = FALSE]
                         ELSE outbox[m] ]
        /\ call' = IF q = <<>> THEN call
                   ELSE [call EXCEPT ![w] =
                           Attempt("next", [i \in DOMAIN q |->
                                              [id |-> q[i], life |-> outbox[q[i]].life]])]
  BY DEF Claim
<1>3. /\ q \in Seq(Messages) /\ DOMAIN q = 1 .. Len(q)
      /\ \A i, j \in 1 .. Len(q) : q[i] = q[j] => i = j
      /\ \A i \in 1 .. Len(q) : DueNow(q[i])
  BY <1>1, BatchShape
<1>4. \A i \in 1 .. Len(q) :
        /\ q[i] \in Messages
        /\ outbox[q[i]].due = 0
        /\ outbox'[q[i]].status = "pending" /\ outbox'[q[i]].due = Lease
  BY <1>1, <1>2, <1>3 DEF DueNow, Row
<1>5. \A n \in Messages : outbox[n].status # "none" => outbox'[n].status # "none"
  BY <1>1, <1>2 DEF Row
<1>9. \A n \in Messages :
        outbox[n].status = "pending" /\ outbox[n].due > 0
          => outbox'[n].status = "pending" /\ outbox'[n].due = outbox[n].due
  <2> SUFFICES ASSUME NEW n \in Messages, outbox[n].status = "pending", outbox[n].due > 0
               PROVE  outbox'[n].status = "pending" /\ outbox'[n].due = outbox[n].due
    OBVIOUS
  <2>1. ~\E i \in DOMAIN q : q[i] = n
    BY <1>1, <1>3, <1>4 DEF Row
  <2>2. ~TooOld(n)
    BY DEF TooOld
  <2>3. QED
    BY <1>2, <2>1, <2>2
<1>6. CASE q = <<>>
  <2>1. call' = call /\ DOMAIN q = {}
    BY <1>2, <1>6
  <2>2. \A c \in Calls : Claimed(c)' = Claimed(c) /\ \A i \in Claimed(c) : Id(c, i)' = Id(c, i)
    BY <2>1 DEF Claimed, Id
  <2>3. \A n \in Messages : outbox'[n].status = outbox[n].status /\ outbox'[n].due = outbox[n].due
    BY <1>1, <1>2, <2>1 DEF Row
  <2>4. QED
    BY <1>1, <2>1, <2>3, LeaseSame
<1>7. CASE q # <<>>
  <2> DEFINE items == [i \in DOMAIN q |-> [id |-> q[i], life |-> outbox[q[i]].life]]
  <2>1. /\ items \in Seq(Item) /\ Len(items) = Len(q)
        /\ \A i \in 1 .. Len(q) : items[i].id = q[i]
    BY <1>1, <1>3, ItemsShape
  <2>2. call' = [call EXCEPT ![w] = Attempt("next", items)]
    BY <1>2, <1>7
  <2> HIDE DEF items
  <2>3. call'[w].queue = items /\ \A d \in Calls \ {w} : call'[d] = call[d]
    BY <1>1, <2>2 DEF Attempt
  <2>4. Claimed(w)' = 1 .. Len(q) /\ \A i \in 1 .. Len(q) : Id(w, i)' = q[i]
    BY <2>1, <2>3 DEF Claimed, Id
  <2>5. /\ \A i, j \in Claimed(w)' : Id(w, i)' = Id(w, j)' => i = j
        /\ \A i \in Claimed(w)' :
             /\ outbox'[Id(w, i)'].status = "pending"
             /\ outbox'[Id(w, i)'].due > 0
             /\ outbox[Id(w, i)'].status # "pending" \/ outbox[Id(w, i)'].due = 0
    BY <1>1, <1>3, <1>4, <2>4
  <2>6. call[w].at = "idle"
    BY DEF Claim
  <2>7. QED
    BY <1>1, <1>5, <1>9, <2>3, <2>5, <2>6, LeaseStart
<1>8. QED
  BY <1>6, <1>7

LEMMA LeaseProceed ==
  ASSUME LeaseInv, TypeInv', NEW c \in Calls, Proceed(c)
  PROVE  LeaseInv'
<1>1. /\ outbox \in [Messages -> Row] /\ call \in [Calls -> Call] /\ TypeInv
  BY DEF LeaseInv, TypeInv, TypeOK
<1>2. call[c].at # "idle"
  BY DEF Proceed, GiveUp, Begin, Deliver, MarkSent, MarkFails, CountFailure, WriteVerdict
<1>3. CASE GiveUp(c) \/ MarkSent(c) \/ MarkFails(c) \/ WriteVerdict(c)
  <2>1. \A m \in Messages \ {Current(c)} : outbox'[m] = outbox[m]
    BY <1>1, <1>3 DEF GiveUp, MarkSent, MarkFails, WriteVerdict
  <2>2. NextMessage(c) /\ UNCHANGED late
    BY <1>3 DEF GiveUp, MarkSent, MarkFails, WriteVerdict
  <2>3. Current(c) \in Messages /\ outbox[Current(c)].status # "none"
    BY <1>1, <1>2, AtWork DEF LeaseInv, LeaseHeld, Claimed, Id
  <2>4. outbox'[Current(c)].status # "none"
    BY <1>1, <1>3, <2>3 DEF GiveUp, MarkSent, MarkFails, WriteVerdict, Row
  <2>5. QED
    BY <1>2, <2>1, <2>2, <2>4, LeaseNextMessage
<1>4. CASE Begin(c) \/ Deliver(c)
  <2>1. PICK p \in Phases : Becomes(c, p)
    BY <1>4 DEF Begin, Deliver, Phases
  <2>2. \A d \in Calls : call'[d].queue = call[d].queue
    BY <1>1, <2>1 DEF Becomes, Call
  <2>3. UNCHANGED <<outbox, late>>
    BY <1>4 DEF Begin, Deliver
  <2>4. QED
    BY <2>2, <2>3, LeaseSame
<1>5. CASE CountFailure(c)
  <2>1. PICK n, v : /\ outbox' = [outbox EXCEPT ![Current(c)].attempts = n]
                    /\ call' = [call EXCEPT ![c].at = v, ![c].failed = n]
    BY <1>5 DEF CountFailure
  <2>2. UNCHANGED late /\ \A d \in Calls : call'[d].queue = call[d].queue
    BY <1>1, <1>5, <2>1 DEF CountFailure, Call
  <2>3. \A m \in Messages : outbox'[m].status = outbox[m].status /\ outbox'[m].due = outbox[m].due
    BY <1>1, <2>1 DEF Row
  <2>4. QED
    BY <2>2, <2>3, LeaseSame
<1>6. QED
  BY <1>3, <1>4, <1>5 DEF Proceed

LEMMA LeaseCrash ==
  ASSUME LeaseInv, TypeInv', NEW c \in Calls, Crash(c)
  PROVE  LeaseInv'
<1>1. /\ call \in [Calls -> Call] /\ TypeInv /\ UNCHANGED <<outbox, late>>
  BY DEF Crash, LeaseInv, TypeInv, TypeOK
<1>2. call'[c].queue = <<>> /\ \A d \in Calls \ {c} : call'[d] = call[d]
  BY <1>1 DEF Crash, Idle
<1>3. \A d \in Calls : \A i \in Claimed(d)' :
        d # c /\ i \in Claimed(d) /\ Id(d, i)' = Id(d, i)
  BY <1>2 DEF Claimed, Id
<1>4. LeaseHeld'
  BY <1>1, <1>2, <1>3 DEF LeaseInv, LeaseHeld
<1>5. Alone'
  BY <1>1, <1>3 DEF LeaseInv, Alone
<1>6. QED
  BY <1>4, <1>5 DEF LeaseInv

LEMMA LeaseStep == LeaseInv /\ [Next]_vars => LeaseInv'
<1> SUFFICES ASSUME LeaseInv, [Next]_vars
             PROVE  LeaseInv'
  OBVIOUS
<1>1. TypeInv'
  BY TypeStep DEF LeaseInv
<1>2. CASE \E r \in Requests, m \in Messages : SendDurably(r, m) \/ Requeue(r, m)
  BY <1>1, <1>2, LeaseRequest
<1>3. CASE \E w \in Workers : Claim(w)
  BY <1>1, <1>3, LeaseClaim
<1>4. CASE \E c \in Calls : Proceed(c) \/ Crash(c)
  BY <1>1, <1>4, LeaseProceed, LeaseCrash
<1>5. CASE Tick
  BY <1>1, <1>5, LeaseTick
<1>6. CASE UNCHANGED vars
  BY <1>1, <1>6, LeaseSame DEF vars
<1>7. QED
  BY <1>2, <1>3, <1>4, <1>5, <1>6 DEF Next

LEMMA LeaseInitial == Init => LeaseInv
<1> SUFFICES ASSUME Init
             PROVE  LeaseInv
  OBVIOUS
<1>1. \A c \in Calls : Claimed(c) = {}
  BY DEF Init, Idle, Claimed
<1>2. QED
  BY <1>1, TypeInitial DEF LeaseInv, LeaseHeld, Alone

\* However long the calls take, two of them send the same message at the same time only if some call
\* has held it past its lease.
THEOREM OneSender == Spec => []TwiceOnlyIfLate
<1>1. LeaseInv => TwiceOnlyIfLate
  <2> SUFFICES ASSUME LeaseInv, NEW c \in Calls, NEW d \in Calls, NEW m \in Messages,
                      Sending(c, m), Sending(d, m), c # d
               PROVE  m \in late
    BY DEF TwiceOnlyIfLate
  <2>1. /\ 1 \in Claimed(c) /\ Id(c, 1) = m
        /\ 1 \in Claimed(d) /\ Id(d, 1) = m
    BY AtWork DEF LeaseInv, Sending, Claimed, Id
  <2>2. QED
    BY <2>1 DEF LeaseInv, Alone
<1>2. QED
  BY <1>1, LeaseStep, LeaseInitial, PTL DEF Spec

\* A message recorded as sent is never put back in the queue, whatever late calls write over it.
THEOREM SentForGood == Spec => SentNotRequeued
<1> DEFINE Spent(m) == outbox[m].status \notin {"none", "pending"} /\ ~outbox[m].body
           Stays == \A m \in Messages : Spent(m) => outbox'[m].status # "pending" /\ ~outbox'[m].body
<1>1. TypeInv /\ [Next]_vars => Stays
  <2> SUFFICES ASSUME TypeInv, [Next]_vars, NEW m \in Messages, Spent(m)
               PROVE  outbox'[m].status # "pending" /\ ~outbox'[m].body
    OBVIOUS
  <2>1. outbox \in [Messages -> Row]
    BY DEF TypeInv, TypeOK
  <2>2. CASE \E r \in Requests, n \in Messages : SendDurably(r, n) \/ Requeue(r, n)
    BY <2>1, <2>2 DEF SendDurably, Requeue, Resendable
  <2>3. CASE \E w \in Workers : Claim(w)
    BY <2>1, <2>3 DEF Claim, Row
  <2>4. CASE \E c \in Calls : Proceed(c) \/ Crash(c)
    BY <2>1, <2>4 DEF Proceed, GiveUp, Begin, Deliver, MarkSent, MarkFails, CountFailure,
                      WriteVerdict, Crash, Row
  <2>5. CASE Tick
    BY <2>1, <2>5 DEF Tick, OlderRow
  <2>6. CASE UNCHANGED vars
    BY <2>6 DEF vars
  <2>7. QED
    BY <2>2, <2>3, <2>4, <2>5, <2>6 DEF Next
<1>2. QED
  BY <1>1, TypeInitial, TypeStep, PTL DEF Spec, SentNotRequeued

-----------------------------------------------------------------------------
(* Nothing lost. *)

AcceptedIsDelivered == \A c \in Calls : call[c].at = "accepted" => Current(c) \in delivered

LossInv == LeaseInv /\ PendingHasBody /\ AcceptedIsDelivered /\ NothingLost

LEMMA AcceptedStep ==
  ASSUME TypeInv, AcceptedIsDelivered, [Next]_vars
  PROVE  AcceptedIsDelivered'
<1> SUFFICES ASSUME NEW d \in Calls, call'[d].at = "accepted"
             PROVE  Current(d)' \in delivered'
  BY DEF AcceptedIsDelivered
<1>1. call \in [Calls -> Call] /\ outbox \in [Messages -> Row]
  BY DEF TypeInv, TypeOK
<1>2. CASE call'[d].at = call[d].at /\ Current(d)' = Current(d) /\ delivered \subseteq delivered'
  BY <1>2 DEF AcceptedIsDelivered
<1>3. CASE \E r \in Requests, m \in Messages : SendDurably(r, m) \/ Requeue(r, m)
  <2>1. call'[d] = call[d] /\ delivered' = delivered
    <3>1. PICK r \in Requests :
            \E queue : call' = [call EXCEPT ![r] = Attempt("sending", queue)]
      BY <1>3 DEF SendDurably, Requeue
    <3>2. delivered' = delivered
      BY <1>3 DEF SendDurably, Requeue
    <3>3. QED
      BY <1>1, <3>1, <3>2 DEF Attempt, Calls
  <2>2. QED
    BY <2>1 DEF AcceptedIsDelivered, Current
<1>4. CASE \E w \in Workers : Claim(w)
  <2>1. PICK w \in Workers :
          call' = call \/ \E items : call' = [call EXCEPT ![w] = Attempt("next", items)]
    BY <1>4 DEF Claim
  <2>2. call'[d] = call[d] /\ delivered' = delivered
    BY <1>1, <1>4, <2>1 DEF Claim, Attempt, Calls
  <2>3. QED
    BY <2>2 DEF AcceptedIsDelivered, Current
<1>5. CASE \E c \in Calls : Proceed(c) \/ Crash(c)
  <2>1. PICK c \in Calls : Proceed(c) \/ Crash(c)
    BY <1>5
  <2>2. delivered \subseteq delivered' /\ call[c].at # "idle"
    BY <2>1 DEF Proceed, GiveUp, Begin, Deliver, MarkSent, MarkFails, CountFailure, WriteVerdict, Crash
  <2>3. CASE d # c
    <3>1. call'[d] = call[d]
      BY <1>1, <2>1, <2>3 DEF Proceed, GiveUp, Begin, Deliver, MarkSent, MarkFails, CountFailure,
                              WriteVerdict, Crash, NextMessage, Becomes
    <3>2. QED
      BY <3>1, <2>2 DEF AcceptedIsDelivered, Current
  <2>4. CASE d = c
    <3>1. CASE Deliver(c)
      BY ZenonT(40), <1>1, <2>4, <3>1 DEF Deliver, Becomes, Current, Call
    <3>2. CASE ~Deliver(c)
      <4>1. call'[c].at # "accepted"
        <5>1. CASE GiveUp(c) \/ MarkSent(c) \/ MarkFails(c) \/ WriteVerdict(c)
          BY <5>1, <2>2, QueueMoves DEF GiveUp, MarkSent, MarkFails, WriteVerdict
        <5>2. CASE Begin(c)
          BY <5>2, <1>1 DEF Begin, Becomes, Call
        <5>3. CASE CountFailure(c)
          <6>1. PICK v \in {"expired", "dead", "retry"} :
                  \E n : call' = [call EXCEPT ![c].at = v, ![c].failed = n]
            BY <5>3 DEF CountFailure
          <6>2. QED
            BY <6>1, <1>1 DEF Call
        <5>4. CASE Crash(c)
          BY <5>4, <1>1 DEF Crash, Idle
        <5>5. QED
          BY <2>1, <3>2, <5>1, <5>2, <5>3, <5>4 DEF Proceed
      <4>2. QED
        BY <4>1, <2>4
    <3>3. QED
      BY <3>1, <3>2
  <2>5. QED
    BY <2>3, <2>4
<1>6. CASE Tick
  <2>1. call'[d].at = call[d].at /\ delivered' = delivered
    BY <1>6, TickMoves DEF Tick
  <2>2. call[d].at # "idle" /\ call'[d].at # "idle" /\ TypeInv'
    BY <1>6, <2>1, TypeTick
  <2>3. Current(d) = call[d].queue[1].id /\ 1 \in 1 .. Len(call[d].queue)
    BY <2>2, AtWork
  <2>4. Current(d)' = call'[d].queue[1].id
    <3>1. call'[d].queue \in Seq(Item) /\ call'[d].queue # <<>>
      BY <2>2 DEF TypeInv, TypeOK, Call
    <3>2. QED
      BY <3>1 DEF Current
  <2>5. Current(d)' = Current(d)
    BY <1>6, <2>3, <2>4, TickMoves
  <2>6. QED
    BY <2>1, <2>5 DEF AcceptedIsDelivered
<1>7. CASE UNCHANGED vars
  BY <1>7 DEF vars, AcceptedIsDelivered, Current
<1>8. QED
  BY <1>3, <1>4, <1>5, <1>6, <1>7 DEF Next

LEMMA NothingLostStep ==
  ASSUME LossInv, [Next]_vars
  PROVE  NothingLost'
<1> DEFINE Kept(row, m, D) == row.status # "none" /\ ~row.body =>
                                m \in D \/ row.status = "expired" \/ row.keep = 0
<1> SUFFICES ASSUME NEW m \in Messages, m \notin late'
             PROVE  Kept(outbox'[m], m, delivered')
  BY DEF NothingLost
<1>1. /\ outbox \in [Messages -> Row] /\ call \in [Calls -> Call] /\ TypeInv
      /\ m \notin late
      /\ Kept(outbox[m], m, delivered)
      /\ outbox[m].status = "pending" => outbox[m].body
  <2>1. m \notin late
    BY DEF Next, SendDurably, Requeue, Claim, Proceed, GiveUp, Begin, Deliver, MarkSent, MarkFails,
           CountFailure, WriteVerdict, Crash, Tick, vars
  <2> QED
    BY <2>1 DEF LossInv, LeaseInv, TypeInv, TypeOK, NothingLost, PendingHasBody
<1>2. delivered \subseteq delivered'
  BY DEF Next, SendDurably, Requeue, Claim, Proceed, GiveUp, Begin, Deliver, MarkSent, MarkFails,
         CountFailure, WriteVerdict, Crash, Tick, vars
<1>3. CASE outbox'[m] = outbox[m]
  BY <1>1, <1>2, <1>3
<1>4. CASE \E r \in Requests, n \in Messages : SendDurably(r, n) \/ Requeue(r, n)
  BY <1>1, <1>2, <1>4 DEF SendDurably, Requeue, Resendable, Waiting
<1>5. CASE \E w \in Workers : Claim(w)
  BY <1>1, <1>2, <1>5 DEF Claim, TooOld, Row
<1>6. CASE \E c \in Calls : Proceed(c) \/ Crash(c)
  <2>1. PICK c \in Calls : Proceed(c) \/ Crash(c)
    BY <1>6
  <2>2. /\ call[c].at # "idle"
        /\ outbox'[m] # outbox[m] => Current(c) = m
    BY <1>1, <2>1 DEF Proceed, GiveUp, Begin, Deliver, MarkSent, MarkFails, CountFailure,
                      WriteVerdict, Crash
  <2>3. CASE outbox'[m] # outbox[m]
    <3>1. Current(c) = m /\ outbox[m].status = "pending" /\ outbox[m].body
      <4>1. 1 \in Claimed(c) /\ Current(c) = Id(c, 1)
        BY <1>1, <2>2, AtWork DEF Claimed, Id
      <4>2. QED
        BY <4>1, <1>1, <2>2, <2>3 DEF LossInv, LeaseInv, LeaseHeld
    <3>2. CASE MarkSent(c)
      BY <1>2, <3>1, <3>2 DEF MarkSent, LossInv, AcceptedIsDelivered
    <3>3. CASE GiveUp(c)
      BY <1>1, <3>1, <3>3 DEF GiveUp, Row
    <3>4. CASE CountFailure(c)
      BY <1>1, <3>1, <3>4 DEF CountFailure, Row
    <3>5. CASE WriteVerdict(c)
      BY <1>1, <3>1, <3>5 DEF WriteVerdict, Row
    <3>6. QED
      BY <2>1, <2>3, <3>2, <3>3, <3>4, <3>5 DEF Proceed, Begin, Deliver, MarkFails, Crash
  <2>4. QED
    BY <1>3, <2>3
<1>7. CASE Tick
  BY <1>1, <1>2, <1>7 DEF Tick, OlderRow, Less, Row
<1>8. CASE UNCHANGED vars
  BY <1>3, <1>8 DEF vars
<1>9. QED
  BY <1>4, <1>5, <1>6, <1>7, <1>8 DEF Next

\* Unless a call held the message past its lease, its text is thrown away only when the message was
\* delivered, was too late, or was too old to be resent.
THEOREM NoTextLost == Spec => []NothingLost
<1>1. Init => LossInv
  BY LeaseInitial DEF Init, NoRow, Idle, LossInv, PendingHasBody, AcceptedIsDelivered, NothingLost
<1>2. LossInv /\ [Next]_vars => LossInv'
  BY LeaseStep, PendingHasBodyStep, AcceptedStep, NothingLostStep DEF LossInv, LeaseInv
<1>3. LossInv => NothingLost
  BY DEF LossInv
<1>4. QED
  BY <1>1, <1>2, <1>3, PTL DEF Spec

-----------------------------------------------------------------------------
(* The queue implements the ledger. *)

Handed == { m \in Messages : \E c \in Calls : Sending(c, m) }

\* A call that is about to write its message off has used up the attempts, or the message is late.
VerdictHolds ==
  \A c \in Calls :
    call[c].at = "dead" => Current(c) \in late \/ outbox[Current(c)].attempts = MaxAttempts

QueueInv == LossInv /\ VerdictHolds

\* What a call has at hand is in the table, and unless it is late, waits and is in nobody else's hands.
AtHand(c) ==
  /\ Current(c) \in Messages /\ outbox[Current(c)].status # "none"
  /\ Current(c) \notin late =>
       /\ outbox[Current(c)].status = "pending"
       /\ \A d \in Calls \ {c} : call[d].at # "idle" => Current(d) # Current(c)

LEMMA AllAtHand == LeaseInv => \A c \in Calls : call[c].at # "idle" => AtHand(c)
<1> SUFFICES ASSUME LeaseInv, NEW c \in Calls, call[c].at # "idle"
             PROVE  AtHand(c)
  OBVIOUS
<1>1. \A d \in Calls : call[d].at # "idle" =>
        Current(d) \in Messages /\ 1 \in Claimed(d) /\ Current(d) = Id(d, 1)
  BY AtWork DEF LeaseInv, Claimed, Id
<1>2. /\ outbox[Current(c)].status # "none"
      /\ Current(c) \notin late => outbox[Current(c)].status = "pending"
  BY <1>1 DEF LeaseInv, LeaseHeld
<1>3. \A d \in Calls \ {c} : call[d].at # "idle" /\ Current(d) = Current(c) => Current(c) \in late
  BY <1>1 DEF LeaseInv, Alone
<1> QED
  BY <1>1, <1>2, <1>3 DEF AtHand

LEMMA AllAtHandAfter == (LeaseInv => \A c \in Calls : call[c].at # "idle" => AtHand(c))'
  BY AllAtHand, PTL

\* What a call has at hand is at rest when the call is not sending it.
LEMMA AtRestIs ==
  ASSUME LeaseInv, NEW c \in Calls, call[c].at \notin {"idle", "sending"}
  PROVE  Current(c) \in Messages /\ Ledger!AtRest(Current(c))
<1>1. AtHand(c)
  BY AllAtHand
<1>2. Current(c) \notin late => Current(c) \notin Handed
  BY <1>1 DEF AtHand, Handed, Sending
<1> QED
  BY <1>1, <1>2 DEF AtHand, Ledger!AtRest, Handed

\* What a step of the call c does to what is handed over.
LEMMA HandedMoves ==
  ASSUME LeaseInv, LeaseInv', NEW c \in Calls, \A d \in Calls \ {c} : call'[d] = call[d]
  PROVE  /\ call[c].at # "sending" /\ call'[c].at # "sending" => Handed' = Handed
         /\ call[c].at = "sending" /\ call'[c].at # "sending" =>
              \/ Handed' = Handed \ {Current(c)}
              \/ Current(c) \in late /\ Handed' = Handed
         /\ call[c].at # "sending" /\ call'[c].at = "sending" => Handed' = Handed \cup {Current(c)'}
<1>1. \A d \in Calls \ {c} : \A m : Sending(d, m)' <=> Sending(d, m)
  BY DEF Sending, Current
<1>2. \A m : m \in Handed <=> m \in Messages /\ \E d \in Calls : Sending(d, m)
  BY DEF Handed
<1>3. \A m : m \in Handed' <=> m \in Messages /\ \E d \in Calls : Sending(d, m)'
  BY DEF Handed
<1>4. \A m : /\ Sending(c, m) <=> call[c].at = "sending" /\ m = Current(c)
             /\ Sending(c, m)' <=> call'[c].at = "sending" /\ m = Current(c)'
  BY DEF Sending
<1>5. call[c].at = "sending" /\ Current(c) \notin late =>
        \A d \in Calls \ {c} : ~Sending(d, Current(c))
  BY AllAtHand DEF AtHand, Sending
<1>6. call'[c].at = "sending" => Current(c)' \in Messages
  BY AllAtHandAfter DEF AtHand
<1> HIDE DEF Handed
<1>7. CASE call[c].at # "sending" /\ call'[c].at # "sending"
  BY <1>1, <1>2, <1>3, <1>4, <1>7
<1>8. CASE call[c].at = "sending" /\ call'[c].at # "sending"
  <2>1. CASE \E d \in Calls \ {c} : Sending(d, Current(c))
    <3>1. \A m : m \in Handed' <=> m \in Handed
      BY <1>1, <1>2, <1>3, <1>4, <1>8, <2>1
    <3> QED
      BY <1>5, <1>8, <2>1, <3>1
  <2>2. CASE ~\E d \in Calls \ {c} : Sending(d, Current(c))
    <3>1. \A m : m \in Handed' <=> m \in Handed \ {Current(c)}
      BY <1>1, <1>2, <1>3, <1>4, <1>8, <2>2
    <3> QED
      BY <1>8, <3>1
  <2> QED
    BY <2>1, <2>2
<1>9. CASE call[c].at # "sending" /\ call'[c].at = "sending"
  <2>1. \A m : m \in Handed' <=> m \in Handed \cup {Current(c)'}
    BY <1>1, <1>2, <1>3, <1>4, <1>6, <1>9
  <2> QED
    BY <1>9, <2>1
<1> QED
  BY <1>7, <1>8, <1>9

\* What of the rows the ledger sees.
SameRows ==
  \A m \in Messages : /\ outbox'[m].status = outbox[m].status /\ outbox'[m].body = outbox[m].body
                      /\ outbox'[m].attempts = outbox[m].attempts

LEMMA StutterStep ==
  ASSUME SameRows, UNCHANGED <<Handed, delivered, late>>
  PROVE  UNCHANGED Ledger!ledger
  BY DEF SameRows, Ledger!ledger, Handed

LEMMA SubmitStep ==
  ASSUME LeaseInv, LeaseInv', NEW r \in Requests, NEW m \in Messages, SendDurably(r, m) \/ Requeue(r, m)
  PROVE  Ledger!Submit(m)
<1> DEFINE row == outbox[m]
           e == Attempt("sending", <<[id |-> m, life |-> Ttl]>>)
<1>1. /\ outbox \in [Messages -> Row] /\ call \in [Calls -> Call] /\ r \in Calls
  BY DEF LeaseInv, TypeInv, TypeOK, Calls
<1>2. call' = [call EXCEPT ![r] = e] /\ call[r].at = "idle" /\ UNCHANGED <<delivered, late>>
  BY DEF SendDurably, Requeue
<1>3. call'[r] = e /\ \A d \in Calls \ {r} : call'[d] = call[d]
  BY <1>1, <1>2
<1>4. call'[r].at = "sending" /\ Current(r)' = m
  BY <1>3 DEF Attempt, Current
<1>5. Handed' = Handed \cup {m}
  BY <1>1, <1>2, <1>3, <1>4, HandedMoves
<1>6. row.status # "pending"
  BY DEF SendDurably, Requeue, Resendable
<1>7. m \in Handed => m \in late
  BY <1>6, AllAtHand DEF AtHand, Handed, Sending
<1>8. /\ \/ row.status = "none" /\ outbox'[m].body = TRUE
         \/ row.status \in {"dead", "expired"} /\ row.body /\ outbox'[m].body = row.body
      /\ outbox'[m].status = "pending" /\ outbox'[m].attempts = 0
      /\ \A n \in Messages \ {m} : outbox'[n] = outbox[n]
  BY <1>1 DEF SendDurably, Requeue, Resendable, Waiting
<1> QED
  BY <1>2, <1>5, <1>7, <1>8 DEF Ledger!Submit, Handed

LEMMA BlankStep ==
  ASSUME LeaseInv, LeaseInv', NEW w \in Workers, Claim(w)
  PROVE  Ledger!Blank
<1>1. /\ outbox \in [Messages -> Row] /\ call \in [Calls -> Call] /\ w \in Calls /\ TypeInv
  BY DEF LeaseInv, TypeInv, TypeOK, Calls
<1>2. PICK q \in Batches :
        /\ outbox' = [ m \in Messages |->
                         IF \E i \in DOMAIN q : q[i] = m THEN [outbox[m] EXCEPT !.due = Lease]
                         ELSE IF TooOld(m) THEN [outbox[m] EXCEPT !.body = FALSE]
                         ELSE outbox[m] ]
        /\ call' = IF q = <<>> THEN call
                   ELSE [call EXCEPT ![w] =
                           Attempt("next", [i \in DOMAIN q |->
                                              [id |-> q[i], life |-> outbox[q[i]].life]])]
  BY DEF Claim
<1>3. (\A d \in Calls \ {w} : call'[d] = call[d]) /\ call[w].at = "idle" /\ call'[w].at \in {"idle", "next"}
  BY <1>1, <1>2 DEF Attempt, Claim
<1>4. Handed' = Handed
  BY <1>1, <1>3, HandedMoves
<1> DEFINE old == { m \in Messages : TooOld(m) }
<1>5. \A m \in old : outbox[m].status = "dead" /\ ~\E i \in DOMAIN q : q[i] = m
  BY <1>1, BatchShape DEF TooOld, DueNow
<1>6. \A m \in Messages :
        /\ outbox'[m].status = outbox[m].status /\ outbox'[m].attempts = outbox[m].attempts
        /\ outbox'[m].body = (outbox[m].body /\ m \notin old)
  BY <1>1, <1>2, <1>5 DEF Row
<1>7. old \in SUBSET { m \in Messages : outbox[m].status = "dead" } /\ UNCHANGED <<delivered, late>>
  BY <1>5 DEF Claim
<1> HIDE DEF old
<1> QED
  BY <1>4, <1>6, <1>7 DEF Ledger!Blank, Handed

\* A call writes the fate of its message.
LEMMA SettleStep ==
  ASSUME LeaseInv, LeaseInv', NEW c \in Calls, call[c].at \notin {"idle", "sending"}, NextMessage(c),
         NEW as, as \in {"sent", "expired", "dead"}, UNCHANGED <<delivered, late>>,
         as = "sent" => Current(c) \in delivered,
         as = "dead" => Current(c) \in late \/ outbox[Current(c)].attempts = MaxAttempts,
         outbox'[Current(c)].status = as,
         outbox'[Current(c)].body = (as = "dead" /\ outbox[Current(c)].body),
         outbox'[Current(c)].attempts = outbox[Current(c)].attempts,
         \A m \in Messages \ {Current(c)} : outbox'[m] = outbox[m]
  PROVE  Ledger!Settle(Current(c), as)
<1>1. Current(c) \in Messages /\ Ledger!AtRest(Current(c))
  BY AtRestIs
<1>2. Handed' = Handed
  BY HandedMoves, QueueMoves DEF LeaseInv
<1> QED
  BY <1>1, <1>2 DEF Ledger!Settle, Handed

LEMMA ProceedLedger ==
  ASSUME QueueInv, LeaseInv', NEW c \in Calls, Proceed(c)
  PROVE  Ledger!LedgerNext \/ UNCHANGED Ledger!ledger
<1> DEFINE m == Current(c)
<1>1. /\ outbox \in [Messages -> Row] /\ call \in [Calls -> Call] /\ LeaseInv /\ TypeInv
      /\ call[c].at # "idle" /\ m \in Messages
  <2>1. LeaseInv /\ TypeInv /\ call[c].at # "idle"
    BY DEF QueueInv, LossInv, LeaseInv, Proceed, GiveUp, Begin, Deliver, MarkSent, MarkFails, CountFailure,
           WriteVerdict
  <2> QED
    BY <2>1, AtWork DEF TypeInv, TypeOK
<1>2. outbox[m].body \in BOOLEAN
  BY <1>1 DEF Row
<1>3. ASSUME NEW as \in {"sent", "expired", "dead"}, Ledger!Settle(m, as)
      PROVE  Ledger!LedgerNext
  BY <1>1, <1>3 DEF Ledger!LedgerNext
<1>4. CASE GiveUp(c)
  <2>1. Ledger!Settle(m, "expired")
    BY <1>1, <1>4, SettleStep DEF GiveUp, Row
  <2> QED
    BY <1>3, <2>1
<1>5. CASE Begin(c)
  <2>1. /\ call'[c].at = "sending" /\ Current(c)' = m /\ call[c].at = "next"
        /\ \A d \in Calls \ {c} : call'[d] = call[d]
    BY <1>1, <1>5 DEF Begin, Becomes, Current, Call
  <2>2. Handed' = Handed \cup {m}
    BY <1>1, <2>1, HandedMoves
  <2>3. Ledger!HandOver(m)
    BY <1>1, <1>5, <2>1, <2>2, AtRestIs DEF Ledger!HandOver, Handed, Begin
  <2> QED
    BY <1>1, <2>3 DEF Ledger!LedgerNext
<1>6. CASE Deliver(c)
  <2>1. /\ call'[c].at \in {"accepted", "refused"} /\ call[c].at = "sending"
        /\ \A d \in Calls \ {c} : call'[d] = call[d]
        /\ delivered' \in {delivered, delivered \cup {m}} /\ UNCHANGED <<outbox, late>>
    BY <1>1, <1>6 DEF Deliver, Becomes, Call
  <2>2. /\ Handed' = Handed \ {m} \/ (m \in late /\ Handed' = Handed)
        /\ m \in Handed
    BY <1>1, <2>1, HandedMoves DEF Handed, Sending
  <2>3. Ledger!Answer(m)
    BY <2>1, <2>2 DEF Ledger!Answer, Handed
  <2> QED
    BY <1>1, <2>3 DEF Ledger!LedgerNext
<1>7. CASE MarkSent(c)
  <2>1. m \in delivered
    BY <1>7 DEF MarkSent, QueueInv, LossInv, AcceptedIsDelivered
  <2>2. Ledger!Settle(m, "sent")
    BY <1>1, <1>7, <2>1, SettleStep DEF MarkSent, Row
  <2> QED
    BY <1>3, <2>2
<1>8. CASE MarkFails(c)
  <2>1. Handed' = Handed
    BY <1>1, <1>8, HandedMoves, QueueMoves DEF MarkFails
  <2> QED
    BY <1>8, <2>1, StutterStep DEF MarkFails, SameRows
<1>9. CASE CountFailure(c)
  <2> DEFINE failed == IF outbox[m].attempts < MaxAttempts THEN outbox[m].attempts + 1 ELSE MaxAttempts
  <2>1. PICK v \in {"expired", "dead", "retry"} :
          /\ outbox' = [outbox EXCEPT ![m].attempts = failed]
          /\ call' = [call EXCEPT ![c].at = v, ![c].failed = failed]
    BY <1>9 DEF CountFailure
  <2> HIDE DEF failed
  <2>2. /\ call'[c].at # "sending" /\ call[c].at = "refused"
        /\ \A d \in Calls \ {c} : call'[d] = call[d]
    BY <1>1, <1>9, <2>1 DEF CountFailure, Call
  <2>3. Handed' = Handed
    BY <1>1, <2>2, HandedMoves
  <2>4. /\ \A n \in Messages : outbox'[n].status = outbox[n].status /\ outbox'[n].body = outbox[n].body
        /\ outbox'[m].attempts = failed /\ \A n \in Messages \ {m} : outbox'[n] = outbox[n]
    BY <1>1, <2>1 DEF Row
  <2>5. Ledger!AtRest(m) /\ UNCHANGED <<delivered, late>>
    BY <1>1, <1>9, <2>2, AtRestIs DEF CountFailure
  <2>6. [n \in Messages |-> outbox'[n].attempts] =
          [[n \in Messages |-> outbox[n].attempts] EXCEPT
             ![m] = IF @ < MaxAttempts THEN @ + 1 ELSE MaxAttempts]
    BY <1>1, <2>4 DEF failed
  <2>7. ASSUME NEW n \in Messages, n = m
        PROVE  Ledger!Fail(n)
    BY <2>3, <2>4, <2>5, <2>6, <2>7 DEF Ledger!Fail, Handed
  <2> QED
    BY <1>1, <2>7 DEF Ledger!LedgerNext
<1>10. CASE WriteVerdict(c)
  <2>1. CASE call[c].at = "retry"
    <3>1. SameRows
      BY <1>1, <1>10, <2>1 DEF WriteVerdict, SameRows, Row
    <3>2. Handed' = Handed /\ UNCHANGED <<delivered, late>>
      BY <1>1, <1>10, <2>1, HandedMoves, QueueMoves DEF WriteVerdict
    <3> QED
      BY <3>1, <3>2, StutterStep
  <2>2. CASE call[c].at = "expired"
    <3>1. Ledger!Settle(m, "expired")
      BY <1>1, <1>10, <2>2, SettleStep DEF WriteVerdict, Row
    <3> QED
      BY <1>3, <3>1
  <2>3. CASE call[c].at = "dead"
    <3>1. m \in late \/ outbox[m].attempts = MaxAttempts
      BY <2>3 DEF QueueInv, VerdictHolds
    <3>2. Ledger!Settle(m, "dead")
      BY <1>1, <1>2, <1>10, <2>3, <3>1, SettleStep DEF WriteVerdict, Row
    <3> QED
      BY <1>3, <3>2
  <2> QED
    BY <1>10, <2>1, <2>2, <2>3 DEF WriteVerdict
<1> QED
  BY <1>4, <1>5, <1>6, <1>7, <1>8, <1>9, <1>10 DEF Proceed

LEMMA CrashLedger ==
  ASSUME LeaseInv, LeaseInv', NEW c \in Calls, Crash(c)
  PROVE  Ledger!LedgerNext \/ UNCHANGED Ledger!ledger
<1>1. /\ call \in [Calls -> Call] /\ TypeInv /\ call[c].at # "idle" /\ Current(c) \in Messages
  <2>1. TypeInv /\ call[c].at # "idle"
    BY DEF LeaseInv, Crash
  <2> QED
    BY <2>1, AtWork DEF TypeInv, TypeOK
<1>2. call'[c].at = "idle" /\ (\A d \in Calls \ {c} : call'[d] = call[d]) /\ UNCHANGED <<outbox, delivered, late>>
  BY <1>1 DEF Crash, Idle
<1>3. CASE call[c].at = "sending"
  <2>1. /\ Handed' = Handed \ {Current(c)} \/ (Current(c) \in late /\ Handed' = Handed)
        /\ Current(c) \in Handed
    BY <1>1, <1>2, <1>3, HandedMoves DEF Handed, Sending
  <2>2. Ledger!Answer(Current(c))
    BY <1>2, <2>1 DEF Ledger!Answer, Handed
  <2> QED
    BY <1>1, <2>2 DEF Ledger!LedgerNext
<1>4. CASE call[c].at # "sending"
  <2>1. Handed' = Handed
    BY <1>2, <1>4, HandedMoves
  <2> QED
    BY <1>2, <2>1, StutterStep DEF SameRows
<1> QED
  BY <1>3, <1>4

\* Time moves nobody to another message.
LEMMA TickCurrent ==
  ASSUME TypeInv, Tick, NEW c \in Calls, call[c].at # "idle"
  PROVE  call'[c].at = call[c].at /\ Current(c)' = Current(c)
<1>1. TypeInv' /\ call'[c].at = call[c].at
  BY TypeTick, TickMoves
<1>2. Current(c) = call[c].queue[1].id /\ 1 \in 1 .. Len(call[c].queue)
  BY AtWork
<1>3. call'[c].queue \in Seq(Item) /\ call'[c].queue # <<>>
  BY <1>1 DEF TypeInv, TypeOK, Call
<1>4. Current(c)' = call'[c].queue[1].id
  BY <1>3 DEF Current
<1> QED
  BY <1>1, <1>2, <1>4, TickMoves

\* Time changes nothing the ledger sees but what is late, and what becomes late still waits.
LEMMA TickLedger ==
  ASSUME LeaseInv, Tick
  PROVE  Ledger!Overrun
<1>1. outbox \in [Messages -> Row] /\ TypeInv
  BY DEF LeaseInv, TypeInv, TypeOK
<1>2. SameRows
  BY <1>1 DEF Tick, OlderRow, SameRows
<1>3. \A c \in Calls : call'[c].at = call[c].at
  BY <1>1, TickMoves
<1>4. \A c \in Calls, m \in Messages : Sending(c, m)' <=> Sending(c, m)
  BY <1>1, <1>3, TickCurrent DEF Sending
<1>5. Handed' = Handed
  BY <1>4 DEF Handed
<1> DEFINE kept == { m \in Messages \ late : \E c \in Calls : Holds(c, m) }
           over == { m \in kept : outbox[m].due <= 1 }
<1>6. over \in SUBSET { m \in Messages : outbox[m].status = "pending" }
  <2> SUFFICES ASSUME NEW m \in kept
               PROVE  outbox[m].status = "pending"
    OBVIOUS
  <2>1. PICK c \in Calls : Holds(c, m)
    OBVIOUS
  <2>2. PICK i \in DOMAIN call[c].queue : Id(c, i) = m
    BY <2>1 DEF Holds, Id
  <2>3. i \in Claimed(c)
    BY <1>1 DEF Claimed, TypeInv, TypeOK, Call
  <2> QED
    BY <2>2, <2>3 DEF LeaseInv, LeaseHeld
<1>7. late' = late \cup over /\ UNCHANGED delivered
  BY DEF Tick
<1> HIDE DEF over
<1> QED
  BY <1>2, <1>5, <1>6, <1>7 DEF SameRows, Ledger!Overrun, Handed

LEMMA LedgerStep ==
  ASSUME QueueInv, LeaseInv', [Next]_vars
  PROVE  [Ledger!LedgerNext]_(Ledger!ledger)
<1>1. LeaseInv
  BY DEF QueueInv, LossInv
<1>2. CASE \E r \in Requests, m \in Messages : SendDurably(r, m) \/ Requeue(r, m)
  BY <1>1, <1>2, SubmitStep DEF Ledger!LedgerNext
<1>3. CASE \E w \in Workers : Claim(w)
  BY <1>1, <1>3, BlankStep DEF Ledger!LedgerNext
<1>4. CASE \E c \in Calls : Proceed(c) \/ Crash(c)
  BY <1>1, <1>4, ProceedLedger, CrashLedger
<1>5. CASE Tick
  BY <1>1, <1>5, TickLedger DEF Ledger!LedgerNext
<1>6. CASE UNCHANGED vars
  <2>1. SameRows /\ UNCHANGED <<Handed, delivered, late>>
    BY <1>6 DEF vars, SameRows, Handed, Sending, Current
  <2> QED
    BY <2>1, StutterStep
<1> QED
  BY <1>2, <1>3, <1>4, <1>5, <1>6 DEF Next

LEMMA LedgerStart == Init => Ledger!LedgerInit
<1> SUFFICES ASSUME Init
             PROVE  Ledger!LedgerInit
  OBVIOUS
<1>1. Handed = {}
  BY DEF Init, Idle, Handed, Sending
<1> QED
  BY <1>1 DEF Init, NoRow, Ledger!LedgerInit, Handed

LEMMA VerdictStep ==
  ASSUME LeaseInv, LeaseInv', VerdictHolds, [Next]_vars
  PROVE  VerdictHolds'
<1> SUFFICES ASSUME NEW d \in Calls, call'[d].at = "dead"
             PROVE  (Current(d) \in late \/ outbox[Current(d)].attempts = MaxAttempts)'
  BY DEF VerdictHolds
<1>1. outbox \in [Messages -> Row] /\ call \in [Calls -> Call] /\ TypeInv /\ MaxAttempts \in Nat
  BY OutboxAssumption DEF LeaseInv, TypeInv, TypeOK
<1> DEFINE Holding == (Current(d) \in late \/ outbox[Current(d)].attempts = MaxAttempts)'
<1>9. late \subseteq late'
  BY DEF Next, SendDurably, Requeue, Claim, Proceed, GiveUp, Begin, Deliver, MarkSent, MarkFails,
         CountFailure, WriteVerdict, Crash, Tick, vars
<1>2. ASSUME call[d].at = "dead", Current(d)' = Current(d),
             \/ Current(d) \in late
             \/ outbox'[Current(d)].attempts = outbox[Current(d)].attempts
      PROVE  Holding
  BY <1>2, <1>9 DEF VerdictHolds
<1>3. call[d].at # "idle" => AtHand(d)
  BY AllAtHand
<1>4. CASE \E r \in Requests, m \in Messages : SendDurably(r, m) \/ Requeue(r, m)
  <2>1. PICK r \in Requests, m \in Messages : SendDurably(r, m) \/ Requeue(r, m)
    BY <1>4
  <2>2. call'[d] = call[d]
    <3>1. PICK queue : call' = [call EXCEPT ![r] = Attempt("sending", queue)]
      BY <2>1 DEF SendDurably, Requeue
    <3> QED
      BY <1>1, <3>1 DEF Attempt, Calls
  <2>3. Current(d) \in late \/ Current(d) # m
    BY <1>3, <2>1, <2>2 DEF AtHand, SendDurably, Requeue, Resendable
  <2>4. Current(d) \in late \/ outbox'[Current(d)] = outbox[Current(d)]
    BY <1>1, <1>3, <2>1, <2>2, <2>3 DEF SendDurably, Requeue, AtHand
  <2> QED
    BY <1>2, <2>2, <2>4 DEF Current
<1>5. CASE \E w \in Workers : Claim(w)
  <2>1. PICK w \in Workers : Claim(w)
    BY <1>5
  <2>2. call'[d] = call[d]
    BY <1>1, <2>1 DEF Claim, Attempt, Calls
  <2>3. \A m \in Messages : outbox'[m].attempts = outbox[m].attempts
    BY <1>1, <2>1 DEF Claim, Row
  <2> QED
    BY <1>2, <1>3, <2>2, <2>3 DEF Current, AtHand
<1>6. CASE \E c \in Calls : Proceed(c) \/ Crash(c)
  <2>1. PICK c \in Calls : Proceed(c) \/ Crash(c)
    BY <1>6
  <2>2. call[c].at # "idle"
    BY <2>1 DEF Proceed, GiveUp, Begin, Deliver, MarkSent, MarkFails, CountFailure, WriteVerdict, Crash
  <2>3. CASE d # c
    <3>1. call'[d] = call[d]
      BY <1>1, <2>1, <2>3 DEF Proceed, GiveUp, Begin, Deliver, MarkSent, MarkFails, CountFailure,
                              WriteVerdict, Crash, NextMessage, Becomes
    <3>2. /\ Current(d) \in late \/ Current(d) # Current(c)
          /\ Current(d) \in Messages
      BY <1>3, <2>2, <2>3, <3>1 DEF AtHand
    <3>3. Current(d) \in late \/ outbox'[Current(d)] = outbox[Current(d)]
      BY <1>1, <2>1, <3>2 DEF Proceed, GiveUp, Begin, Deliver, MarkSent, MarkFails, CountFailure,
                              WriteVerdict, Crash
    <3> QED
      BY <1>2, <3>1, <3>3 DEF Current
  <2>4. CASE d = c
    <3>1. CASE CountFailure(c)
      <4> DEFINE m == Current(c)
                 failed == IF outbox[m].attempts < MaxAttempts THEN outbox[m].attempts + 1 ELSE MaxAttempts
      <4>1. /\ outbox' = [outbox EXCEPT ![m].attempts = failed]
            /\ call'[c].at = "dead" => Exhausted(failed)
            /\ call'[c].queue = call[c].queue
        BY <1>1, <3>1 DEF CountFailure, Call
      <4>2. m \in Messages /\ outbox[m].attempts \in 0 .. MaxAttempts
        BY <1>1, <1>3, <2>2, <2>4 DEF AtHand, Row
      <4>3. failed = MaxAttempts
        BY <1>1, <2>4, <4>1, <4>2 DEF Exhausted
      <4>4. outbox'[m].attempts = MaxAttempts
        BY <1>1, <4>1, <4>2, <4>3 DEF Row
      <4>5. Current(c)' = m
        BY <4>1 DEF Current
      <4> QED
        BY <2>4, <4>4, <4>5
    <3>2. CASE ~CountFailure(c)
      <4>1. call'[c].at # "dead"
        <5>1. CASE GiveUp(c) \/ MarkSent(c) \/ MarkFails(c) \/ WriteVerdict(c)
          BY <1>1, <2>2, <5>1, QueueMoves DEF GiveUp, MarkSent, MarkFails, WriteVerdict
        <5>2. CASE Begin(c) \/ Deliver(c)
          BY <1>1, <5>2 DEF Begin, Deliver, Becomes, Call
        <5>3. CASE Crash(c)
          BY <1>1, <5>3 DEF Crash, Idle
        <5> QED
          BY <2>1, <3>2, <5>1, <5>2, <5>3 DEF Proceed
      <4> QED
        BY <2>4, <4>1
    <3> QED
      BY <3>1, <3>2
  <2> QED
    BY <2>3, <2>4
<1>7. CASE Tick
  <2>1. call[d].at = "dead" /\ Current(d)' = Current(d)
    <3>1. call'[d].at = call[d].at
      BY <1>1, <1>7, TickMoves
    <3> QED
      BY <1>1, <1>7, <3>1, TickCurrent
  <2>2. \A m \in Messages : outbox'[m].attempts = outbox[m].attempts
    BY <1>7 DEF Tick, OlderRow
  <2> QED
    BY <1>2, <1>3, <2>1, <2>2 DEF AtHand
<1>8. CASE UNCHANGED vars
  BY <1>2, <1>8 DEF vars, Current
<1> QED
  BY <1>4, <1>5, <1>6, <1>7, <1>8 DEF Next

\* The queue implements the ledger: a message is recorded as sent only when it was taken and put in the
\* queue only with its text, and unless it is late, the provider has it once at a time and only while it
\* waits, and no other fate is written of it than the one it has met.
THEOREM Refinement == Spec => ImplementsLedger
<1>1. Init => QueueInv
  BY LeaseInitial DEF Init, NoRow, Idle, QueueInv, LossInv, PendingHasBody, AcceptedIsDelivered, NothingLost,
                      VerdictHolds
<1>2. QueueInv /\ [Next]_vars => QueueInv'
  <2> SUFFICES ASSUME QueueInv, [Next]_vars
               PROVE  QueueInv'
    OBVIOUS
  <2>1. LossInv'
    BY LeaseStep, PendingHasBodyStep, AcceptedStep, NothingLostStep DEF QueueInv, LossInv, LeaseInv
  <2>2. VerdictHolds'
    BY <2>1, VerdictStep DEF QueueInv, LossInv
  <2> QED
    BY <2>1, <2>2 DEF QueueInv
<1>3. QueueInv /\ QueueInv' /\ [Next]_vars => [Ledger!LedgerNext]_(Ledger!ledger)
  BY LedgerStep DEF QueueInv, LossInv
<1> QED
  BY <1>1, <1>2, <1>3, LedgerStart, PTL DEF Spec, ImplementsLedger, Ledger!LedgerSpec
=============================================================================

--------------------------- MODULE ScanIntakeProofs ---------------------------
(***************************************************************************)
(* Proofs about ScanIntake for any events, requests and time limits.       *)
(*                                                                         *)
(* The inductive invariant says who may hold the booking's row, what such  *)
(* a request has read, and that an event which was stored is one that was  *)
(* made: then two accepted halves can only meet in the transaction of the  *)
(* later one, which sees the other.                                        *)
(***************************************************************************)
EXTENDS ScanIntake, SequenceTheorems, TLAPS

Holding(r) == request[r].phase \in {"pair", "approve"}

\* The row is held by the request that is in its transaction.
LockInv == \A r \in Requests : Holding(r) <=> lock = r

\* What a transaction has inserted or updated is as it found it, and what it has read is current.
HeldInv ==
  \A r \in Requests :
    /\ request[r].phase = "pair" => events[Current(r)] = "none" /\ ~CodeTaken(Current(r))
    /\ request[r].phase = "approve" => events[Current(r)] = "review"
    /\ Holding(r) => request[r].view = Accepted(Scan[Current(r)].action)

\* An event that is stored or submitted was made.
MadeInv ==
  /\ \A e \in Scans : events[e] # "none" => made[e] # Never
  /\ \A r \in Requests : \A i \in DOMAIN request[r].queue : made[request[r].queue[i]] # Never

\* The code of a replay was used by another event, which is still stored.
ReplayInv ==
  \A r \in Requests :
    request[r].phase = "replay" => \E d \in Scans : SameCode(d, Current(r)) /\ events[d] # "none"

Safe == /\ VerifiedHasBoth /\ PairIsVerified /\ CodeCountsOnce /\ ToldAsStored /\ OutcomeRecorded

IInv == /\ TypeOK /\ LockInv /\ HeldInv /\ MadeInv /\ ReplayInv
        /\ Safe

-----------------------------------------------------------------------------
(* Requests. *)

LEMMA RequestChanges ==
  ASSUME TypeOK, NEW r \in Requests, NEW q \in Request,
         q.phase = "idle" <=> q.queue = <<>>,
         request' = [request EXCEPT ![r] = q]
  PROVE  /\ request' \in [Requests -> Request]
         /\ request'[r] = q
         /\ \A d \in Requests \ {r} : request'[d] = request[d]
         /\ \A d \in Requests : request'[d].phase = "idle" <=> request'[d].queue = <<>>
  BY DEF TypeOK

LEMMA IdleIsRequest == Idle \in Request /\ Idle.phase = "idle" /\ Idle.queue = <<>>
<1>1. 0 \in 0 .. Horizon /\ Never \in Instants
  BY ScanAssumption DEF Never, Instants
<1>2. Unread \in Facts
  BY <1>1 DEF Unread, Facts
<1>3. <<>> \in Seq(Scans)
  OBVIOUS
<1>4. QED
  BY <1>1, <1>2, <1>3 DEF Idle, Request, Phases, Verdicts

\* A request in progress is about an event.
LEMMA AtWork ==
  ASSUME TypeOK, NEW r \in Requests, request[r].phase # "idle"
  PROVE  /\ request[r] \in Request /\ request[r].queue \in Seq(Scans)
         /\ request[r].queue # <<>> /\ Len(request[r].queue) \in Nat \ {0}
         /\ 1 \in DOMAIN request[r].queue
         /\ Current(r) = request[r].queue[1] /\ Current(r) \in Scans
<1>1. request[r] \in Request /\ request[r].queue # <<>>
  BY DEF TypeOK
<1>2. request[r].queue \in Seq(Scans)
  BY <1>1 DEF Request
<1>3. Len(request[r].queue) \in Nat \ {0}
  BY <1>1, <1>2, EmptySeq
<1>4. 1 \in DOMAIN request[r].queue /\ request[r].queue[1] \in Scans
  BY <1>2, <1>3, ElementOfSeq
<1>5. QED
  BY <1>1, <1>2, <1>3, <1>4 DEF Current

\* What it takes to say that only r changes, to q.
Becomes(r, q) ==
  /\ request' \in [Requests -> Request]
  /\ request'[r] = q
  /\ \A d \in Requests \ {r} : request'[d] = request[d]
  /\ \A d \in Requests : request'[d].phase = "idle" <=> request'[d].queue = <<>>

\* The request goes on with fewer events, in no transaction.
GoesOn(r) ==
  /\ request' \in [Requests -> Request]
  /\ \A d \in Requests \ {r} : request'[d] = request[d]
  /\ \A d \in Requests : request'[d].phase = "idle" <=> request'[d].queue = <<>>
  /\ request'[r].phase \in {"idle", "look"}
  /\ \A i \in DOMAIN request'[r].queue :
       \E j \in DOMAIN request[r].queue : request'[r].queue[i] = request[r].queue[j]

LEMMA NextEventGoesOn ==
  ASSUME TypeOK, NEW r \in Requests, request[r].phase # "idle", NextEvent(r)
  PROVE  GoesOn(r)
<1> DEFINE q == request[r].queue
           next == IF Len(q) = 1 THEN Idle ELSE Turned(request[r])
<1>1. /\ request[r] \in Request /\ q \in Seq(Scans) /\ q # <<>> /\ Len(q) \in Nat \ {0}
  BY AtWork
<1>2. request' = [request EXCEPT ![r] = next]
  BY DEF NextEvent
<1>3. /\ next \in Request /\ (next.phase = "idle" <=> next.queue = <<>>)
      /\ next.phase \in {"idle", "look"}
      /\ \A i \in DOMAIN next.queue : \E j \in DOMAIN q : next.queue[i] = q[j]
  <2>1. CASE Len(q) = 1
    <3>1. DOMAIN <<>> = {}
      OBVIOUS
    <3>2. QED
      BY <2>1, <3>1, IdleIsRequest
  <2>2. CASE Len(q) # 1
    <3>1. /\ Tail(q) \in Seq(Scans) /\ Len(Tail(q)) = Len(q) - 1
          /\ \A i \in 1 .. Len(Tail(q)) : Tail(q)[i] = q[i + 1]
      BY <1>1, HeadTailProperties
    <3>2. Tail(q) # <<>>
      <4>1. Len(<<>>) = 0
        OBVIOUS
      <4>2. Len(Tail(q)) # 0
        BY <3>1, <1>1, <2>2
      <4>3. QED
        BY <4>1, <4>2
    <3>3. next = Turned(request[r])
      BY <2>2
    <3>4. next \in Request /\ next.phase = "look" /\ next.queue = Tail(q)
      <4>1. request[r].since \in 0 .. Horizon /\ request[r].facts \in Facts
        BY <1>1 DEF Request
      <4>2. "look" \in Phases /\ "none" \in Verdicts
        BY DEF Phases, Verdicts
      <4>3. Turned(request[r]) = [ phase |-> "look", queue |-> Tail(q), since |-> request[r].since,
                                  facts |-> request[r].facts, verdict |-> "none", view |-> {} ]
        BY DEF Turned
      <4>4. Turned(request[r]) \in Request
        BY <4>1, <4>2, <4>3, <3>1 DEF Request
      <4>5. Turned(request[r]).phase = "look" /\ Turned(request[r]).queue = Tail(q)
        BY <4>3
      <4> HIDE DEF next
      <4>6. QED
        BY <3>3, <4>4, <4>5
    <3>5. DOMAIN Tail(q) = 1 .. Len(Tail(q)) /\ DOMAIN q = 1 .. Len(q)
      BY <3>1, <1>1
    <3>6. \A i \in DOMAIN Tail(q) : i + 1 \in DOMAIN q
      BY <3>1, <3>5, <1>1
    <3>7. QED
      BY <3>1, <3>2, <3>4, <3>5, <3>6
  <2>3. QED
    BY <2>1, <2>2
<1> HIDE DEF next
<1>4. /\ request' \in [Requests -> Request]
      /\ request'[r] = next
      /\ \A d \in Requests \ {r} : request'[d] = request[d]
      /\ \A d \in Requests : request'[d].phase = "idle" <=> request'[d].queue = <<>>
  BY <1>2, <1>3, RequestChanges
<1>5. QED
  BY <1>3, <1>4 DEF GoesOn

LEMMA BatchIsTyped ==
  ASSUME TypeOK, NEW side \in Sides, NEW q \in Batches(side)
  PROVE  /\ q \in Seq(Scans) /\ q # <<>>
         /\ \A i \in DOMAIN q : made[q[i]] # Never
<1> DEFINE held == { e \in Scans : made[e] # Never /\ Scan[e].side = side }
<1>1. PICK n \in 1 .. MaxBatch : q \in [1 .. n -> held]
  BY DEF Batches
<1>2. n \in Nat /\ n > 0
  BY <1>1, ScanAssumption
<1>3. q \in Seq(Scans) /\ Len(q) = n
  <2>1. q \in [1 .. n -> Scans]
    BY <1>1
  <2>2. QED
    BY <2>1, <1>2, SeqDef, LenProperties
<1>4. q # <<>>
  <2>1. Len(<<>>) = 0
    OBVIOUS
  <2>2. QED
    BY <2>1, <1>2, <1>3
<1>5. QED
  BY <1>1, <1>3, <1>4

-----------------------------------------------------------------------------
(* Types. *)

LEMMA TypeInitial == Init => TypeOK
<1>1. 0 \in 0 .. Horizon /\ Never \in Instants /\ 0 \in 0 .. MaxUpsets
  BY ScanAssumption DEF Never, Instants
<1>2. NoCheck \in Check
  BY DEF NoCheck, Check
<1>3. QED
  BY <1>1, <1>2, IdleIsRequest DEF Init, TypeOK, Statuses, Verdicts

LEMMA DecisionIsVerdict ==
  ASSUME NEW e, NEW facts, NEW t
  PROVE  Decision(e, facts, t) \in Verdicts
  BY DEF Decision, Verdicts

LEMMA FactsAreTyped ==
  ASSUME TypeOK, NEW r \in Requests
  PROVE  FactsFor(r) \in Facts /\ Unread \in Facts
<1>1. request[r] \in Request /\ revoked \in [Sides -> Instants] /\ staffed \in BOOLEAN
  BY DEF TypeOK
<1>2. request[r].facts \in Facts
  BY <1>1 DEF Request
<1>3. [read |-> TRUE, revoked |-> revoked, staffed |-> staffed] \in Facts
  BY <1>1 DEF Facts
<1>4. Never \in Instants
  BY ScanAssumption DEF Never, Instants
<1>5. Unread \in Facts
  BY <1>4 DEF Unread, Facts
<1>6. QED
  BY <1>2, <1>3, <1>5 DEF FactsFor

\* What recording the accepted events of S does to the tables.
LEMMA RecordIsTyped ==
  ASSUME TypeOK, NEW a \in Actions, NEW S \in SUBSET Scans, Record(a, S)
  PROVE  /\ check' \in [Actions -> Check]
         /\ booking' \in Statuses
         /\ attendance' \in {"none", "attended", "no_show"}
<1>1. check' \in [Actions -> Check]
  <2>1. CASE UNCHANGED check
    BY <2>1 DEF TypeOK
  <2>2. CASE check' = [check EXCEPT ![a] = [state |-> "partial", halves |-> {}]]
    <3>1. [state |-> "partial", halves |-> {}] \in Check
      BY DEF Check
    <3>2. QED
      BY <2>2, <3>1 DEF TypeOK
  <2>3. CASE \E p \in Picked(S) :
               check' = [check EXCEPT ![a] = [state |-> "verified", halves |-> {p[1], p[2]}]]
    <3>1. PICK p \in Picked(S) :
            check' = [check EXCEPT ![a] = [state |-> "verified", halves |-> {p[1], p[2]}]]
      BY <2>3
    <3>2. p[1] \in Scans /\ p[2] \in Scans
      BY DEF Picked, Pairs
    <3>3. [state |-> "verified", halves |-> {p[1], p[2]}] \in Check
      BY <3>2 DEF Check
    <3>4. QED
      BY <3>1, <3>3 DEF TypeOK
  <2>4. QED
    BY <2>1, <2>2, <2>3 DEF Record
<1>2. booking' \in Statuses /\ attendance' \in {"none", "attended", "no_show"}
  BY DEF Record, CloseBooking, TypeOK, Statuses
<1>3. QED
  BY <1>1, <1>2

\* The actions of a request that is done with an event.
LEMMA AnswersAreTyped ==
  ASSUME TypeOK, NEW r \in Requests,
         AnswerAgain(r) \/ FindStored(r) \/ StoreUncounted(r) \/ StoreReplay(r) \/ PairAndRecord(r)
           \/ AlreadyDecided(r) \/ Decline(r)
  PROVE  /\ request[r].phase # "idle"
         /\ GoesOn(r)
         /\ Current(r) \in Scans
         /\ TypeOK'
<1>1. request[r].phase # "idle" /\ NextEvent(r)
  BY DEF AnswerAgain, FindStored, StoreUncounted, StoreReplay, PairAndRecord, AlreadyDecided,
         Decline
<1>2. GoesOn(r) /\ Current(r) \in Scans /\ request[r] \in Request
  BY <1>1, NextEventGoesOn, AtWork
<1>3. request[r].verdict \in Verdicts /\ request[r].view \in SUBSET Scans
  BY <1>2 DEF Request
<1>4. told' \in [Scans -> Verdicts]
  <2>1. UNCHANGED told \/ \E v \in Verdicts : told' = [told EXCEPT ![Current(r)] = v]
    <3>1. events[Current(r)] \in Verdicts /\ "rejected" \in Verdicts /\ "accepted" \in Verdicts
      BY <1>2 DEF TypeOK, Verdicts
    <3>2. QED
      BY <3>1, <1>3 DEF AnswerAgain, FindStored, StoreUncounted, StoreReplay, PairAndRecord,
         AlreadyDecided, Decline, Answer
  <2>2. QED
    BY <2>1 DEF TypeOK
<1>5. events' \in [Scans -> Verdicts]
  <2>1. UNCHANGED events \/ \E v \in Verdicts : events' = [events EXCEPT ![Current(r)] = v]
    <3>1. events[Current(r)] \in Verdicts /\ "rejected" \in Verdicts /\ "accepted" \in Verdicts
      BY <1>2 DEF TypeOK, Verdicts
    <3>2. QED
      BY <3>1, <1>3 DEF AnswerAgain, FindStored, StoreUncounted, StoreReplay, PairAndRecord,
         AlreadyDecided, Decline, rows
  <2>2. QED
    BY <2>1 DEF TypeOK
<1>6. /\ check' \in [Actions -> Check] /\ booking' \in Statuses
      /\ attendance' \in {"none", "attended", "no_show"}
  <2>1. CASE PairAndRecord(r)
    <3>1. Scan[Current(r)].action \in Actions
      BY <1>2, ScanAssumption DEF ScanFacts
    <3>2. request[r].view \cup {Current(r)} \in SUBSET Scans
      BY <1>2, <1>3
    <3>3. QED
      BY <2>1, <3>1, <3>2, RecordIsTyped DEF PairAndRecord
  <2>2. CASE UNCHANGED <<check, booking, attendance>>
    BY <2>2 DEF TypeOK
  <2>3. QED
    BY <2>1, <2>2 DEF AnswerAgain, FindStored, StoreUncounted, StoreReplay, AlreadyDecided,
       Decline, rows
<1>7. lock' \in Requests \cup {Free} /\ UNCHANGED <<world, upsets>>
  BY DEF AnswerAgain, FindStored, StoreUncounted, StoreReplay, PairAndRecord, AlreadyDecided,
         Decline, TypeOK
<1>8. TypeOK'
  BY <1>2, <1>4, <1>5, <1>6, <1>7 DEF TypeOK, GoesOn, world
<1>9. QED
  BY <1>1, <1>2, <1>8

\* The actions of a request that goes on with the same event.
LEMMA MovesAreTyped ==
  ASSUME TypeOK, NEW r \in Requests,
         DecideScan(r) \/ InsertAccepted(r) \/ CodeUsed(r) \/ Approve(r)
  PROVE  /\ request[r].phase # "idle"
         /\ Becomes(r, request'[r])
         /\ request'[r].queue = request[r].queue
         /\ Current(r) \in Scans
         /\ TypeOK'
<1>1. request[r].phase # "idle"
  BY DEF DecideScan, InsertAccepted, CodeUsed, Approve
<1>2. Current(r) \in Scans /\ request[r] \in Request
  BY <1>1, AtWork
<1>3. \E phase \in Phases \ {"idle"}, facts \in Facts, v \in Verdicts, view \in SUBSET Scans :
        request' = [request EXCEPT ![r] = Moved(request[r], phase, facts, v, view)]
  <2>1. request[r].facts \in Facts /\ request[r].verdict \in Verdicts
    BY <1>2 DEF Request
  <2>2. {} \in SUBSET Scans /\ Accepted(Scan[Current(r)].action) \in SUBSET Scans
    BY DEF Accepted
  <2>3. {"store", "pair", "replay", "approve"} \subseteq Phases \ {"idle"}
    BY DEF Phases
  <2>4. CASE DecideScan(r)
    <3>1. (IF Len(request[r].queue) = 1 THEN Unread ELSE FactsFor(r)) \in Facts
      BY FactsAreTyped
    <3>2. QED
      BY <2>2, <2>3, <2>4, <3>1, DecisionIsVerdict DEF DecideScan
  <2>5. CASE InsertAccepted(r)
    BY <2>1, <2>2, <2>3, <2>5 DEF InsertAccepted
  <2>6. CASE CodeUsed(r)
    BY <2>1, <2>2, <2>3, <2>6 DEF CodeUsed
  <2>7. CASE Approve(r)
    BY <2>1, <2>2, <2>3, <2>7 DEF Approve
  <2>8. QED
    BY <2>4, <2>5, <2>6, <2>7
<1>4. Becomes(r, request'[r]) /\ request'[r].queue = request[r].queue
  <2>1. PICK phase \in Phases \ {"idle"}, facts \in Facts, v \in Verdicts, view \in SUBSET Scans :
          request' = [request EXCEPT ![r] = Moved(request[r], phase, facts, v, view)]
    BY <1>3
  <2> DEFINE q == Moved(request[r], phase, facts, v, view)
  <2>0. request[r].queue # <<>> /\ request[r].queue \in Seq(Scans)
        /\ request[r].since \in 0 .. Horizon
    BY <1>1, <1>2, AtWork DEF Request
  <2>2. q = [ phase |-> phase, queue |-> request[r].queue, since |-> request[r].since,
              facts |-> facts, verdict |-> v, view |-> view ]
    BY DEF Moved
  <2>3. q \in Request
    BY <2>0, <2>1, <2>2 DEF Request
  <2>4. (q.phase = "idle" <=> q.queue = <<>>) /\ q.queue = request[r].queue
    BY <2>0, <2>1, <2>2
  <2>5. request' = [request EXCEPT ![r] = q]
    BY <2>1
  <2> HIDE DEF q
  <2>6. Becomes(r, q)
    BY <2>3, <2>4, <2>5, RequestChanges DEF Becomes
  <2>7. request'[r] = q
    BY <2>6 DEF Becomes
  <2>8. QED
    BY <2>4, <2>6, <2>7
<1>5. /\ lock' \in Requests \cup {Free}
      /\ UNCHANGED <<now, made, revoked, staffed, booking, attendance, events, check, told, upsets>>
  BY DEF DecideScan, InsertAccepted, CodeUsed, Approve, TypeOK, world, rows
<1>6. TypeOK'
  BY <1>4, <1>5 DEF TypeOK, Becomes
<1>7. QED
  BY <1>1, <1>2, <1>4, <1>6

\* The actions that start a request.
LEMMA StartsAreTyped ==
  ASSUME TypeOK, NEW r \in Requests,
         \/ \E side \in Sides : \E q \in Batches(side) : Submit(r, q)
         \/ \E e \in Scans, v \in {"accepted", "rejected"} : BeginReview(r, e, v)
  PROVE  /\ request[r].phase = "idle"
         /\ Becomes(r, request'[r])
         /\ request'[r].phase \in {"look", "review"}
         /\ \A i \in DOMAIN request'[r].queue :
              \/ made[request'[r].queue[i]] # Never
              \/ request'[r].queue[i] \in Scans /\ events[request'[r].queue[i]] = "review"
         /\ TypeOK'
<1>1. Unread \in Facts
  BY FactsAreTyped
<1>2. PICK q \in Request : /\ request' = [request EXCEPT ![r] = q]
                           /\ q.phase = "idle" <=> q.queue = <<>>
                           /\ q.phase \in {"look", "review"}
                           /\ \A i \in DOMAIN q.queue :
                                \/ made[q.queue[i]] # Never
                                \/ q.queue[i] \in Scans /\ events[q.queue[i]] = "review"
  <2>1. CASE \E side \in Sides : \E q \in Batches(side) : Submit(r, q)
    <3>1. PICK side \in Sides : \E q \in Batches(side) : Submit(r, q)
      BY <2>1
    <3>2. PICK q \in Batches(side) : Submit(r, q)
      BY <3>1
    <3>3. q \in Seq(Scans) /\ q # <<>> /\ \A i \in DOMAIN q : made[q[i]] # Never
      BY BatchIsTyped
    <3>4. Begun("look", q, now, "none") \in Request
      BY <1>1, <3>3 DEF Begun, Request, TypeOK, Phases, Verdicts
    <3>5. /\ Begun("look", q, now, "none").phase = "look"
          /\ Begun("look", q, now, "none").queue = q
      BY DEF Begun
    <3>6. request' = [request EXCEPT ![r] = Begun("look", q, now, "none")]
      BY <3>2 DEF Submit
    <3>7. QED
      BY <3>3, <3>4, <3>5, <3>6
  <2>2. CASE \E e \in Scans, v \in {"accepted", "rejected"} : BeginReview(r, e, v)
    <3>1. PICK e \in Scans, v \in {"accepted", "rejected"} : BeginReview(r, e, v)
      BY <2>2
    <3>2. <<e>> \in Seq(Scans) /\ <<e>> # <<>> /\ DOMAIN <<e>> = {1} /\ <<e>>[1] = e
      OBVIOUS
    <3>3. 0 \in 0 .. Horizon
      BY ScanAssumption
    <3>4. Begun("review", <<e>>, 0, v) \in Request
      BY <1>1, <3>2, <3>3 DEF Begun, Request, Phases, Verdicts
    <3>5. /\ Begun("review", <<e>>, 0, v).phase = "review"
          /\ Begun("review", <<e>>, 0, v).queue = <<e>>
      BY DEF Begun
    <3>6. request' = [request EXCEPT ![r] = Begun("review", <<e>>, 0, v)] /\ events[e] = "review"
      BY <3>1 DEF BeginReview
    <3>7. QED
      BY <3>2, <3>4, <3>5, <3>6
  <2>3. QED
    BY <2>1, <2>2
<1>3. Becomes(r, q)
  BY <1>2, RequestChanges DEF Becomes
<1>4. request'[r] = q
  BY <1>3 DEF Becomes
<1>5. /\ request[r].phase = "idle"
      /\ UNCHANGED <<now, made, revoked, staffed, booking, attendance, events, check, lock, told,
                     upsets>>
  BY DEF Submit, BeginReview, world, rows
<1>6. TypeOK'
  BY <1>3, <1>5 DEF TypeOK, Becomes
<1>7. QED
  BY <1>2, <1>3, <1>4, <1>5, <1>6

\* The steps of others leave requests, events and checks alone; a crash ends one request.
LEMMA OthersAreTyped ==
  ASSUME TypeOK, Others \/ \E e \in Scans : MakeScan(e)
  PROVE  /\ TypeOK'
         /\ UNCHANGED <<events, check, lock, request, told>>
         /\ \A e \in Scans : made[e] # Never => made'[e] = made[e]
<1>1. UNCHANGED <<events, check, lock, request, told>>
  BY DEF Others, MarkAttendance, CancelBooking, RevokeKey, LoseDuty, Tick, MakeScan, rows
<1>2. \A e \in Scans : made[e] # Never => made'[e] = made[e]
  BY DEF Others, MarkAttendance, CancelBooking, RevokeKey, LoseDuty, Tick, MakeScan, world, TypeOK
<1>3. now \in Instants
  BY ScanAssumption DEF TypeOK, Instants, Never
<1>4. now' \in 0 .. Horizon /\ upsets' \in 0 .. MaxUpsets
  BY ScanAssumption
     DEF Others, MarkAttendance, CancelBooking, RevokeKey, LoseDuty, Tick, MakeScan, world, TypeOK,
         Upset
<1>5. made' \in [Scans -> Instants] /\ revoked' \in [Sides -> Instants] /\ staffed' \in BOOLEAN
  BY <1>3
     DEF Others, MarkAttendance, CancelBooking, RevokeKey, LoseDuty, Tick, MakeScan, world, TypeOK
<1>6. booking' \in Statuses /\ attendance' \in {"none", "attended", "no_show"}
  BY DEF Others, MarkAttendance, CancelBooking, RevokeKey, LoseDuty, Tick, MakeScan, rows, TypeOK,
         Statuses
<1>7. QED
  BY <1>1, <1>2, <1>4, <1>5, <1>6 DEF TypeOK

LEMMA CrashIsTyped ==
  ASSUME TypeOK, NEW r \in Requests, Crash(r)
  PROVE  TypeOK' /\ Becomes(r, Idle)
<1>1. Becomes(r, Idle)
  BY IdleIsRequest, RequestChanges DEF Crash, Becomes
<1>2. upsets' \in 0 .. MaxUpsets
  BY ScanAssumption DEF Crash, Upset, TypeOK
<1>3. QED
  BY <1>1, <1>2 DEF Crash, TypeOK, Becomes, world, rows

\* A step of the specification is of one of these kinds.
LEMMA KindsOfStep ==
  ASSUME [Next]_vars
  PROVE  \/ UNCHANGED vars
         \/ Others \/ \E e \in Scans : MakeScan(e)
         \/ \E r \in Requests :
              \/ Crash(r)
              \/ \E side \in Sides : \E q \in Batches(side) : Submit(r, q)
              \/ \E e \in Scans, v \in {"accepted", "rejected"} : BeginReview(r, e, v)
              \/ DecideScan(r) \/ InsertAccepted(r) \/ CodeUsed(r) \/ Approve(r)
              \/ AnswerAgain(r) \/ FindStored(r) \/ StoreUncounted(r) \/ StoreReplay(r)
              \/ PairAndRecord(r) \/ AlreadyDecided(r) \/ Decline(r)
  BY DEF Next, Devices, Work

LEMMA TypeStep ==
  ASSUME TypeOK, [Next]_vars
  PROVE  TypeOK'
<1>1. CASE UNCHANGED vars
  BY <1>1 DEF vars, TypeOK
<1>2. QED
  BY <1>1, KindsOfStep, OthersAreTyped, CrashIsTyped, StartsAreTyped, MovesAreTyped,
     AnswersAreTyped

\* Type correctness of attendance-qr.ts as modelled, for any events, requests and limits.
THEOREM TypeCorrect == Spec => []TypeOK
<1>1. Init => TypeOK
  BY TypeInitial
<1>2. TypeOK /\ [Next]_vars => TypeOK'
  BY TypeStep
<1>3. QED
  BY <1>1, <1>2, PTL DEF Spec

-----------------------------------------------------------------------------
(* The inductive invariant. *)

LEMMA InitialInv == Init => IInv
<1> SUFFICES ASSUME Init PROVE IInv
  OBVIOUS
<1>1. TypeOK
  BY TypeInitial
<1>2. \A r \in Requests : request[r] = Idle /\ request[r].phase = "idle" /\ request[r].queue = <<>>
  BY IdleIsRequest DEF Init
<1>3. LockInv
  BY <1>2, ScanAssumption DEF LockInv, Holding, Init
<1>4. HeldInv /\ ReplayInv
  BY <1>2 DEF HeldInv, ReplayInv, Holding
<1>5. MadeInv
  <2>1. DOMAIN <<>> = {}
    OBVIOUS
  <2>2. QED
    BY <2>1, <1>2 DEF MadeInv, Init
<1>6. Safe
  BY DEF Safe, Init, VerifiedHasBoth, PairIsVerified, Match, CodeCountsOnce, ToldAsStored,
         OutcomeRecorded, NoCheck, Actions
<1>7. QED
  BY <1>1, <1>3, <1>4, <1>5, <1>6 DEF IInv

\* What a request r does to the events.
StoresUnlocked(r, v) ==
  /\ RowFree
  /\ Current(r) \in Scans
  /\ events' = [events EXCEPT ![Current(r)] = v]
  /\ \/ events[Current(r)] = "none" /\ (v = "rejected" \/ (v = "review" /\ ~CodeTaken(Current(r))))
     \/ events[Current(r)] = "review" /\ v = "rejected"

StoresBeside(r) ==
  /\ InsertFree(Current(r))
  /\ Current(r) \in Scans
  /\ events[Current(r)] = "none"
  /\ events' = [events EXCEPT ![Current(r)] = "rejected"]

LEMMA AnswersStore ==
  ASSUME TypeOK, NEW r \in Requests,
         AnswerAgain(r) \/ FindStored(r) \/ StoreUncounted(r) \/ StoreReplay(r)
           \/ AlreadyDecided(r) \/ Decline(r)
  PROVE  /\ UNCHANGED <<check, lock, booking, attendance, made>>
         /\ \/ UNCHANGED events
            \/ StoresUnlocked(r, "rejected") \/ StoresUnlocked(r, "review")
            \/ StoresBeside(r)
<1>1. UNCHANGED <<check, lock, booking, attendance, made>>
  BY DEF AnswerAgain, FindStored, StoreUncounted, StoreReplay, AlreadyDecided, Decline, rows, world
<1>2. Current(r) \in Scans
  BY AnswersAreTyped
<1>3. CASE AnswerAgain(r) \/ FindStored(r) \/ AlreadyDecided(r)
  BY <1>1, <1>3 DEF AnswerAgain, FindStored, AlreadyDecided, rows
<1>4. CASE StoreUncounted(r)
  BY <1>1, <1>2, <1>4 DEF StoreUncounted, StoresUnlocked
<1>5. CASE Decline(r)
  BY <1>1, <1>2, <1>5 DEF Decline, StoresUnlocked, StillHeld
<1>6. CASE StoreReplay(r)
  <2>1. CASE events[Current(r)] = "none"
    BY <1>1, <1>2, <1>6, <2>1 DEF StoreReplay, StoresBeside
  <2>2. CASE events[Current(r)] # "none"
    BY <1>1, <1>2, <1>6, <2>2 DEF StoreReplay, TypeOK
  <2>3. QED
    BY <2>1, <2>2
<1>7. QED
  BY <1>3, <1>4, <1>5, <1>6

\* Every step keeps what is stored, and what was made.
LEMMA StoredStays ==
  ASSUME IInv, [Next]_vars
  PROVE  /\ \A e \in Scans : events[e] # "none" => events'[e] # "none"
         /\ \A e \in Scans : events[e] \in {"accepted", "rejected"} => events'[e] = events[e]
         /\ \A e \in Scans : made[e] # Never => made'[e] = made[e]
<1> USE DEF IInv
<1>0. CASE UNCHANGED vars
  BY <1>0 DEF vars, world, rows
<1>1. CASE Others \/ \E e \in Scans : MakeScan(e)
  BY <1>1, OthersAreTyped
<1>2. CASE \E r \in Requests :
             \/ Crash(r)
             \/ \E side \in Sides : \E q \in Batches(side) : Submit(r, q)
             \/ \E e \in Scans, v \in {"accepted", "rejected"} : BeginReview(r, e, v)
             \/ DecideScan(r) \/ InsertAccepted(r) \/ CodeUsed(r) \/ Approve(r)
  BY <1>2 DEF Crash, Submit, BeginReview, DecideScan, InsertAccepted, CodeUsed, Approve, world, rows
<1>3. ASSUME NEW r \in Requests,
             AnswerAgain(r) \/ FindStored(r) \/ StoreUncounted(r) \/ StoreReplay(r)
              \/ AlreadyDecided(r) \/ Decline(r)
      PROVE  /\ \A e \in Scans : events[e] # "none" => events'[e] # "none"
             /\ \A e \in Scans : events[e] \in {"accepted", "rejected"} => events'[e] = events[e]
             /\ \A e \in Scans : made[e] # Never => made'[e] = made[e]
  BY <1>3, AnswersStore DEF StoresUnlocked, StoresBeside, TypeOK
<1>4. ASSUME NEW r \in Requests, PairAndRecord(r)
      PROVE  /\ \A e \in Scans : events[e] # "none" => events'[e] # "none"
             /\ \A e \in Scans : events[e] \in {"accepted", "rejected"} => events'[e] = events[e]
             /\ \A e \in Scans : made[e] # Never => made'[e] = made[e]
  <2>1. events' = [events EXCEPT ![Current(r)] = "accepted"] /\ made' = made
    BY <1>4 DEF PairAndRecord, world
  <2>2. events[Current(r)] \in {"none", "review"}
    BY <1>4 DEF PairAndRecord, HeldInv
  <2>3. QED
    BY <2>1, <2>2 DEF TypeOK
<1>5. QED
  BY <1>0, <1>1, <1>2, <1>3, <1>4, KindsOfStep

\* A step of r, after which r holds nothing, leaves the others in their transactions as they were.
LEMMA ReleaseStep ==
  ASSUME IInv, TypeOK', NEW r \in Requests, GoesOn(r),
         \/ UNCHANGED <<events, lock>> /\ ~Holding(r)
         \/ (StoresUnlocked(r, "rejected") \/ StoresUnlocked(r, "review")) /\ UNCHANGED lock
         \/ StoresBeside(r) /\ UNCHANGED lock /\ ~Holding(r)
         \/ Holding(r) /\ lock' = Free
  PROVE  LockInv' /\ HeldInv'
<1> USE DEF IInv
<1>1. ~Holding(r)'
  BY DEF GoesOn, Holding
<1>2. \A d \in Requests \ {r} : (Holding(d) <=> Holding(d)') /\ request'[d] = request[d]
  BY DEF GoesOn, Holding
<1>3. LockInv'
  <2>1. Free \notin Requests
    BY ScanAssumption
  <2>2. CASE UNCHANGED lock /\ ~Holding(r)
    BY <1>1, <1>2, <2>2 DEF LockInv
  <2>3. CASE RowFree /\ UNCHANGED lock
    BY <1>1, <1>2, <2>1, <2>3 DEF LockInv, RowFree
  <2>4. CASE Holding(r) /\ lock' = Free
    BY <1>1, <1>2, <2>1, <2>4 DEF LockInv
  <2>5. QED
    BY <2>2, <2>3, <2>4 DEF StoresUnlocked
<1>4. ASSUME NEW d \in Requests, Holding(d)'
      PROVE  /\ request'[d].phase = "pair" => events'[Current(d)'] = "none" /\ ~CodeTaken(Current(d))'
             /\ request'[d].phase = "approve" => events'[Current(d)'] = "review"
             /\ request'[d].view = Accepted(Scan[Current(d)].action)'
  <2>1. d # r /\ Holding(d) /\ request'[d] = request[d] /\ lock = d
    BY <1>1, <1>2, <1>4 DEF LockInv
  <2>2. Current(d)' = Current(d) /\ Current(d) \in Scans
    BY <2>1, AtWork DEF Current, Holding
  <2>3. /\ request[d].phase = "pair" => events[Current(d)] = "none" /\ ~CodeTaken(Current(d))
        /\ request[d].phase = "approve" => events[Current(d)] = "review"
        /\ request[d].view = Accepted(Scan[Current(d)].action)
    BY <2>1 DEF HeldInv
  <2>4. /\ events'[Current(d)] = events[Current(d)]
        /\ \A e \in Scans :
             \/ events'[e] = events[e]
             \/ events[e] = "none" /\ events'[e] = "rejected"
    <3>1. CASE UNCHANGED events
      BY <3>1
    <3>2. CASE RowFree \/ Holding(r)
      BY <3>2, <2>1, ScanAssumption DEF LockInv, RowFree
    <3>3. CASE StoresBeside(r)
      <4>1. Current(r) # Current(d)
        BY <3>3, <2>1, <2>3 DEF StoresBeside, InsertFree, Holding
      <4>2. QED
        BY <4>1, <3>3, <2>2 DEF StoresBeside, TypeOK
    <3>4. QED
      BY <3>1, <3>2, <3>3 DEF StoresUnlocked
  <2>5. Accepted(Scan[Current(d)].action)' = Accepted(Scan[Current(d)].action)
    BY <2>2, <2>4 DEF Accepted
  <2>6. ~CodeTaken(Current(d)) => ~CodeTaken(Current(d))'
    BY <2>2, <2>4 DEF CodeTaken, SameCode
  <2>7. QED
    BY <2>1, <2>2, <2>3, <2>4, <2>5, <2>6
<1>5. HeldInv'
  BY <1>4 DEF HeldInv, Holding
<1>6. QED
  BY <1>3, <1>5

\* A step of r, after which it is about what it was about and holds no lock, changes no row.
LEMMA QuietStep ==
  ASSUME IInv, TypeOK', NEW r \in Requests, Becomes(r, request'[r]), UNCHANGED <<events, lock>>,
         ~Holding(r), ~Holding(r)'
  PROVE  LockInv' /\ HeldInv'
<1>1. \A d \in Requests : Holding(d)' <=> Holding(d)
  BY DEF Becomes, Holding
<1>2. LockInv'
  BY <1>1 DEF IInv, LockInv
<1>3. \A d \in Requests : Holding(d)' => request'[d] = request[d]
  BY DEF Becomes
<1>4. \A e, a : CodeTaken(e)' = CodeTaken(e) /\ Accepted(a)' = Accepted(a)
  BY DEF CodeTaken, Accepted
<1>5. ASSUME NEW d \in Requests, Holding(d)'
      PROVE  /\ request'[d].phase = "pair" => events'[Current(d)'] = "none" /\ ~CodeTaken(Current(d))'
             /\ request'[d].phase = "approve" => events'[Current(d)'] = "review"
             /\ request'[d].view = Accepted(Scan[Current(d)].action)'
  <2>1. request'[d] = request[d] /\ Holding(d)
    BY <1>1, <1>3, <1>5
  <2>2. Current(d)' = Current(d)
    BY <2>1 DEF Current
  <2>3. /\ request[d].phase = "pair" => events[Current(d)] = "none" /\ ~CodeTaken(Current(d))
        /\ request[d].phase = "approve" => events[Current(d)] = "review"
        /\ request[d].view = Accepted(Scan[Current(d)].action)
    BY <2>1 DEF IInv, HeldInv
  <2>4. CodeTaken(Current(d))' = CodeTaken(Current(d))
    BY <2>2 DEF CodeTaken
  <2>5. Accepted(Scan[Current(d)].action)' = Accepted(Scan[Current(d)].action)
    BY <2>2 DEF Accepted
  <2>6. QED
    BY <2>1, <2>2, <2>3, <2>4, <2>5
<1>6. HeldInv'
  BY <1>5 DEF HeldInv, Holding
<1>7. QED
  BY <1>2, <1>6

\* The lock is taken, and what is read under it is what there is.
LEMMA LockStep ==
  ASSUME IInv, TypeOK', NEW r \in Requests, InsertAccepted(r) \/ Approve(r)
  PROVE  LockInv' /\ HeldInv'
<1>1. /\ Becomes(r, request'[r]) /\ request'[r].queue = request[r].queue /\ Current(r) \in Scans
  BY MovesAreTyped DEF IInv
<1>2. /\ UNCHANGED events /\ lock = Free /\ lock' = r
      /\ request'[r].phase \in {"pair", "approve"}
      /\ request'[r].phase = "pair" => events[Current(r)] = "none" /\ ~CodeTaken(Current(r))
      /\ request'[r].phase = "approve" => events[Current(r)] = "review"
      /\ request'[r].view = Accepted(Scan[Current(r)].action)
  <2>1. CASE InsertAccepted(r)
    <3>1. request'[r] = Moved(request[r], "pair", request[r].facts, request[r].verdict,
                              Accepted(Scan[Current(r)].action))
      BY <2>1 DEF InsertAccepted, IInv, TypeOK
    <3>2. request'[r].phase = "pair" /\ request'[r].view = Accepted(Scan[Current(r)].action)
      BY <3>1 DEF Moved
    <3>3. QED
      BY <3>2, <2>1 DEF InsertAccepted, RowFree, rows
  <2>2. CASE Approve(r)
    <3>1. request'[r] = Moved(request[r], "approve", request[r].facts, request[r].verdict,
                              Accepted(Scan[Current(r)].action))
      BY <2>2 DEF Approve, IInv, TypeOK
    <3>2. request'[r].phase = "approve" /\ request'[r].view = Accepted(Scan[Current(r)].action)
      BY <3>1 DEF Moved
    <3>3. QED
      BY <3>2, <2>2 DEF Approve, RowFree, StillHeld, rows
  <2>3. QED
    BY <2>1, <2>2
<1>3. \A d \in Requests : ~Holding(d)
  BY <1>2, ScanAssumption DEF IInv, LockInv
<1>4. \A d \in Requests : Holding(d)' <=> d = r
  BY <1>1, <1>2, <1>3 DEF Becomes, Holding
<1>5. LockInv'
  BY <1>2, <1>4 DEF LockInv
<1>6. Current(r)' = Current(r)
  BY <1>1 DEF Current
<1>7. /\ CodeTaken(Current(r))' = CodeTaken(Current(r))
      /\ Accepted(Scan[Current(r)].action)' = Accepted(Scan[Current(r)].action)
  BY <1>2, <1>6 DEF CodeTaken, Accepted
<1>8. HeldInv'
  BY <1>2, <1>4, <1>6, <1>7 DEF HeldInv, Holding
<1>9. QED
  BY <1>5, <1>8

LEMMA LockInvStep ==
  ASSUME IInv, [Next]_vars
  PROVE  LockInv' /\ HeldInv'
<1>1. TypeOK /\ TypeOK'
  BY TypeStep DEF IInv
<1>2. CASE UNCHANGED <<lock, request, events>>
  <2>1. \A r \in Requests : /\ Current(r)' = Current(r) /\ CodeTaken(Current(r))' = CodeTaken(Current(r))
                            /\ Accepted(Scan[Current(r)].action)' = Accepted(Scan[Current(r)].action)
                            /\ Holding(r)' = Holding(r)
    BY <1>2 DEF Current, CodeTaken, Accepted, Holding
  <2>2. QED
    BY <1>2, <2>1 DEF IInv, LockInv, HeldInv, Holding
<1>3. CASE UNCHANGED vars \/ Others \/ \E e \in Scans : MakeScan(e)
  <2>1. CASE UNCHANGED vars
    BY <1>2, <2>1 DEF vars, rows
  <2>2. CASE Others \/ \E e \in Scans : MakeScan(e)
    BY <1>1, <1>2, <2>2, OthersAreTyped
  <2>3. QED
    BY <1>3, <2>1, <2>2
<1>4. ASSUME NEW r \in Requests, InsertAccepted(r) \/ Approve(r)
      PROVE  LockInv' /\ HeldInv'
  BY <1>1, <1>4, LockStep
<1>5. ASSUME NEW r \in Requests, DecideScan(r) \/ CodeUsed(r)
      PROVE  LockInv' /\ HeldInv'
  <2>1. Becomes(r, request'[r])
    BY <1>1, <1>5, MovesAreTyped
  <2>2. UNCHANGED <<events, lock>> /\ ~Holding(r)
    BY <1>5 DEF DecideScan, CodeUsed, Holding, rows
  <2>3. request'[r].phase \in {"store", "replay"}
    BY <1>1, <1>5 DEF DecideScan, CodeUsed, Moved, TypeOK
  <2>4. QED
    BY <1>1, <2>1, <2>2, <2>3, QuietStep DEF Holding
<1>6. ASSUME NEW r \in Requests,
             \/ \E side \in Sides : \E q \in Batches(side) : Submit(r, q)
             \/ \E e \in Scans, v \in {"accepted", "rejected"} : BeginReview(r, e, v)
      PROVE  LockInv' /\ HeldInv'
  <2>1. /\ Becomes(r, request'[r]) /\ request[r].phase = "idle"
        /\ request'[r].phase \in {"look", "review"}
    BY <1>1, <1>6, StartsAreTyped
  <2>2. UNCHANGED <<events, lock>>
    BY <1>6 DEF Submit, BeginReview, rows
  <2>3. QED
    BY <1>1, <2>1, <2>2, QuietStep DEF Holding
<1>7. ASSUME NEW r \in Requests,
             AnswerAgain(r) \/ FindStored(r) \/ StoreUncounted(r) \/ StoreReplay(r)
              \/ AlreadyDecided(r) \/ Decline(r)
      PROVE  LockInv' /\ HeldInv'
  <2>1. GoesOn(r)
    BY <1>1, <1>7, AnswersAreTyped
  <2>2. ~Holding(r)
    BY <1>7 DEF AnswerAgain, FindStored, StoreUncounted, StoreReplay, AlreadyDecided, Decline,
       Holding
  <2>3. QED
    BY <1>1, <1>7, <2>1, <2>2, AnswersStore, ReleaseStep
<1>8. ASSUME NEW r \in Requests, PairAndRecord(r)
      PROVE  LockInv' /\ HeldInv'
  <2>1. GoesOn(r)
    BY <1>1, <1>8, AnswersAreTyped
  <2>2. Holding(r) /\ lock' = Free
    BY <1>8 DEF PairAndRecord, Holding
  <2>3. QED
    BY <1>1, <2>1, <2>2, ReleaseStep
<1>9. ASSUME NEW r \in Requests, Crash(r)
      PROVE  LockInv' /\ HeldInv'
  <2>1. Becomes(r, Idle) /\ UNCHANGED events
    BY <1>1, <1>9, CrashIsTyped DEF Crash, rows
  <2>2. request'[r] = Idle /\ request'[r].phase = "idle"
    BY <2>1, IdleIsRequest DEF Becomes
  <2>3. GoesOn(r)
    <3>1. DOMAIN request'[r].queue = {}
      BY <2>2, IdleIsRequest
    <3>2. QED
      BY <2>1, <2>2, <3>1 DEF GoesOn, Becomes
  <2>4. CASE Holding(r)
    BY <1>1, <1>9, <2>3, <2>4, ReleaseStep DEF Crash, IInv, LockInv
  <2>5. CASE ~Holding(r)
    <3>1. lock' = lock
      BY <1>9, <2>5 DEF Crash, IInv, LockInv
    <3>2. QED
      BY <1>1, <2>1, <2>3, <2>5, <3>1, ReleaseStep
  <2>6. QED
    BY <2>4, <2>5
<1>10. QED
  BY <1>3, <1>4, <1>5, <1>6, <1>7, <1>8, <1>9, KindsOfStep

LEMMA MadeInvStep ==
  ASSUME IInv, [Next]_vars
  PROVE  MadeInv'
<1>1. TypeOK /\ TypeOK' /\ MadeInv
  BY TypeStep DEF IInv
<1>2. \A e \in Scans : made[e] # Never => made'[e] = made[e]
  BY StoredStays
<1>3. \A r \in Requests : \A i \in DOMAIN request[r].queue :
        request[r].queue[i] \in Scans /\ made[request[r].queue[i]] # Never
  <2>1. \A r \in Requests : request[r].queue \in Seq(Scans)
    BY <1>1 DEF TypeOK, Request
  <2>2. QED
    BY <1>1, <2>1, ElementOfSeq DEF MadeInv
<1>4. \A r \in Requests : request[r].phase # "idle" =>
        Current(r) \in Scans /\ made[Current(r)] # Never
  BY <1>1, <1>3, AtWork
<1>5. \A r \in Requests : \A i \in DOMAIN request'[r].queue : made'[request'[r].queue[i]] # Never
  <2>1. CASE UNCHANGED request
    BY <1>2, <1>3, <2>1
  <2>2. CASE \E r \in Requests :
               DecideScan(r) \/ InsertAccepted(r) \/ CodeUsed(r) \/ Approve(r)
    BY <1>1, <1>2, <1>3, <2>2, MovesAreTyped DEF Becomes
  <2>3. CASE \E r \in Requests :
               AnswerAgain(r) \/ FindStored(r) \/ StoreUncounted(r) \/ StoreReplay(r)
                 \/ PairAndRecord(r) \/ AlreadyDecided(r) \/ Decline(r)
    <3>1. PICK r \in Requests : GoesOn(r)
      BY <1>1, <2>3, AnswersAreTyped
    <3>2. QED
      BY <3>1, <1>2, <1>3 DEF GoesOn
  <2>4. CASE \E r \in Requests : Crash(r)
    <3>1. PICK r \in Requests : Becomes(r, Idle)
      BY <1>1, <2>4, CrashIsTyped
    <3>2. DOMAIN request'[r].queue = {}
      BY <3>1, IdleIsRequest DEF Becomes
    <3>3. QED
      BY <3>1, <3>2, <1>2, <1>3 DEF Becomes
  <2>5. CASE \E r \in Requests :
               \/ \E side \in Sides : \E q \in Batches(side) : Submit(r, q)
               \/ \E e \in Scans, v \in {"accepted", "rejected"} : BeginReview(r, e, v)
    <3>1. PICK r \in Requests :
            /\ Becomes(r, request'[r])
            /\ \A i \in DOMAIN request'[r].queue :
                 \/ made[request'[r].queue[i]] # Never
                 \/ request'[r].queue[i] \in Scans /\ events[request'[r].queue[i]] = "review"
      BY <1>1, <2>5, StartsAreTyped
    <3>2. request'[r].queue \in Seq(Scans)
      BY <1>1 DEF TypeOK, Request
    <3>3. \A i \in DOMAIN request'[r].queue : request'[r].queue[i] \in Scans
      BY <3>2, ElementOfSeq
    <3>4. \A i \in DOMAIN request'[r].queue : made'[request'[r].queue[i]] # Never
      BY <1>1, <1>2, <3>1, <3>3 DEF MadeInv
    <3>5. QED
      BY <3>1, <3>4, <1>2, <1>3 DEF Becomes
  <2>6. CASE UNCHANGED vars
    BY <2>1, <2>6 DEF vars
  <2>7. CASE Others \/ \E e \in Scans : MakeScan(e)
    BY <1>1, <2>1, <2>7, OthersAreTyped
  <2>8. QED
    BY <2>2, <2>3, <2>4, <2>5, <2>6, <2>7, KindsOfStep
<1>6. \A e \in Scans : events'[e] # "none" => made[e] # Never
  <2>1. CASE UNCHANGED events
    BY <1>1, <2>1 DEF MadeInv
  <2>2. ASSUME NEW r \in Requests, request[r].phase # "idle",
               NEW v, events' = [events EXCEPT ![Current(r)] = v]
        PROVE  \A e \in Scans : events'[e] # "none" => made[e] # Never
    BY <1>1, <1>4, <2>2 DEF MadeInv, TypeOK
  <2>3. CASE \E r \in Requests :
               AnswerAgain(r) \/ FindStored(r) \/ StoreUncounted(r) \/ StoreReplay(r)
                 \/ AlreadyDecided(r) \/ Decline(r)
    BY <1>1, <2>1, <2>2, <2>3, AnswersStore, AnswersAreTyped DEF StoresUnlocked, StoresBeside
  <2>4. CASE \E r \in Requests : PairAndRecord(r)
    BY <2>2, <2>4 DEF PairAndRecord
  <2>5. CASE \/ UNCHANGED vars
             \/ \E r \in Requests :
                  \/ Crash(r)
                  \/ \E side \in Sides : \E q \in Batches(side) : Submit(r, q)
                  \/ \E e \in Scans, v \in {"accepted", "rejected"} : BeginReview(r, e, v)
                  \/ DecideScan(r) \/ InsertAccepted(r) \/ CodeUsed(r) \/ Approve(r)
    BY <2>1, <2>5 DEF vars, Crash, Submit, BeginReview, DecideScan, InsertAccepted, CodeUsed,
       Approve, rows
  <2>6. CASE Others \/ \E e \in Scans : MakeScan(e)
    BY <1>1, <2>1, <2>6, OthersAreTyped
  <2>7. QED
    BY <2>3, <2>4, <2>5, <2>6, KindsOfStep
<1>7. QED
  BY <1>2, <1>5, <1>6 DEF MadeInv

LEMMA ReplayInvStep ==
  ASSUME IInv, [Next]_vars
  PROVE  ReplayInv'
<1>1. TypeOK /\ TypeOK' /\ ReplayInv
  BY TypeStep DEF IInv
<1>2. \A e \in Scans : events[e] # "none" => events'[e] # "none"
  BY StoredStays
<1>3. ASSUME NEW d \in Requests, request'[d].phase = "replay", request'[d] = request[d]
      PROVE  \E e \in Scans : SameCode(e, Current(d)') /\ events'[e] # "none"
  <2>1. Current(d)' = Current(d)
    BY <1>3 DEF Current
  <2>2. QED
    BY <1>1, <1>2, <1>3, <2>1 DEF ReplayInv
<1>4. ASSUME NEW r \in Requests, CodeUsed(r)
      PROVE  \E e \in Scans : SameCode(e, Current(r)') /\ events'[e] # "none"
  <2>1. request'[r].queue = request[r].queue
    BY <1>1, <1>4, MovesAreTyped
  <2>2. Current(r)' = Current(r)
    BY <2>1 DEF Current
  <2>3. PICK e \in Scans : SameCode(e, Current(r)) /\ events[e] \in {"accepted", "review"}
    BY <1>4 DEF CodeUsed, CodeTaken
  <2>4. QED
    BY <1>2, <2>2, <2>3
<1>5. \A d \in Requests : request'[d].phase = "replay" => request'[d] = request[d] \/ CodeUsed(d)
  <2>1. CASE UNCHANGED vars \/ Others \/ \E e \in Scans : MakeScan(e)
    <3>1. UNCHANGED request
      BY <1>1, <2>1, OthersAreTyped DEF vars
    <3>2. QED
      BY <3>1
  <2>2. ASSUME NEW r \in Requests, DecideScan(r) \/ InsertAccepted(r) \/ Approve(r)
        PROVE  request'[r].phase # "replay" /\ \A d \in Requests \ {r} : request'[d] = request[d]
    BY <1>1, <2>2 DEF DecideScan, InsertAccepted, Approve, Moved, TypeOK
  <2>3. ASSUME NEW r \in Requests,
               AnswerAgain(r) \/ FindStored(r) \/ StoreUncounted(r) \/ StoreReplay(r)
                 \/ PairAndRecord(r) \/ AlreadyDecided(r) \/ Decline(r)
        PROVE  request'[r].phase # "replay" /\ \A d \in Requests \ {r} : request'[d] = request[d]
    BY <1>1, <2>3, AnswersAreTyped DEF GoesOn
  <2>4. ASSUME NEW r \in Requests, Crash(r)
        PROVE  request'[r].phase # "replay" /\ \A d \in Requests \ {r} : request'[d] = request[d]
    BY <1>1, <2>4, CrashIsTyped, IdleIsRequest DEF Becomes
  <2>5. ASSUME NEW r \in Requests,
               \/ \E side \in Sides : \E q \in Batches(side) : Submit(r, q)
               \/ \E e \in Scans, v \in {"accepted", "rejected"} : BeginReview(r, e, v)
        PROVE  request'[r].phase # "replay" /\ \A d \in Requests \ {r} : request'[d] = request[d]
    BY <1>1, <2>5, StartsAreTyped DEF Becomes
  <2>6. ASSUME NEW r \in Requests, CodeUsed(r)
        PROVE  \A d \in Requests \ {r} : request'[d] = request[d]
    BY <1>1, <2>6 DEF CodeUsed, TypeOK
  <2>7. QED
    BY <2>1, <2>2, <2>3, <2>4, <2>5, <2>6, KindsOfStep
<1>6. QED
  BY <1>3, <1>4, <1>5 DEF ReplayInv

-----------------------------------------------------------------------------
(* Safety. *)

\* Outside pairAndRecord the accepted events and the checks stay as they are.
LEMMA NoPairing ==
  ASSUME IInv, [Next]_vars, ~(\E r \in Requests : PairAndRecord(r))
  PROVE  /\ UNCHANGED check
         /\ \A e \in Scans : events'[e] = "accepted" <=> events[e] = "accepted"
<1>1. CASE \E r \in Requests :
             AnswerAgain(r) \/ FindStored(r) \/ StoreUncounted(r) \/ StoreReplay(r)
               \/ AlreadyDecided(r) \/ Decline(r)
  BY <1>1, AnswersStore DEF StoresUnlocked, StoresBeside, IInv, TypeOK
<1>2. CASE \/ UNCHANGED vars
           \/ \E r \in Requests :
                \/ Crash(r)
                \/ \E side \in Sides : \E q \in Batches(side) : Submit(r, q)
                \/ \E e \in Scans, v \in {"accepted", "rejected"} : BeginReview(r, e, v)
                \/ DecideScan(r) \/ InsertAccepted(r) \/ CodeUsed(r) \/ Approve(r)
  BY <1>2 DEF vars, Crash, Submit, BeginReview, DecideScan, InsertAccepted, CodeUsed, Approve, rows
<1>3. CASE Others \/ \E e \in Scans : MakeScan(e)
  BY <1>3, OthersAreTyped DEF IInv
<1>4. QED
  BY <1>1, <1>2, <1>3, KindsOfStep

\* What pairAndRecord sees: all accepted events of the action, its own included.
LEMMA PairingView ==
  ASSUME IInv, NEW r \in Requests, PairAndRecord(r)
  PROVE  LET c == Current(r)
             a == Scan[Current(r)].action
             S == request[r].view \cup {c}
         IN  /\ c \in Scans /\ a \in Actions
             /\ events' = [events EXCEPT ![c] = "accepted"]
             /\ UNCHANGED made
             /\ S = { e \in Scans : events'[e] = "accepted" /\ Scan[e].action = a }
             /\ Record(a, S)
<1>1. TypeOK /\ Current(r) \in Scans
  BY AnswersAreTyped DEF IInv
<1>2. Scan[Current(r)].action \in Actions
  BY <1>1, ScanAssumption DEF ScanFacts
<1>3. request[r].view = Accepted(Scan[Current(r)].action)
  BY DEF PairAndRecord, IInv, HeldInv, Holding
<1>4. events' = [events EXCEPT ![Current(r)] = "accepted"] /\ made' = made
  BY DEF PairAndRecord, world
<1>5. request[r].view \cup {Current(r)}
        = { e \in Scans : events'[e] = "accepted" /\ Scan[e].action = Scan[Current(r)].action }
  BY <1>1, <1>3, <1>4 DEF Accepted, TypeOK
<1>6. QED
  BY <1>1, <1>2, <1>4, <1>5 DEF PairAndRecord

\* Two events match when and only when they are a pair of the accepted events of their action.
LEMMA MatchIsPair ==
  ASSUME TypeOK, NEW a \in Actions, NEW d \in Scans, NEW e \in Scans
  PROVE  (Scan[d].action = a /\ Match(d, e)) <=> <<d, e>> \in Pairs(Accepted(a))
  BY DEF Match, Pairs, Accepted

LEMMA EffectiveStays ==
  ASSUME IInv, [Next]_vars, NEW e \in Scans, events[e] # "none"
  PROVE  Effective(e)' = Effective(e)
  BY StoredStays DEF Effective, IInv, MadeInv

LEMMA MatchStays ==
  ASSUME IInv, [Next]_vars, NEW d \in Scans, NEW e \in Scans,
         events[d] = "accepted", events[e] = "accepted"
  PROVE  Match(d, e)' <=> Match(d, e)
<1>1. events'[d] = "accepted" /\ events'[e] = "accepted"
  BY StoredStays
<1>2. Effective(d)' = Effective(d) /\ Effective(e)' = Effective(e)
  BY EffectiveStays
<1>3. Distance(Effective(d), Effective(e))' = Distance(Effective(d), Effective(e))
  BY <1>2 DEF Distance
<1>4. QED
  BY <1>1, <1>3 DEF Match

LEMMA VerifiedStep ==
  ASSUME IInv, [Next]_vars
  PROVE  VerifiedHasBoth' /\ PairIsVerified'
<1>1. TypeOK /\ TypeOK' /\ VerifiedHasBoth /\ PairIsVerified
  BY TypeStep DEF IInv, Safe
<1>2. ASSUME NEW a \in Actions, check'[a] = check[a], check[a].state = "verified"
      PROVE  \E d, e \in Scans :
               Scan[d].action = a /\ Match(d, e)' /\ check'[a].halves = {d, e}
  <2>1. PICK d \in Scans : \E e \in Scans :
               Scan[d].action = a /\ Match(d, e) /\ check[a].halves = {d, e}
    BY <1>1, <1>2 DEF VerifiedHasBoth
  <2>2. PICK e \in Scans : Scan[d].action = a /\ Match(d, e) /\ check[a].halves = {d, e}
    BY <2>1
  <2>3. Match(d, e)'
    BY <2>2, MatchStays DEF Match
  <2>4. QED
    BY <1>2, <2>2, <2>3
<1>3. CASE ~(\E r \in Requests : PairAndRecord(r))
  <2>1. UNCHANGED check /\ \A e \in Scans : events'[e] = "accepted" <=> events[e] = "accepted"
    BY <1>3, NoPairing
  <2>2. VerifiedHasBoth'
    BY <1>2, <2>1 DEF VerifiedHasBoth
  <2>3. ASSUME NEW d \in Scans, NEW e \in Scans, Match(d, e)'
        PROVE  check'[Scan[d].action].state = "verified"
    <3>1. events[d] = "accepted" /\ events[e] = "accepted"
      BY <2>1, <2>3 DEF Match
    <3>2. Match(d, e)
      BY <3>1, <2>3, MatchStays
    <3>3. QED
      BY <3>2, <2>1, <1>1 DEF PairIsVerified
  <2>4. PairIsVerified'
    BY <2>3 DEF PairIsVerified
  <2>5. QED
    BY <2>2, <2>4
<1>4. ASSUME NEW r \in Requests, PairAndRecord(r)
      PROVE  VerifiedHasBoth' /\ PairIsVerified'
  <2> DEFINE c == Current(r)
             b == Scan[Current(r)].action
             S == request[r].view \cup {c}
  <2>1. /\ c \in Scans /\ b \in Actions
        /\ events' = [events EXCEPT ![c] = "accepted"]
        /\ UNCHANGED made
        /\ S = { e \in Scans : events'[e] = "accepted" /\ Scan[e].action = b }
        /\ Record(b, S)
    BY <1>4, PairingView
  <2>2. \A a \in Actions \ {b} : check'[a] = check[a]
    BY <2>1, <1>1 DEF Record, TypeOK
  <2> HIDE DEF b, S, c
  <2>3. \A d, e \in Scans : Effective(d)' = Effective(d)
    BY <2>1 DEF Effective
  <2>4. \A d, e \in Scans :
          (Scan[d].action = b /\ Match(d, e)') <=> <<d, e>> \in Pairs(S)
    <3>1. ASSUME NEW d \in Scans, NEW e \in Scans
          PROVE  (Scan[d].action = b /\ Match(d, e)') <=> <<d, e>> \in Pairs(S)
      <4>1. Distance(Effective(d), Effective(e))' = Distance(Effective(d), Effective(e))
        BY <2>3 DEF Distance
      <4>2. QED
        BY <4>1, <2>1 DEF Match, Pairs
    <3>2. QED
      BY <3>1
  <2>5. check'[b].state = "verified" \/ Pairs(S) = {}
    <3>1. CASE check[b].state = "verified" /\ UNCHANGED check
      BY <3>1
    <3>2. CASE \E p \in Picked(S) :
                 check' = [check EXCEPT ![b] = [state |-> "verified", halves |-> {p[1], p[2]}]]
      BY <3>2, <2>1, <1>1 DEF TypeOK
    <3>3. QED
      BY <3>1, <3>2, <2>1 DEF Record
  <2>6. check'[b].state = "verified" =>
          \/ check[b].state = "verified" /\ check'[b] = check[b]
          \/ \E p \in Pairs(S) : check'[b].halves = {p[1], p[2]}
    <3>1. check \in [Actions -> Check]
      BY <1>1 DEF TypeOK
    <3>2. CASE UNCHANGED check
      BY <3>2
    <3>3. CASE \E h : check' = [check EXCEPT ![b] = [state |-> "partial", halves |-> h]]
      BY <3>1, <3>3, <2>1
    <3>4. CASE \E p \in Picked(S) :
                 check' = [check EXCEPT ![b] = [state |-> "verified", halves |-> {p[1], p[2]}]]
      <4>1. PICK p \in Picked(S) :
              check' = [check EXCEPT ![b] = [state |-> "verified", halves |-> {p[1], p[2]}]]
        BY <3>4
      <4>2. p \in Pairs(S)
        BY <4>1 DEF Picked
      <4>3. check'[b].halves = {p[1], p[2]}
        BY <3>1, <4>1, <2>1
      <4>4. QED
        BY <4>2, <4>3
    <3>5. QED
      BY <2>1, <3>2, <3>3, <3>4 DEF Record
  <2>7. ASSUME NEW a \in Actions, check'[a].state = "verified"
        PROVE  \E d, e \in Scans :
                 Scan[d].action = a /\ Match(d, e)' /\ check'[a].halves = {d, e}
    <3>1. CASE check'[a] = check[a]
      BY <1>2, <2>7, <3>1
    <3>2. CASE a = b /\ check'[a] # check[a]
      <4>1. PICK p \in Pairs(S) : check'[b].halves = {p[1], p[2]}
        BY <2>6, <2>7, <3>2
      <4>2. p[1] \in Scans /\ p[2] \in Scans /\ p = <<p[1], p[2]>>
        BY <2>1 DEF Pairs
      <4>3. Scan[p[1]].action = b /\ Match(p[1], p[2])'
        BY <4>1, <4>2, <2>4
      <4>4. QED
        BY <3>2, <4>1, <4>2, <4>3
    <3>3. QED
      BY <3>1, <3>2, <2>2
  <2>8. ASSUME NEW d \in Scans, NEW e \in Scans, Match(d, e)'
        PROVE  check'[Scan[d].action].state = "verified"
    <3>1. Scan[d].action \in Actions
      BY ScanAssumption DEF ScanFacts
    <3>2. CASE Scan[d].action = b
      BY <2>4, <2>5, <2>8, <3>2
    <3>3. CASE Scan[d].action # b
      <4>1. d # c /\ e # c
        BY <3>3, <2>8 DEF Match, b, c
      <4>2. events[d] = "accepted" /\ events[e] = "accepted"
        BY <4>1, <2>1, <2>8, <1>1 DEF Match, TypeOK
      <4>3. Match(d, e)
        BY <4>2, <2>8, MatchStays
      <4>4. QED
        BY <4>3, <2>2, <3>1, <3>3, <1>1 DEF PairIsVerified
    <3>4. QED
      BY <3>2, <3>3
  <2>9. VerifiedHasBoth'
    BY <2>7 DEF VerifiedHasBoth
  <2>10. PairIsVerified'
    BY <2>8 DEF PairIsVerified
  <2>11. QED
    BY <2>9, <2>10
<1>5. QED
  BY <1>3, <1>4

LEMMA CodeStep ==
  ASSUME IInv, [Next]_vars
  PROVE  CodeCountsOnce'
<1> DEFINE Counted == {"accepted", "review"}
<1>1. TypeOK /\ CodeCountsOnce
  BY DEF IInv, Safe
<1>2. ASSUME NEW c \in Scans, NEW v,
             events' = [events EXCEPT ![c] = v],
             v \notin Counted \/ events[c] = "review" \/ ~CodeTaken(c)
      PROVE  CodeCountsOnce'
  BY <1>1, <1>2 DEF CodeCountsOnce, CodeTaken, SameCode, TypeOK
<1>3. CASE UNCHANGED events
  BY <1>1, <1>3 DEF CodeCountsOnce, SameCode
<1>4. CASE \E r \in Requests :
             AnswerAgain(r) \/ FindStored(r) \/ StoreUncounted(r) \/ StoreReplay(r)
               \/ AlreadyDecided(r) \/ Decline(r)
  BY <1>1, <1>2, <1>3, <1>4, AnswersStore DEF StoresUnlocked, StoresBeside
<1>5. ASSUME NEW r \in Requests, PairAndRecord(r)
      PROVE  CodeCountsOnce'
  <2>1. Current(r) \in Scans /\ events' = [events EXCEPT ![Current(r)] = "accepted"]
    BY <1>5, PairingView
  <2>2. events[Current(r)] = "review" \/ ~CodeTaken(Current(r))
    BY <1>5 DEF PairAndRecord, IInv, HeldInv
  <2>3. QED
    BY <1>2, <2>1, <2>2
<1>6. CASE \/ UNCHANGED vars
           \/ \E r \in Requests :
                \/ Crash(r)
                \/ \E side \in Sides : \E q \in Batches(side) : Submit(r, q)
                \/ \E e \in Scans, v \in {"accepted", "rejected"} : BeginReview(r, e, v)
                \/ DecideScan(r) \/ InsertAccepted(r) \/ CodeUsed(r) \/ Approve(r)
  BY <1>3, <1>6
     DEF vars, Crash, Submit, BeginReview, DecideScan, InsertAccepted, CodeUsed, Approve, rows
<1>7. CASE Others \/ \E e \in Scans : MakeScan(e)
  BY <1>1, <1>3, <1>7, OthersAreTyped
<1>8. QED
  BY <1>4, <1>5, <1>6, <1>7, KindsOfStep

LEMMA ToldStep ==
  ASSUME IInv, [Next]_vars
  PROVE  ToldAsStored'
<1>1. TypeOK /\ TypeOK' /\ ToldAsStored /\ ReplayInv /\ CodeCountsOnce'
  BY TypeStep, CodeStep DEF IInv, Safe
<1>2. /\ \A e \in Scans : events[e] \in {"accepted", "rejected"} => events'[e] = events[e]
      /\ \A e \in Scans : events[e] # "none" => events'[e] # "none"
  BY StoredStays
<1>3. ASSUME NEW e \in Scans, told'[e] = told[e]
      PROVE  /\ told'[e] = "accepted" => events'[e] = "accepted"
             /\ told'[e] = "rejected" =>
                  events'[e] = "rejected" \/ \E d \in Scans : SameCode(d, e) /\ events'[d] = "rejected"
  BY <1>1, <1>2, <1>3 DEF ToldAsStored
<1>4. CASE UNCHANGED told
  BY <1>3, <1>4 DEF ToldAsStored
<1>5. ASSUME NEW r \in Requests, NEW v, Current(r) \in Scans, Answer(r, v),
             v = events'[Current(r)]
      PROVE  ToldAsStored'
  BY <1>1, <1>3, <1>5 DEF ToldAsStored, Answer, TypeOK
<1>6. ASSUME NEW r \in Requests,
             AnswerAgain(r) \/ FindStored(r) \/ StoreUncounted(r)
      PROVE  ToldAsStored'
  <2>1. Current(r) \in Scans
    BY <1>1, <1>6, AnswersAreTyped
  <2>2. QED
    BY <1>1, <1>5, <1>6, <2>1 DEF AnswerAgain, FindStored, StoreUncounted, rows, TypeOK
<1>7. ASSUME NEW r \in Requests, PairAndRecord(r)
      PROVE  ToldAsStored'
  <2>1. Current(r) \in Scans /\ events' = [events EXCEPT ![Current(r)] = "accepted"]
    BY <1>7, PairingView
  <2>2. events'[Current(r)] = "accepted"
    BY <1>1, <2>1 DEF TypeOK
  <2>3. QED
    BY <1>4, <1>5, <1>7, <2>1, <2>2 DEF PairAndRecord
<1>8. ASSUME NEW r \in Requests, StoreReplay(r)
      PROVE  ToldAsStored'
  <2>1. Current(r) \in Scans
    BY <1>1, <1>8, AnswersAreTyped
  <2>2. told' = [told EXCEPT ![Current(r)] = "rejected"]
    BY <1>8 DEF StoreReplay, Answer
  <2>3. PICK d \in Scans : SameCode(d, Current(r)) /\ events[d] # "none"
    BY <1>1, <1>8 DEF ReplayInv, StoreReplay
  <2>4. events'[d] # "none" /\ events'[Current(r)] # "none"
    BY <1>1, <1>2, <1>8, <2>1, <2>3 DEF StoreReplay, TypeOK
  <2>5. events'[Current(r)] = "rejected" \/ events'[d] = "rejected"
    <3>1. events'[d] \in Verdicts /\ events'[Current(r)] \in Verdicts
      BY <1>1, <2>1 DEF TypeOK
    <3>2. ~({events'[d], events'[Current(r)]} \subseteq {"accepted", "review"})
      BY <1>1, <2>1, <2>3 DEF CodeCountsOnce, SameCode
    <3>3. QED
      BY <3>1, <3>2, <2>4 DEF Verdicts
  <2>6. told'[Current(r)] = "rejected" /\ \A e \in Scans \ {Current(r)} : told'[e] = told[e]
    BY <1>1, <2>1, <2>2 DEF TypeOK
  <2>7. QED
    BY <1>3, <2>3, <2>5, <2>6 DEF ToldAsStored
<1>9. CASE \/ UNCHANGED vars
           \/ \E r \in Requests :
                \/ Crash(r)
                \/ \E side \in Sides : \E q \in Batches(side) : Submit(r, q)
                \/ \E e \in Scans, v \in {"accepted", "rejected"} : BeginReview(r, e, v)
                \/ DecideScan(r) \/ InsertAccepted(r) \/ CodeUsed(r) \/ Approve(r)
                \/ AlreadyDecided(r) \/ Decline(r)
  BY <1>4, <1>9 DEF vars, Crash, Submit, BeginReview, DecideScan, InsertAccepted, CodeUsed,
     Approve, AlreadyDecided, Decline
<1>10. CASE Others \/ \E e \in Scans : MakeScan(e)
  BY <1>1, <1>4, <1>10, OthersAreTyped
<1>11. QED
  BY <1>6, <1>7, <1>8, <1>9, <1>10, KindsOfStep

LEMMA OutcomeStep ==
  ASSUME IInv, [Next]_vars
  PROVE  OutcomeRecorded'
<1>1. TypeOK /\ OutcomeRecorded
  BY DEF IInv, Safe
<1>2. CASE UNCHANGED <<booking, attendance, check>>
  BY <1>1, <1>2 DEF OutcomeRecorded
<1>3. ASSUME NEW r \in Requests, PairAndRecord(r)
      PROVE  OutcomeRecorded'
  <2>1. PICK a \in Actions : \E S : Record(a, S)
    BY <1>3, PairingView
  <2>2. PICK S : Record(a, S)
    BY <2>1
  <2>3. "in" \in Actions
    BY DEF Actions
  <2>4. CASE a = "in"
    BY <1>1, <2>2, <2>3, <2>4 DEF Record, CloseBooking, OutcomeRecorded, TypeOK, Statuses
  <2>5. CASE a # "in"
    BY <1>1, <2>2, <2>3, <2>5 DEF Record, OutcomeRecorded, TypeOK
  <2>6. QED
    BY <2>4, <2>5
<1>4. CASE \E outcome \in {"attended", "no_show"} : MarkAttendance(outcome)
  BY <1>1, <1>4 DEF MarkAttendance, OutcomeRecorded
<1>5. CASE CancelBooking
  BY <1>1, <1>5 DEF CancelBooking, OutcomeRecorded
<1>6. CASE \/ UNCHANGED vars
           \/ (\E s \in Sides : RevokeKey(s)) \/ LoseDuty \/ Tick \/ (\E e \in Scans : MakeScan(e))
           \/ \E r \in Requests :
                \/ Crash(r)
                \/ \E side \in Sides : \E q \in Batches(side) : Submit(r, q)
                \/ \E e \in Scans, v \in {"accepted", "rejected"} : BeginReview(r, e, v)
                \/ DecideScan(r) \/ InsertAccepted(r) \/ CodeUsed(r) \/ Approve(r)
                \/ AnswerAgain(r) \/ FindStored(r) \/ StoreUncounted(r) \/ StoreReplay(r)
                \/ AlreadyDecided(r) \/ Decline(r)
  BY ZenonT(40), <1>2, <1>6
     DEF vars, RevokeKey, LoseDuty, Tick, MakeScan, Crash, Submit, BeginReview, DecideScan,
         InsertAccepted, CodeUsed, Approve, AnswerAgain, FindStored, StoreUncounted, StoreReplay,
         AlreadyDecided, Decline, rows
<1>7. QED
  BY <1>3, <1>4, <1>5, <1>6, KindsOfStep DEF Others

LEMMA InvStep ==
  ASSUME IInv, [Next]_vars
  PROVE  IInv'
<1>1. TypeOK' /\ LockInv' /\ HeldInv' /\ MadeInv' /\ ReplayInv'
  BY TypeStep, LockInvStep, MadeInvStep, ReplayInvStep DEF IInv
<1>2. Safe'
  BY VerifiedStep, CodeStep, ToldStep, OutcomeStep DEF Safe
<1>3. QED
  BY <1>1, <1>2 DEF IInv

LEMMA Invariance == Spec => []IInv
<1>1. Init => IInv
  BY InitialInv
<1>2. IInv /\ [Next]_vars => IInv'
  BY InvStep
<1>3. QED
  BY <1>1, <1>2, PTL DEF Spec

\* A check is verified only on two accepted halves that are close in time.
THEOREM VerifiedHasItsHalves == Spec => []VerifiedHasBoth
<1>1. IInv => VerifiedHasBoth
  BY DEF IInv, Safe
<1>2. QED
  BY <1>1, Invariance, PTL

\* No exchange is missed, however its two halves arrive.
THEOREM NoExchangeMissed == Spec => []PairIsVerified
<1>1. IInv => PairIsVerified
  BY DEF IInv, Safe
<1>2. QED
  BY <1>1, Invariance, PTL

\* A pass or a challenge counts once.
THEOREM OneUseOfACode == Spec => []CodeCountsOnce
<1>1. IInv => CodeCountsOnce
  BY DEF IInv, Safe
<1>2. QED
  BY <1>1, Invariance, PTL

\* A device is told what is stored.
THEOREM AnswersAreTrue == Spec => []ToldAsStored
<1>1. IInv => ToldAsStored
  BY DEF IInv, Safe
<1>2. QED
  BY <1>1, Invariance, PTL

\* Attendance is recorded when and only when the booking is closed with that outcome.
THEOREM OutcomesAgree == Spec => []OutcomeRecorded
<1>1. IInv => OutcomeRecorded
  BY DEF IInv, Safe
<1>2. QED
  BY <1>1, Invariance, PTL

\* No scan, retry or approval changes the outcome of a booking that a person has closed.
THEOREM ClosedForGood == Spec => ClosedStays
<1>1. [Next]_vars => [booking # "approved" => booking' = booking /\ attendance' = attendance]_vars
  <2> SUFFICES ASSUME [Next]_vars, booking # "approved"
               PROVE  booking' = booking /\ attendance' = attendance
    OBVIOUS
  <2>1. CASE \E r \in Requests : PairAndRecord(r)
    BY <2>1 DEF PairAndRecord, Record, CloseBooking
  <2>2. CASE \/ UNCHANGED vars
             \/ Others \/ (\E e \in Scans : MakeScan(e))
             \/ \E r \in Requests :
                  \/ Crash(r)
                  \/ \E side \in Sides : \E q \in Batches(side) : Submit(r, q)
                  \/ \E e \in Scans, v \in {"accepted", "rejected"} : BeginReview(r, e, v)
                  \/ DecideScan(r) \/ InsertAccepted(r) \/ CodeUsed(r) \/ Approve(r)
                  \/ AnswerAgain(r) \/ FindStored(r) \/ StoreUncounted(r) \/ StoreReplay(r)
                  \/ AlreadyDecided(r) \/ Decline(r)
    BY <2>2
       DEF vars, Others, MarkAttendance, CancelBooking, RevokeKey, LoseDuty, Tick, MakeScan, Crash,
           Submit, BeginReview, DecideScan, InsertAccepted, CodeUsed, Approve, AnswerAgain,
           FindStored, StoreUncounted, StoreReplay, AlreadyDecided, Decline, rows
  <2>3. QED
    BY <2>1, <2>2, KindsOfStep
<1>2. QED
  BY <1>1, PTL DEF Spec, ClosedStays

-----------------------------------------------------------------------------
(* Refinement. *)

LEMMA LedgerStep ==
  ASSUME IInv, [Next]_vars
  PROVE  [Ledger!LedgerNext]_([e \in Scans |-> events[e]])
<1> DEFINE E == [e \in Scans |-> events[e]]
<1>1. TypeOK /\ TypeOK' /\ E = events /\ E' = events'
  BY TypeStep DEF IInv, TypeOK
<1>2. ASSUME NEW c \in Scans, NEW v \in {"accepted", "review", "rejected"},
             events' = [events EXCEPT ![c] = v],
             events[c] = "none" \/ (events[c] = "review" /\ v # "review")
      PROVE  Ledger!LedgerNext
  BY <1>1, <1>2 DEF Ledger!LedgerNext, Ledger!Decide, Ledger!Settle
<1>3. CASE \E r \in Requests :
             AnswerAgain(r) \/ FindStored(r) \/ StoreUncounted(r) \/ StoreReplay(r)
               \/ AlreadyDecided(r) \/ Decline(r)
  BY <1>1, <1>2, <1>3, AnswersStore DEF StoresUnlocked, StoresBeside
<1>4. CASE \E r \in Requests : PairAndRecord(r)
  BY <1>2, <1>4, PairingView DEF PairAndRecord, IInv, HeldInv
<1>5. CASE \/ UNCHANGED vars
           \/ \E r \in Requests :
                \/ Crash(r)
                \/ \E side \in Sides : \E q \in Batches(side) : Submit(r, q)
                \/ \E e \in Scans, v \in {"accepted", "rejected"} : BeginReview(r, e, v)
                \/ DecideScan(r) \/ InsertAccepted(r) \/ CodeUsed(r) \/ Approve(r)
  BY <1>1, <1>5 DEF vars, Crash, Submit, BeginReview, DecideScan, InsertAccepted, CodeUsed,
     Approve, rows
<1>6. CASE Others \/ \E e \in Scans : MakeScan(e)
  BY <1>1, <1>6, OthersAreTyped
<1>7. QED
  BY <1>3, <1>4, <1>5, <1>6, KindsOfStep

\* However often and in whatever order events are submitted, each is decided once, and a held one
\* once more.
THEOREM Refinement == Spec => ImplementsLedger
<1>1. Init => Ledger!LedgerInit
  BY DEF Init, Ledger!LedgerInit
<1>2. IInv /\ [Next]_vars => [Ledger!LedgerNext]_([e \in Scans |-> events[e]])
  BY LedgerStep
<1>3. QED
  BY <1>1, <1>2, Invariance, PTL DEF Spec, ImplementsLedger, Ledger!LedgerSpec

=============================================================================

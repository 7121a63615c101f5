-------------------------- MODULE DeviceOutboxProofs --------------------------
(***************************************************************************)
(* What the outbox of a device keeps true, for any people, pages, scans    *)
(* and faults, whatever sessions the pages send under.                     *)
(***************************************************************************)
EXTENDS DeviceOutbox, TLAPS

USE OutboxAssumption DEF Flushers

\* The answer r about the event e is no more than the server has decided, or the scan was
\* misdirected, or it is a replay that had been stored.
Agrees(e, r) ==
  /\ r \in Verdicts => verdict[e] # "none"
  /\ r = "accepted" => verdict[e] = "accepted"
  /\ r = "rejected" => verdict[e] = "rejected" \/ e \in replayed
  /\ r \in {"not-your-key", "unknown-key"} => e \in misdirected

\* The same of the next state, for an answer of this one.
AgreesNext(e, r) ==
  /\ r \in Verdicts => verdict'[e] # "none"
  /\ r = "accepted" => verdict'[e] = "accepted"
  /\ r = "rejected" => verdict'[e] = "rejected" \/ e \in replayed'
  /\ r \in {"not-your-key", "unknown-key"} => e \in misdirected'

RecordedInv == \A e \in Events : Agrees(e, outbox[e])

\* Background Sync passes over the answers about another person's events.
AnswerInv ==
  \A f \in Flushers, e \in Events :
    Agrees(e, flush[f].answer[e]) \/ (f \in Syncs /\ flush[f].answer[e] = "not-your-key")

\* What a request carries is signed with a known key and, from a page, goes out as the sender's
\* own, or it is misdirected.
SentInv ==
  \A f \in Flushers : flush[f].at = "sent" => \A e \in flush[f].batch :
    \/ e \in misdirected
    \/ Owner[e] \in enrolled /\ (f \in Pages => Owner[e] = flush[f].user)

\* A request is somebody's, and once its answer has come, that is about every event of the batch.
WholeInv ==
  \A f \in Flushers :
    /\ flush[f].at = "sent" => flush[f].user \in Users
    /\ flush[f].at = "write" => \A e \in flush[f].batch : flush[f].answer[e] \in Results

IInv == TypeOK /\ RecordedInv /\ AnswerInv /\ SentInv /\ WholeInv

-----------------------------------------------------------------------------
(* Shapes. *)

LEMMA FlushAtType ==
  ASSUME NEW at \in {"idle", "next", "sent", "write", "retry"}, NEW left \in SUBSET Events,
         NEW batch \in SUBSET Events, NEW user \in Users \cup {Nobody},
         NEW answer \in [Events -> Results \cup Stages]
  PROVE  /\ FlushAt(at, left, batch, user, answer) \in Flush
         /\ FlushAt(at, left, batch, user, answer).at = at
         /\ FlushAt(at, left, batch, user, answer).left = left
         /\ FlushAt(at, left, batch, user, answer).batch = batch
         /\ FlushAt(at, left, batch, user, answer).user = user
         /\ FlushAt(at, left, batch, user, answer).answer = answer
  BY DEF FlushAt, Flush

LEMMA NoAnswerType == NoAnswer \in [Events -> Results \cup Stages]
  BY DEF NoAnswer, Stages

LEMMA TowardType ==
  ASSUME NEW left \in SUBSET Events
  PROVE  /\ Toward(left) \in Flush
         /\ Toward(left).at \in {"idle", "next"}
         /\ Toward(left).at = "next" => left # {}
         /\ Toward(left).left = left /\ Toward(left).batch = {}
         /\ Toward(left).answer = NoAnswer
  <1> DEFINE at == IF left = {} THEN "idle" ELSE "next"
  <1>1. at \in {"idle", "next"} /\ (at = "next" => left # {})
    OBVIOUS
  <1>2. {} \in SUBSET Events /\ Nobody \in Users \cup {Nobody}
    OBVIOUS
  <1>3. Toward(left) = FlushAt(at, left, {}, Nobody, NoAnswer)
    BY DEF Toward
  <1> HIDE DEF at
  <1> QED BY <1>1, <1>2, <1>3, FlushAtType, NoAnswerType

LEMMA StillType ==
  /\ Still \in Flush /\ Still.at = "idle" /\ Still.left = {} /\ Still.batch = {}
  /\ Still.answer = NoAnswer
  <1>1. {} \in SUBSET Events /\ Nobody \in Users \cup {Nobody}
    OBVIOUS
  <1> QED BY <1>1, FlushAtType, NoAnswerType DEF Still

LEMMA FlushType ==
  ASSUME TypeOK, NEW f \in Flushers
  PROVE  /\ flush[f].at \in {"idle", "next", "sent", "write", "retry"}
         /\ flush[f].left \in SUBSET Events /\ flush[f].batch \in SUBSET Events
         /\ flush[f].user \in Users \cup {Nobody}
         /\ flush[f].answer \in [Events -> Results \cup Stages]
  BY DEF TypeOK, Flush

LEMMA RequestType ==
  ASSUME TypeOK, NEW f \in Flushers, NEW at \in {"sent", "write", "retry"},
         NEW batch \in SUBSET Events, NEW answer \in [Events -> Results \cup Stages]
  PROVE  /\ Request(f, at, batch, answer) \in Flush
         /\ Request(f, at, batch, answer).at = at
         /\ Request(f, at, batch, answer).left = flush[f].left
         /\ Request(f, at, batch, answer).batch = batch
         /\ Request(f, at, batch, answer).user = flush[f].user
         /\ Request(f, at, batch, answer).answer = answer
  <1>1. at \in {"idle", "next", "sent", "write", "retry"}
    OBVIOUS
  <1> QED BY <1>1, FlushType, FlushAtType DEF Request

-----------------------------------------------------------------------------
(* The server, and what is remembered, only go on. *)

\* A stored decision stays, unless it was held; keys stay registered, and history grows.
Grows ==
  /\ \A e \in Events :
       \/ verdict'[e] = verdict[e]
       \/ verdict[e] = "none"
       \/ verdict[e] = "review" /\ verdict'[e] # "none"
  /\ enrolled \subseteq enrolled'
  /\ misdirected \subseteq misdirected'
  /\ replayed \subseteq replayed'

VerdictType == verdict \in [Events -> Verdicts \cup {"none"}]

LEMMA GrowsAlone ==
  ASSUME UNCHANGED <<verdict, enrolled, history>>
  PROVE  Grows
  BY DEF Grows, history

\* What is held is not decided, so an answer that agrees goes on agreeing.
LEMMA AgreesStill ==
  ASSUME TypeOK, Grows, NEW e \in Events, NEW r, Agrees(e, r)
  PROVE  AgreesNext(e, r)
  <1>1. verdict[e] # "none" => verdict'[e] # "none"
    BY DEF Grows
  <1>2. verdict[e] = "accepted" => verdict'[e] = "accepted"
    BY DEF Grows
  <1>3. verdict[e] = "rejected" => verdict'[e] = "rejected"
    BY DEF Grows
  <1> QED BY <1>1, <1>2, <1>3 DEF Grows, Agrees, AgreesNext

LEMMA NoAnswerAgrees ==
  ASSUME NEW e \in Events, NEW r \in Stages
  PROVE  Agrees(e, r) /\ AgreesNext(e, r)
  BY DEF Stages, Agrees, AgreesNext, Verdicts

LEMMA DecideGoes ==
  ASSUME TypeOK, NEW e \in Events, NEW v \in Verdicts, Server!Decide(e, v),
         UNCHANGED <<enrolled, history>>
  PROVE  Grows /\ VerdictType' /\ verdict'[e] = v
  <1>1. verdict[e] = "none" /\ verdict' = [verdict EXCEPT ![e] = v]
    BY DEF Server!Decide
  <1>2. verdict \in [Events -> Verdicts \cup {"none"}]
    BY DEF TypeOK
  <1>3. verdict'[e] = v /\ \A d \in Events \ {e} : verdict'[d] = verdict[d]
    BY <1>1, <1>2
  <1>4. VerdictType'
    BY <1>1, <1>2 DEF VerdictType
  <1> QED BY <1>1, <1>3, <1>4 DEF Grows, history

LEMMA ReviewGoes ==
  ASSUME TypeOK, NEW e \in Events, NEW v \in {"accepted", "rejected"}, Server!Settle(e, v),
         UNCHANGED <<enrolled, history>>
  PROVE  Grows /\ VerdictType'
  <1>1. verdict[e] = "review" /\ verdict' = [verdict EXCEPT ![e] = v]
    BY DEF Server!Settle
  <1>2. verdict \in [Events -> Verdicts \cup {"none"}]
    BY DEF TypeOK
  <1>3. verdict'[e] = v /\ \A d \in Events \ {e} : verdict'[d] = verdict[d]
    BY <1>1, <1>2
  <1>4. VerdictType'
    BY <1>1, <1>2 DEF VerdictType, Verdicts
  <1> QED BY <1>1, <1>3, <1>4 DEF Grows, history

\* A step of the server with a submission answers it as is stored, or not at all, or refuses it.
LEMMA JudgeGoes ==
  ASSUME TypeOK, NEW u \in Users, NEW e \in Events, NEW from, NEW to \in Results \cup Stages,
         Judge(u, e, from, to), UNCHANGED <<enrolled, misdirected>>
  PROVE  /\ Grows /\ VerdictType' /\ replayed' \subseteq Events
         /\ to \notin {"not-your-key", "unknown-key"} => AgreesNext(e, to)
         /\ to = "unknown-key" => Owner[e] \notin enrolled
         /\ to = "not-your-key" => u # Owner[e]
  <1>1. verdict \in [Events -> Verdicts \cup {"none"}] /\ replayed \subseteq Events
    BY DEF TypeOK
  <1>2. CASE Look(u, e, from, to)
    <2>1. UNCHANGED <<verdict, enrolled, history>>
      BY <1>2 DEF Look, history
    <2>2. Grows /\ VerdictType' /\ replayed' \subseteq Events
      BY <1>1, <2>1, GrowsAlone DEF VerdictType, history
    <2>3. CASE verdict[e] = "none" /\ to = "fresh"
      BY <2>2, <2>3 DEF AgreesNext, Verdicts
    <2>4. CASE verdict[e] # "none" /\ u = Owner[e] /\ to = verdict[e]
      <3>1. to \in Verdicts
        BY <1>1, <2>4
      <3> QED BY <2>1, <2>2, <2>4, <3>1 DEF AgreesNext, Verdicts
    <2>5. CASE u # Owner[e] /\ to = "not-your-key"
      BY <2>2, <2>5
    <2> QED BY <1>2, <2>3, <2>4, <2>5 DEF Look
  <1>3. CASE Persist(u, e, from, to)
    <2>1. UNCHANGED <<enrolled, history>>
      BY <1>3 DEF Persist, history
    <2>2. CASE u = Owner[e] /\ u \in enrolled /\ to \in Verdicts /\ Server!Decide(e, to)
      BY <1>1, <2>1, <2>2, DecideGoes DEF AgreesNext, Verdicts, history
    <2>3. CASE UNCHANGED verdict
      <3>1. Grows /\ VerdictType' /\ replayed' \subseteq Events
        BY <1>1, <2>1, <2>3, GrowsAlone DEF VerdictType, history
      <3>2. CASE to = "replay"
        BY <3>1, <3>2 DEF AgreesNext, Verdicts
      <3>3. CASE verdict[e] # "none" /\ to = verdict[e]
        <4>1. to \in Verdicts
          BY <1>1, <3>3
        <4> QED BY <2>3, <3>1, <3>3, <4>1 DEF AgreesNext, Verdicts
      <3>4. CASE ~ (u = Owner[e] /\ u \in enrolled) /\ to = Foreign(e)
        BY <3>1, <3>4 DEF Foreign
      <3> QED BY <1>3, <2>2, <3>2, <3>3, <3>4 DEF Persist
    <2> QED BY <1>3, <2>2, <2>3 DEF Persist
  <1>4. CASE StoreReplay(u, e, from, to)
    <2>1. to = "rejected"
      BY <1>4 DEF StoreReplay
    <2>2. CASE verdict[e] = "none"
      <3>1. Server!Decide(e, "rejected") /\ UNCHANGED <<enrolled, history>>
        BY <1>4, <2>2 DEF StoreReplay, history
      <3>2. Grows /\ VerdictType' /\ verdict'[e] = "rejected"
        BY <3>1, DecideGoes DEF Verdicts
      <3> QED BY <1>1, <2>1, <3>1, <3>2 DEF AgreesNext, history
    <2>3. CASE verdict[e] # "none"
      <3>1. replayed' = replayed \cup {e} /\ UNCHANGED verdict
        BY <1>4, <2>3 DEF StoreReplay
      <3>2. Grows /\ VerdictType' /\ replayed' \subseteq Events
        BY <1>1, <3>1 DEF Grows, VerdictType
      <3>3. AgreesNext(e, to)
        BY <2>1, <2>3, <3>1 DEF AgreesNext
      <3> QED BY <2>1, <3>2, <3>3
    <2> QED BY <2>2, <2>3
  <1> QED BY <1>2, <1>3, <1>4 DEF Judge

-----------------------------------------------------------------------------
(* A step that changes one flush. *)

FlushesType ==
  flush \in [Flushers -> Flush] /\ \A f \in Flushers : flush[f].at = "next" => flush[f].left # {}

FlushesInv == FlushesType /\ AnswerInv /\ SentInv /\ WholeInv

\* What the flush F of f must be to keep the invariant, in the next state.
Sound(f, F) ==
  /\ F \in Flush
  /\ F.at = "next" => F.left # {}
  /\ F.at = "sent" => /\ F.user \in Users
                      /\ \A e \in F.batch :
                           \/ e \in misdirected'
                           \/ Owner[e] \in enrolled' /\ (f \in Pages => Owner[e] = F.user)
  /\ F.at = "write" => \A e \in F.batch : F.answer[e] \in Results
  /\ \A e \in Events : AgreesNext(e, F.answer[e]) \/ (f \in Syncs /\ F.answer[e] = "not-your-key")

LEMMA OneFlush ==
  ASSUME IInv, NEW f \in Flushers, NEW F, flush' = [flush EXCEPT ![f] = F], Sound(f, F), Grows
  PROVE  FlushesInv'
  <1>1. flush \in [Flushers -> Flush]
    BY DEF IInv, TypeOK
  <1>2. flush'[f] = F /\ \A g \in Flushers \ {f} : flush'[g] = flush[g]
    BY <1>1
  <1>3. FlushesType'
    BY <1>1, <1>2 DEF FlushesType, Sound, IInv, TypeOK
  <1>4. AnswerInv'
    <2> SUFFICES ASSUME NEW g \in Flushers, NEW e \in Events
                 PROVE  \/ AgreesNext(e, flush'[g].answer[e])
                        \/ g \in Syncs /\ flush'[g].answer[e] = "not-your-key"
      BY DEF AnswerInv, Agrees, AgreesNext
    <2>1. CASE g = f
      BY <1>2, <2>1 DEF Sound
    <2>2. CASE g # f
      <3>1. flush'[g] = flush[g]
        BY <1>2, <2>2
      <3>2. \/ Agrees(e, flush[g].answer[e])
            \/ g \in Syncs /\ flush[g].answer[e] = "not-your-key"
        BY DEF IInv, AnswerInv
      <3> QED BY <3>1, <3>2, AgreesStill DEF IInv
    <2> QED BY <2>1, <2>2
  <1>5. SentInv'
    <2> SUFFICES ASSUME NEW g \in Flushers, flush'[g].at = "sent", NEW e \in flush'[g].batch
                 PROVE  \/ e \in misdirected'
                        \/ Owner[e] \in enrolled' /\ (g \in Pages => Owner[e] = flush'[g].user)
      BY DEF SentInv
    <2>1. CASE g = f
      BY <1>2, <2>1 DEF Sound
    <2>2. CASE g # f
      <3>1. flush'[g] = flush[g]
        BY <1>2, <2>2
      <3> QED BY <3>1 DEF IInv, SentInv, Grows
    <2> QED BY <2>1, <2>2
  <1>6. WholeInv'
    BY <1>2 DEF WholeInv, Sound, IInv
  <1> QED BY <1>3, <1>4, <1>5, <1>6 DEF FlushesInv

\* Steps that touch no flush.
LEMMA FlushesAlone ==
  ASSUME IInv, UNCHANGED flush, Grows
  PROVE  FlushesInv'
  <1>1. FlushesType' /\ WholeInv'
    BY DEF IInv, TypeOK, FlushesType, WholeInv
  <1>2. AnswerInv'
    <2> SUFFICES ASSUME NEW g \in Flushers, NEW e \in Events
                 PROVE  \/ AgreesNext(e, flush[g].answer[e])
                        \/ g \in Syncs /\ flush[g].answer[e] = "not-your-key"
      BY DEF AnswerInv, Agrees, AgreesNext
    <2> QED BY AgreesStill DEF IInv, AnswerInv
  <1>3. SentInv'
    BY DEF IInv, SentInv, Grows
  <1> QED BY <1>1, <1>2, <1>3 DEF FlushesInv

\* Steps that leave the items alone.
LEMMA ItemsAlone ==
  ASSUME IInv, Grows, UNCHANGED outbox
  PROVE  RecordedInv'
  <1> SUFFICES ASSUME NEW e \in Events PROVE AgreesNext(e, outbox[e])
    BY DEF RecordedInv, Agrees, AgreesNext
  <1> QED BY AgreesStill DEF IInv, RecordedInv

LEMMA VerdictAlone ==
  ASSUME IInv, UNCHANGED verdict
  PROVE  VerdictType'
  BY DEF IInv, TypeOK, VerdictType

-----------------------------------------------------------------------------
(* What each flush may become. *)

LEMMA StillSound ==
  ASSUME NEW f \in Flushers
  PROVE  Sound(f, Still)
  <1>1. \A e \in Events : NoAnswer[e] \in Stages
    BY DEF NoAnswer, Stages
  <1> QED BY <1>1, StillType, NoAnswerAgrees DEF Sound

LEMMA TowardSound ==
  ASSUME NEW f \in Flushers, NEW left \in SUBSET Events
  PROVE  Sound(f, Toward(left))
  <1>1. \A e \in Events : NoAnswer[e] \in Stages
    BY DEF NoAnswer, Stages
  <1> QED BY <1>1, TowardType, NoAnswerAgrees DEF Sound

\* The items, the session, the pages and the keys stay; one flush changes.
LEMMA FlushOnly ==
  ASSUME IInv, Grows, VerdictType', NEW f \in Flushers, NEW F,
         flush' = [flush EXCEPT ![f] = F], Sound(f, F),
         stray' \subseteq Users \X Events \X Stages, faults' \in 0 .. MaxFaults,
         misdirected' \subseteq Events, replayed' \subseteq Events,
         UNCHANGED <<outbox, session, known, enrolled, page>>
  PROVE  IInv'
  <1>1. FlushesInv' /\ RecordedInv'
    BY OneFlush, ItemsAlone
  <1>2. TypeOK'
    BY <1>1 DEF IInv, TypeOK, FlushesInv, FlushesType, VerdictType
  <1> QED BY <1>1, <1>2 DEF IInv, FlushesInv

\* No flush changes, nor an item.
LEMMA FlushNone ==
  ASSUME IInv, Grows, VerdictType', stray' \subseteq Users \X Events \X Stages,
         replayed' \subseteq Events, session' \in Users \cup {Nobody},
         known' \in Users \cup {Nobody}, enrolled' \subseteq Users,
         page' \in [Pages -> Users \cup {Nobody}], faults' \in 0 .. MaxFaults,
         UNCHANGED <<outbox, flush, misdirected>>
  PROVE  IInv'
  <1>1. FlushesInv' /\ RecordedInv'
    BY FlushesAlone, ItemsAlone
  <1>2. TypeOK'
    BY <1>1 DEF IInv, TypeOK, FlushesInv, FlushesType, VerdictType
  <1> QED BY <1>1, <1>2 DEF IInv, FlushesInv

-----------------------------------------------------------------------------
(* The steps. *)

LEMMA InitHolds ==
  ASSUME Init
  PROVE  IInv
  <1>1. verdict = [e \in Events |-> "none"]
    BY DEF Init, Server!LedgerInit
  <1>2. \A f \in Flushers : flush[f] = Still
    BY DEF Init
  <1>3. \A f \in Flushers : flush[f] \in Flush /\ flush[f].at = "idle" /\ flush[f].left = {}
                            /\ flush[f].batch = {} /\ flush[f].answer = NoAnswer
    BY <1>2, StillType
  <1>4. flush \in [Flushers -> Flush]
    BY <1>3 DEF Init
  <1>5. TypeOK
    BY <1>1, <1>3, <1>4 DEF Init, TypeOK, Items
  <1>6. RecordedInv
    BY DEF Init, RecordedInv, Agrees, Verdicts
  <1>7. AnswerInv
    <2>1. \A e \in Events : NoAnswer[e] \in Stages
      BY DEF NoAnswer, Stages
    <2> QED BY <1>3, <2>1, NoAnswerAgrees DEF AnswerInv
  <1>8. SentInv /\ WholeInv
    BY <1>3 DEF SentInv, WholeInv
  <1> QED BY <1>5, <1>6, <1>7, <1>8 DEF IInv

LEMMA SignInStep ==
  ASSUME IInv, NEW u \in Users, SignIn(u)
  PROVE  IInv'
  <1>1. UNCHANGED <<outbox, known, page, verdict, enrolled, flush, stray, history, faults>>
        /\ session' = u
    BY DEF SignIn, device
  <1>2. Grows /\ VerdictType'
    BY <1>1, GrowsAlone, VerdictAlone
  <1> QED BY <1>1, <1>2, FlushNone DEF IInv, TypeOK, history

LEMMA SignOutStep ==
  ASSUME IInv, SignOut
  PROVE  IInv'
  <1>1. UNCHANGED <<outbox, known, page, verdict, enrolled, flush, stray, history>>
        /\ session' = Nobody /\ faults' \in 0 .. MaxFaults
    BY DEF SignOut, Fault, device, IInv, TypeOK
  <1>2. Grows /\ VerdictType'
    BY <1>1, GrowsAlone, VerdictAlone
  <1> QED BY <1>1, <1>2, FlushNone DEF IInv, TypeOK, history

LEMMA OpenStep ==
  ASSUME IInv, NEW p \in Pages, Open(p)
  PROVE  IInv'
  <1>1. UNCHANGED <<outbox, verdict, session, flush, stray, history, faults>>
        /\ session # Nobody /\ known' = session
    BY DEF Open
  <1>2. session \in Users /\ enrolled \subseteq Users /\ page \in [Pages -> Users \cup {Nobody}]
    BY <1>1 DEF IInv, TypeOK
  <1>3. enrolled \subseteq enrolled' /\ enrolled' \subseteq Users
        /\ page' \in [Pages -> Users \cup {Nobody}]
    BY <1>2 DEF Open
  <1>4. Grows /\ VerdictType'
    BY <1>1, <1>3, VerdictAlone DEF Grows, history
  <1> QED BY <1>1, <1>2, <1>3, <1>4, FlushNone DEF IInv, TypeOK, history

LEMMA OpenSignedOutStep ==
  ASSUME IInv, NEW p \in Pages, OpenSignedOut(p)
  PROVE  IInv'
  <1>1. UNCHANGED <<outbox, verdict, session, enrolled, page, flush, stray, history, faults>>
        /\ known' = Nobody
    BY DEF OpenSignedOut
  <1>2. Grows /\ VerdictType'
    BY <1>1, GrowsAlone, VerdictAlone
  <1> QED BY <1>1, <1>2, FlushNone DEF IInv, TypeOK, history

LEMMA OpenOfflineStep ==
  ASSUME IInv, NEW p \in Pages, OpenOffline(p)
  PROVE  IInv'
  <1>1. UNCHANGED <<outbox, verdict, session, known, enrolled, flush, stray, history, faults>>
        /\ page' = [page EXCEPT ![p] = known]
    BY DEF OpenOffline
  <1>2. page' \in [Pages -> Users \cup {Nobody}]
    BY <1>1 DEF IInv, TypeOK
  <1>3. Grows /\ VerdictType'
    BY <1>1, GrowsAlone, VerdictAlone
  <1> QED BY <1>1, <1>2, <1>3, FlushNone DEF IInv, TypeOK, history

LEMMA EnqueueStep ==
  ASSUME IInv, NEW p \in Pages, NEW e \in Events, Enqueue(p, e)
  PROVE  IInv'
  <1>1. UNCHANGED <<verdict, session, known, enrolled, page, flush, stray, history, faults>>
        /\ outbox' = [outbox EXCEPT ![e] = "pending"]
    BY DEF Enqueue
  <1>2. Grows /\ VerdictType'
    BY <1>1, GrowsAlone, VerdictAlone
  <1>3. FlushesInv'
    BY <1>1, <1>2, FlushesAlone
  <1>4. outbox \in [Events -> Items]
    BY DEF IInv, TypeOK
  <1>5. \A d \in Events : outbox'[d] = IF d = e THEN "pending" ELSE outbox[d]
    BY <1>1, <1>4
  <1>6. RecordedInv'
    <2> SUFFICES ASSUME NEW d \in Events PROVE AgreesNext(d, outbox'[d])
      BY DEF RecordedInv, Agrees, AgreesNext
    <2>1. CASE d = e
      BY <1>5, <2>1 DEF AgreesNext, Verdicts
    <2>2. CASE d # e
      BY <1>2, <1>5, <2>2, AgreesStill DEF IInv, RecordedInv
    <2> QED BY <2>1, <2>2
  <1>7. outbox' \in [Events -> Items]
    BY <1>1, <1>4 DEF Items
  <1>8. TypeOK'
    BY <1>1, <1>2, <1>3, <1>7 DEF IInv, TypeOK, FlushesInv, FlushesType, VerdictType, history
  <1> QED BY <1>3, <1>6, <1>8 DEF IInv, FlushesInv

\* A step of the device that only moves one flush.
LEMMA Moved ==
  ASSUME IInv, NEW f \in Flushers, NEW F, flush' = [flush EXCEPT ![f] = F], Sound(f, F),
         UNCHANGED <<outbox, known, page, verdict, session, enrolled, stray, history, faults>>
  PROVE  IInv'
  <1>1. Grows /\ VerdictType'
    BY GrowsAlone, VerdictAlone
  <1>2. /\ stray' \subseteq Users \X Events \X Stages /\ faults' \in 0 .. MaxFaults
        /\ misdirected' \subseteq Events /\ replayed' \subseteq Events
    BY DEF IInv, TypeOK, history
  <1> QED BY <1>1, <1>2, FlushOnly

LEMMA BeginStep ==
  ASSUME IInv, NEW f \in Flushers, Begin(f)
  PROVE  IInv'
  <1>1. flush' = [flush EXCEPT ![f] = Toward(Unsent(f))]
        /\ UNCHANGED <<outbox, known, page, verdict, session, enrolled, stray, history, faults>>
    BY DEF Begin, device
  <1>2. Unsent(f) \in SUBSET Events
    BY DEF Unsent
  <1> QED BY <1>1, <1>2, TowardSound, Moved

LEMMA SignedOutStep ==
  ASSUME IInv, NEW f \in Flushers, SignedOut(f)
  PROVE  IInv'
  <1>1. flush' = [flush EXCEPT ![f] = Still]
        /\ UNCHANGED <<outbox, known, page, verdict, session, enrolled, stray, history, faults>>
    BY DEF SignedOut, device
  <1> QED BY <1>1, StillSound, Moved

LEMMA SendStep ==
  ASSUME IInv, NEW f \in Flushers, Send(f)
  PROVE  IInv'
  <1>1. session # Nobody
        /\ UNCHANGED <<outbox, known, page, verdict, session, enrolled, stray, replayed, faults>>
    BY DEF Send, device
  <1>2. PICK B \in SUBSET flush[f].left :
          /\ flush' = [flush EXCEPT ![f] =
                         FlushAt("sent", flush[f].left \ B, B, session, NoAnswer)]
          /\ misdirected' = misdirected \cup {e \in B : Misdirected(f, e)}
    BY DEF Send
  <1> DEFINE F == FlushAt("sent", flush[f].left \ B, B, session, NoAnswer)
  <1>3. B \in SUBSET Events /\ flush[f].left \ B \in SUBSET Events /\ session \in Users
    BY <1>1, FlushType DEF IInv, TypeOK
  <1>4. F \in Flush /\ F.at = "sent" /\ F.batch = B /\ F.user = session /\ F.answer = NoAnswer
    BY <1>3, FlushAtType, NoAnswerType
  <1>5. flush' = [flush EXCEPT ![f] = F]
    BY <1>2
  <1> HIDE DEF F
  <1>6. \A e \in B : \/ e \in misdirected'
                     \/ Owner[e] \in enrolled' /\ (f \in Pages => Owner[e] = F.user)
    BY <1>1, <1>2, <1>4 DEF Misdirected
  <1>7. \A e \in Events : NoAnswer[e] \in Stages
    BY DEF NoAnswer, Stages
  <1>8. Sound(f, F)
    BY <1>3, <1>4, <1>6, <1>7, NoAnswerAgrees DEF Sound
  <1>9. misdirected' \subseteq Events /\ misdirected \subseteq misdirected'
    BY <1>2, <1>3 DEF IInv, TypeOK
  <1>10. Grows /\ VerdictType'
    BY <1>1, <1>9, VerdictAlone DEF Grows
  <1>11. stray' \subseteq Users \X Events \X Stages /\ faults' \in 0 .. MaxFaults
         /\ replayed' \subseteq Events
    BY <1>1 DEF IInv, TypeOK
  <1> QED BY <1>1, <1>5, <1>8, <1>9, <1>10, <1>11, FlushOnly

LEMMA AnsweredStep ==
  ASSUME IInv, NEW f \in Flushers, Answered(f)
  PROVE  IInv'
  <1> DEFINE F == Request(f, "write", flush[f].batch, flush[f].answer)
  <1>1. /\ \A e \in flush[f].batch : flush[f].answer[e] \in Results
        /\ flush' = [flush EXCEPT ![f] = F]
        /\ UNCHANGED <<outbox, known, page, verdict, session, enrolled, stray, history, faults>>
    BY DEF Answered, device
  <1>2. F \in Flush /\ F.at = "write" /\ F.batch = flush[f].batch /\ F.answer = flush[f].answer
    BY FlushType, RequestType DEF IInv
  <1>3. Grows
    BY <1>1, GrowsAlone
  <1> HIDE DEF F
  <1>4. Sound(f, F)
    BY <1>1, <1>2, <1>3, AgreesStill DEF Sound, IInv, AnswerInv
  <1> QED BY <1>1, <1>4, Moved

LEMMA AbandonedType ==
  ASSUME IInv, NEW f \in Flushers, flush[f].at = "sent"
  PROVE  Abandoned(f) \subseteq Users \X Events \X Stages
  <1>1. flush[f].user \in Users /\ flush[f].batch \in SUBSET Events
    BY FlushType DEF IInv, WholeInv
  <1> QED BY <1>1 DEF Abandoned

LEMMA UnansweredStep ==
  ASSUME IInv, NEW f \in Flushers, Unanswered(f)
  PROVE  IInv'
  <1> DEFINE G == FlushAt("retry", {}, flush[f].batch, Nobody, NoAnswer)
             F == IF f \in Pages THEN G ELSE Still
  <1>1. /\ flush[f].at = "sent" /\ flush' = [flush EXCEPT ![f] = F]
        /\ stray' = stray \cup Abandoned(f) /\ faults' \in 0 .. MaxFaults
        /\ UNCHANGED <<outbox, known, page, verdict, session, enrolled, history>>
    BY DEF Unanswered, Fault, device, IInv, TypeOK
  <1>2. stray' \subseteq Users \X Events \X Stages
    BY <1>1, AbandonedType DEF IInv, TypeOK
  <1>3. flush[f].batch \in SUBSET Events /\ {} \in SUBSET Events /\ Nobody \in Users \cup {Nobody}
    BY FlushType DEF IInv
  <1>4. G \in Flush /\ G.at = "retry" /\ G.batch = flush[f].batch /\ G.answer = NoAnswer
    BY <1>3, FlushAtType, NoAnswerType
  <1> HIDE DEF G
  <1>5. \A e \in Events : NoAnswer[e] \in Stages
    BY DEF NoAnswer, Stages
  <1>6. Sound(f, G)
    BY <1>4, <1>5, NoAnswerAgrees DEF Sound
  <1>7. Sound(f, F)
    BY <1>6, StillSound
  <1>8. Grows /\ VerdictType' /\ misdirected' \subseteq Events /\ replayed' \subseteq Events
    BY <1>1, GrowsAlone, VerdictAlone DEF IInv, TypeOK, history
  <1> HIDE DEF F
  <1> QED BY <1>1, <1>2, <1>7, <1>8, FlushOnly

LEMMA HandleStep ==
  ASSUME IInv, NEW f \in Flushers, NEW e \in Events, Handle(f, e)
  PROVE  IInv'
  <1>1. /\ flush[f].at = "sent" /\ e \in flush[f].batch
        /\ UNCHANGED <<outbox, known, page, session, enrolled, stray, misdirected, faults>>
    BY DEF Handle, device
  <1>2. PICK to \in Results \cup Stages :
          /\ Judge(flush[f].user, e, flush[f].answer[e], to)
          /\ flush' = [flush EXCEPT ![f] = Request(f, "sent", flush[f].batch,
                                                  [flush[f].answer EXCEPT ![e] = to])]
    BY DEF Handle
  <1> DEFINE answer == [flush[f].answer EXCEPT ![e] = to]
             F == Request(f, "sent", flush[f].batch, answer)
  <1>3. flush[f].user \in Users
    BY <1>1 DEF IInv, WholeInv
  <1>4. /\ Grows /\ VerdictType' /\ replayed' \subseteq Events
        /\ to \notin {"not-your-key", "unknown-key"} => AgreesNext(e, to)
        /\ to = "unknown-key" => Owner[e] \notin enrolled
        /\ to = "not-your-key" => flush[f].user # Owner[e]
    BY <1>1, <1>2, <1>3, JudgeGoes DEF IInv
  <1>5. /\ answer \in [Events -> Results \cup Stages] /\ flush[f].batch \in SUBSET Events
        /\ \A d \in Events : answer[d] = IF d = e THEN to ELSE flush[f].answer[d]
    BY FlushType DEF IInv
  <1>6. /\ F \in Flush /\ F.at = "sent" /\ F.batch = flush[f].batch
        /\ F.user = flush[f].user /\ F.answer = answer
    BY <1>5, RequestType DEF IInv
  <1>7. flush' = [flush EXCEPT ![f] = F]
    BY <1>2
  <1> HIDE DEF F, answer
  <1>8. \A d \in F.batch : \/ d \in misdirected'
                           \/ Owner[d] \in enrolled' /\ (f \in Pages => Owner[d] = F.user)
    BY <1>1, <1>6 DEF IInv, SentInv
  <1>9. AgreesNext(e, to) \/ (f \in Syncs /\ to = "not-your-key")
    <2>1. to \in {"not-your-key", "unknown-key"} /\ ~ (f \in Syncs /\ to = "not-your-key")
            => e \in misdirected
      BY <1>1, <1>4 DEF IInv, SentInv
    <2> QED BY <1>1, <1>4, <2>1 DEF AgreesNext, Verdicts
  <1>10. \A d \in Events : \/ AgreesNext(d, answer[d])
                           \/ f \in Syncs /\ answer[d] = "not-your-key"
    BY <1>4, <1>5, <1>9, AgreesStill DEF IInv, AnswerInv
  <1>11. Sound(f, F)
    BY <1>3, <1>6, <1>8, <1>10 DEF Sound
  <1>12. /\ stray' \subseteq Users \X Events \X Stages /\ faults' \in 0 .. MaxFaults
         /\ misdirected' \subseteq Events
    BY <1>1 DEF IInv, TypeOK
  <1> QED BY <1>1, <1>4, <1>7, <1>11, <1>12, FlushOnly

LEMMA HandleStrayStep ==
  ASSUME IInv, NEW u \in Users, NEW e \in Events, NEW from \in Stages, HandleStray(u, e, from)
  PROVE  IInv'
  <1>1. UNCHANGED <<outbox, known, page, session, enrolled, flush, misdirected, faults>>
    BY DEF HandleStray, device
  <1>2. PICK to \in Results \cup Stages :
          /\ Judge(u, e, from, to)
          /\ stray' = (stray \ {<<u, e, from>>})
                        \cup ({<<u, e, to>>} \cap (Users \X Events \X Stages))
    BY DEF HandleStray
  <1>3. Grows /\ VerdictType' /\ replayed' \subseteq Events
    BY <1>1, <1>2, JudgeGoes DEF IInv
  <1>4. stray' \subseteq Users \X Events \X Stages
    BY <1>2 DEF IInv, TypeOK
  <1> QED BY <1>1, <1>3, <1>4, FlushNone DEF IInv, TypeOK

LEMMA ReviewStep ==
  ASSUME IInv, NEW e \in Events, NEW v \in {"accepted", "rejected"}, Review(e, v)
  PROVE  IInv'
  <1>1. UNCHANGED <<outbox, known, page, session, enrolled, flush, stray, history, faults>>
    BY DEF Review, device
  <1>2. Grows /\ VerdictType'
    BY <1>1, ReviewGoes DEF Review, IInv
  <1> QED BY <1>1, <1>2, FlushNone DEF IInv, TypeOK, history

\* An item is done with: the flush carries less.
LEMMA DoneFlush ==
  ASSUME IInv, NEW f \in Flushers, NEW e \in flush[f].batch, flush[f].at \in {"write", "retry"},
         Done(f, e), Grows
  PROVE  FlushesInv'
  <1>1. flush[f].left \in SUBSET Events /\ flush[f].batch \in SUBSET Events
    BY FlushType DEF IInv
  <1>2. CASE flush[f].batch = {e}
    <2>1. flush' = [flush EXCEPT ![f] = Toward(flush[f].left)]
      BY <1>2 DEF Done
    <2> QED BY <1>1, <2>1, TowardSound, OneFlush
  <1>3. CASE flush[f].batch # {e}
    <2> DEFINE at == flush[f].at
               batch == flush[f].batch \ {e}
               F == Request(f, at, batch, flush[f].answer)
    <2>1. flush' = [flush EXCEPT ![f] = F]
      BY <1>3 DEF Done
    <2>2. at \in {"sent", "write", "retry"} /\ batch \in SUBSET Events
      BY <1>1
    <2>3. F \in Flush /\ F.at = at /\ F.batch = batch /\ F.answer = flush[f].answer
      BY <2>2, RequestType, FlushType DEF IInv
    <2>4. at # "sent" /\ at # "next"
      OBVIOUS
    <2> HIDE DEF F
    <2>5. \A d \in Events : \/ AgreesNext(d, F.answer[d])
                            \/ f \in Syncs /\ F.answer[d] = "not-your-key"
      BY <2>3, AgreesStill DEF IInv, AnswerInv
    <2>6. F.at = "write" => \A d \in F.batch : F.answer[d] \in Results
      BY <2>3 DEF IInv, WholeInv
    <2>7. Sound(f, F)
      BY <2>3, <2>4, <2>5, <2>6 DEF Sound
    <2> QED BY <2>1, <2>7, OneFlush
  <1> QED BY <1>2, <1>3

\* One item is written back, with no more than the server has decided.
LEMMA OneItem ==
  ASSUME IInv, NEW f \in Flushers, NEW e \in flush[f].batch, flush[f].at \in {"write", "retry"},
         Done(f, e), NEW i \in Items, outbox' = [outbox EXCEPT ![e] = i], Agrees(e, i),
         UNCHANGED <<verdict, session, known, enrolled, page, stray, history, faults>>
  PROVE  IInv'
  <1>1. Grows /\ VerdictType'
    BY GrowsAlone, VerdictAlone
  <1>2. e \in Events /\ outbox \in [Events -> Items] /\ outbox' \in [Events -> Items]
    BY FlushType DEF IInv, TypeOK
  <1>3. \A d \in Events : outbox'[d] = IF d = e THEN i ELSE outbox[d]
    BY <1>2
  <1>4. FlushesInv'
    BY <1>1, DoneFlush
  <1>5. TypeOK'
    BY <1>1, <1>2, <1>4 DEF IInv, TypeOK, FlushesInv, FlushesType, VerdictType, history
  <1>6. RecordedInv'
    <2> SUFFICES ASSUME NEW d \in Events PROVE AgreesNext(d, outbox'[d])
      BY DEF RecordedInv, Agrees, AgreesNext
    <2>1. Agrees(d, outbox'[d])
      BY <1>3 DEF IInv, RecordedInv
    <2> QED BY <1>1, <2>1, AgreesStill DEF IInv
  <1> QED BY <1>4, <1>5, <1>6 DEF IInv, FlushesInv

LEMMA WriteErrorStep ==
  ASSUME IInv, NEW f \in Flushers, NEW e \in Events, WriteError(f, e)
  PROVE  IInv'
  <1>1. /\ e \in flush[f].batch /\ flush[f].at = "retry" /\ Done(f, e)
        /\ outbox' = [outbox EXCEPT ![e] = "pending"]
        /\ UNCHANGED <<verdict, session, known, enrolled, page, stray, history, faults>>
    BY DEF WriteError
  <1>2. "pending" \in Items /\ Agrees(e, "pending")
    BY DEF Items, Agrees, Verdicts
  <1> QED BY <1>1, <1>2, OneItem

LEMMA WriteResultStep ==
  ASSUME IInv, NEW f \in Flushers, NEW e \in Events, WriteResult(f, e)
  PROVE  IInv'
  <1>1. /\ f \in Pages /\ e \in flush[f].batch /\ flush[f].at = "write" /\ Done(f, e)
        /\ outbox' = [outbox EXCEPT ![e] = flush[f].answer[e]]
        /\ UNCHANGED <<verdict, session, known, enrolled, page, stray, history, faults>>
    BY DEF WriteResult
  <1>2. flush[f].answer[e] \in Items
    BY <1>1 DEF IInv, WholeInv, Items
  <1>3. f \notin Syncs
    BY <1>1
  <1>4. Agrees(e, flush[f].answer[e])
    BY <1>3 DEF IInv, AnswerInv
  <1> QED BY <1>1, <1>2, <1>4, OneItem

LEMMA WriteResultsStep ==
  ASSUME IInv, NEW f \in Flushers, WriteResults(f)
  PROVE  IInv'
  <1> DEFINE written == {e \in flush[f].batch : flush[f].answer[e] # "not-your-key"}
  <1>1. /\ flush[f].at = "write"
        /\ outbox' = [e \in Events |-> IF e \in flush[f].batch /\ flush[f].answer[e] # "not-your-key"
                                         THEN flush[f].answer[e] ELSE outbox[e]]
        /\ flush' = [flush EXCEPT ![f] = Toward(flush[f].left)]
        /\ UNCHANGED <<verdict, session, known, enrolled, page, stray, history, faults>>
    BY DEF WriteResults
  <1>2. flush[f].left \in SUBSET Events /\ flush[f].batch \in SUBSET Events
    BY FlushType DEF IInv
  <1>3. \A e \in Events : /\ e \in written => outbox'[e] = flush[f].answer[e]
                          /\ e \notin written => outbox'[e] = outbox[e]
    BY <1>1
  <1>4. \A e \in written : flush[f].answer[e] \in Items /\ Agrees(e, flush[f].answer[e])
    BY <1>1, <1>2 DEF IInv, WholeInv, AnswerInv, Items
  <1>5. outbox \in [Events -> Items] /\ \A e \in Events : Agrees(e, outbox[e])
    BY DEF IInv, TypeOK, RecordedInv
  <1>6. \A e \in Events : outbox'[e] \in Items
    BY <1>3, <1>4, <1>5
  <1>7. outbox' \in [Events -> Items]
    BY <1>1, <1>6
  <1>8. Grows /\ VerdictType'
    BY <1>1, GrowsAlone, VerdictAlone
  <1>9. RecordedInv'
    <2> SUFFICES ASSUME NEW d \in Events PROVE AgreesNext(d, outbox'[d])
      BY DEF RecordedInv, Agrees, AgreesNext
    <2>1. Agrees(d, outbox'[d])
      BY <1>3, <1>4, <1>5
    <2> QED BY <1>8, <2>1, AgreesStill DEF IInv
  <1>10. FlushesInv'
    BY <1>1, <1>2, <1>8, TowardSound, OneFlush
  <1>11. TypeOK'
    BY <1>1, <1>7, <1>8, <1>10 DEF IInv, TypeOK, FlushesInv, FlushesType, VerdictType, history
  <1> QED BY <1>9, <1>10, <1>11 DEF IInv, FlushesInv

LEMMA StopStep ==
  ASSUME IInv, NEW f \in Flushers, Stop(f)
  PROVE  IInv'
  <1>1. /\ UNCHANGED <<outbox, verdict, session, known, enrolled, history>>
        /\ flush' = [flush EXCEPT ![f] = Still] /\ faults' \in 0 .. MaxFaults
        /\ stray' = IF flush[f].at = "sent" THEN stray \cup Abandoned(f) ELSE stray
    BY DEF Stop, Fault, IInv, TypeOK
  <1>2. stray' \subseteq Users \X Events \X Stages
    BY <1>1, AbandonedType DEF IInv, TypeOK
  <1>3. Grows /\ VerdictType'
    BY <1>1, GrowsAlone, VerdictAlone
  <1>4. page' \in [Pages -> Users \cup {Nobody}]
    BY DEF Stop, IInv, TypeOK
  <1>5. FlushesInv' /\ RecordedInv'
    BY <1>1, <1>3, StillSound, OneFlush, ItemsAlone
  <1>6. TypeOK'
    BY <1>1, <1>2, <1>3, <1>4, <1>5
    DEF IInv, TypeOK, FlushesInv, FlushesType, VerdictType, history
  <1> QED BY <1>5, <1>6 DEF IInv, FlushesInv

-----------------------------------------------------------------------------
LEMMA StepHolds ==
  ASSUME IInv, [Next]_vars
  PROVE  IInv'
  <1>1. CASE UNCHANGED vars
    <2>1. UNCHANGED <<outbox, verdict, session, known, enrolled, page, flush, stray, history, faults>>
      BY <1>1 DEF vars, history
    <2> QED BY <2>1, GrowsAlone, VerdictAlone, FlushNone DEF IInv, TypeOK, history
  <1>2. CASE \E u \in Users :
               SignIn(u) \/ \E e \in Events, from \in Stages : HandleStray(u, e, from)
    BY <1>2, SignInStep, HandleStrayStep
  <1>3. CASE SignOut
    BY <1>3, SignOutStep
  <1>4. CASE \E p \in Pages : \/ Open(p) \/ OpenSignedOut(p) \/ OpenOffline(p)
                              \/ \E e \in Events : Enqueue(p, e)
    BY <1>4, OpenStep, OpenSignedOutStep, OpenOfflineStep, EnqueueStep
  <1>5. ASSUME NEW f \in Flushers, FlushStep(f)
        PROVE  IInv'
    <2>1. CASE Send(f) \/ SignedOut(f) \/ Answered(f)
      BY <2>1, SendStep, SignedOutStep, AnsweredStep
    <2>2. CASE \E e \in Events : Handle(f, e) \/ WriteError(f, e) \/ WriteResult(f, e)
      BY <2>2, HandleStep, WriteErrorStep, WriteResultStep
    <2>3. CASE WriteResults(f)
      BY <2>3, WriteResultsStep
    <2> QED BY <1>5, <2>1, <2>2, <2>3 DEF FlushStep
  <1>6. CASE \E f \in Flushers : Begin(f) \/ FlushStep(f) \/ Stop(f) \/ Unanswered(f)
    BY <1>5, <1>6, BeginStep, StopStep, UnansweredStep
  <1>7. CASE \E e \in Events, v \in {"accepted", "rejected"} : Review(e, v)
    BY <1>7, ReviewStep
  <1> QED BY <1>1, <1>2, <1>3, <1>4, <1>6, <1>7 DEF Next

LEMMA Inductive == Spec => []IInv
  BY InitHolds, StepHolds, PTL DEF Spec

\* Every variable keeps its type, and no flush has an empty batch to send.
THEOREM TypeCorrect == Spec => []TypeOK
  BY Inductive, PTL DEF IInv

\* What a device shows as the result of a scan is what the server decided, however many pages and
\* Background Syncs flush at once, and whatever answers are lost, save for the answer to a
\* submission that met a used code while another stored the event.
THEOREM ResultsAreTrue == Spec => []ResultAsDecided
  <1>1. IInv => ResultAsDecided
    BY DEF IInv, RecordedInv, Agrees, ResultAsDecided, Verdicts
  <1> QED BY <1>1, Inductive, PTL

\* No scan leaves the queue before the server has stored it, unless a page sent it under another
\* person's session or it was sent before its key was registered: for any people, pages, sessions,
\* faults and batches.
THEOREM QueueKeeps == Spec => []LostOnlyIfMisdirected
  <1>1. IInv => LostOnlyIfMisdirected
    BY DEF IInv, RecordedInv, Agrees, LostOnlyIfMisdirected, Results
  <1> QED BY <1>1, Inductive, PTL

=============================================================================

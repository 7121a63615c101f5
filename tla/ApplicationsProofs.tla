-------------------------- MODULE ApplicationsProofs --------------------------
(***************************************************************************)
(* What Applications keeps for any number of applicants, documents, forms  *)
(* and overlapping calls: every document that a row names is stored, what  *)
(* was submitted meets the questions frozen with it, and the audit rows    *)
(* are a path of legal moves.                                              *)
(***************************************************************************)
EXTENDS Applications, SequenceTheorems, TLAPS

-----------------------------------------------------------------------------
(* Calls and the worker. *)

LEMMA CallsAfter ==
  ASSUME call \in [Calls -> Call], NEW c \in Calls, NEW new \in Call, Goes(c, new)
  PROVE  /\ call' \in [Calls -> Call]
         /\ \A d \in Calls : call'[d] = IF d = c THEN new ELSE call[d]
  BY DEF Goes

\* The calls that the actions begin, and what they leave.
LEMMA CallRecords ==
  ASSUME NEW a \in Applicants
  PROVE  /\ Idle \in Call /\ Idle.at = "idle"
         /\ \A v \in Values : /\ Answering(a, v) \in Call /\ Answering(a, v).at = "answer"
                              /\ Answering(a, v).who = a /\ Answering(a, v).value = v
         /\ \A k \in Keys : /\ Uploading(a, k) \in Call /\ Uploading(a, k).at = "put"
                            /\ Uploading(a, k).who = a /\ Uploading(a, k).key = k
         /\ \A k \in Keys : /\ Attaching(a, k) \in Call /\ Attaching(a, k).at = "attach"
                            /\ Attaching(a, k).who = a /\ Attaching(a, k).key = k
         /\ \A form \in Forms : /\ Submitting(a, form) \in Call /\ Submitting(a, form).at = "submit"
                                /\ Submitting(a, form).who = a /\ Submitting(a, form).form = form
         /\ \A to \in Statuses, from \in Statuses :
              /\ Deciding(a, to, from) \in Call /\ Deciding(a, to, from).at = "decide"
              /\ Deciding(a, to, from).who = a
              /\ Deciding(a, to, from).value = to /\ Deciding(a, to, from).from = from
         /\ \A k \in Keys \cup {None} :
              /\ Left(a, k) \in Call
              /\ Left(a, k).at = IF k = None THEN "idle" ELSE "discard"
              /\ k # None => Left(a, k).who = a /\ Left(a, k).key = k
  BY DEF Idle, Call, Steps, Answering, Uploading, Attaching, Submitting, Deciding, Discarding, Left

LEMMA StatusesMoved ==
  ASSUME NEW from \in Statuses, NEW to \in Moves(from)
  PROVE  to \in Statuses \ {"draft"}
  BY DEF Moves, Statuses

LEMMA OneMore ==
  ASSUME NEW n \in Nat, NEW m \in 0 .. n, m < n
  PROVE  m + 1 \in 0 .. n
  OBVIOUS

-----------------------------------------------------------------------------
(* Types. *)

LEMMA CallOf ==
  ASSUME TypeOK, NEW c \in Calls, call[c].at # "idle"
  PROVE  /\ call[c].who \in Applicants
         /\ call[c].at = "answer" => call[c].value \in Values
         /\ call[c].at \in {"put", "attach", "discard"} => call[c].key \in used /\ call[c].key \in Keys
         /\ call[c].at = "submit" => call[c].form \in Forms
         /\ call[c].at = "decide" =>
              /\ call[c].from \in Statuses \ {"draft"} /\ call[c].value \in Statuses \ {"draft"}
              /\ call[c].value \in Moves(call[c].from)
  BY StatusesMoved DEF TypeOK, Prepared, StaffMoves

\* A step of c keeps the types of the calls.
LEMMA CallTypes ==
  ASSUME TypeOK, NEW c \in Calls, NEW new \in Call, Goes(c, new), used \subseteq used',
         Prepared(new, used')
  PROVE  /\ call' \in [Calls -> Call]
         /\ \A d \in Calls : Prepared(call'[d], used')
<1>1. /\ call' \in [Calls -> Call]
      /\ \A d \in Calls : call'[d] = IF d = c THEN new ELSE call[d]
  BY CallsAfter DEF TypeOK
<1>2. QED
  BY <1>1 DEF TypeOK, Prepared

LEMMA StartsTypes ==
  ASSUME TypeOK, NEW c \in Calls, Starts(c)
  PROVE  TypeOK'
<1> PICK a \in Applicants :
       \/ \E value \in Values : BeginAnswer(c, a, value)
       \/ \E k \in Keys : BeginUpload(c, a, k)
       \/ BeginSubmit(c, a)
       \/ \E to \in Statuses : BeginDecide(c, a, to)
       \/ \E content \in {"keep", "scrub"} : Anonymise(c, a, content)
  BY DEF Starts
<1>0. ASSUME NEW new, Begin(c, new)
      PROVE  Goes(c, new) /\ made' \in 0 .. MaxCalls
  BY <1>0, ApplicationsAssumption, OneMore DEF Begin, Goes, TypeOK
<1>1. CASE \E value \in Values : BeginAnswer(c, a, value)
  <2> PICK value \in Values : BeginAnswer(c, a, value)
    BY <1>1
  <2> DEFINE new == Answering(a, value)
  <2>1. new \in Call /\ Prepared(new, used')
    BY CallRecords DEF Prepared
  <2>2. Goes(c, new) /\ made' \in 0 .. MaxCalls
    BY <1>0 DEF BeginAnswer
  <2> HIDE DEF new
  <2> QED
    BY <2>1, <2>2, CallTypes DEF BeginAnswer, TypeOK, Attached, tables, store
<1>2. CASE \E k \in Keys : BeginUpload(c, a, k)
  <2> PICK k \in Keys : BeginUpload(c, a, k)
    BY <1>2
  <2> DEFINE new == Uploading(a, k)
  <2>1. new \in Call /\ Prepared(new, used')
    BY CallRecords DEF Prepared, BeginUpload
  <2>2. Goes(c, new) /\ made' \in 0 .. MaxCalls
    BY <1>0 DEF BeginUpload
  <2> HIDE DEF new
  <2> QED
    BY <2>1, <2>2, CallTypes DEF BeginUpload, TypeOK, Attached, tables
<1>3. CASE BeginSubmit(c, a)
  <2> DEFINE new == Submitting(a, program.form)
  <2>0. program.form \in Forms
    BY ApplicationsAssumption DEF TypeOK
  <2>1. new \in Call /\ Prepared(new, used')
    BY <2>0, CallRecords DEF Prepared
  <2>2. Goes(c, new) /\ made' \in 0 .. MaxCalls
    BY <1>0, <1>3 DEF BeginSubmit
  <2>3. UNCHANGED <<tables, store, worker>>
    BY <1>3 DEF BeginSubmit
  <2> HIDE DEF new
  <2> QED
    BY <2>1, <2>2, <2>3, CallTypes DEF TypeOK, Attached, tables, store
<1>4. CASE \E to \in Statuses : BeginDecide(c, a, to)
  <2> PICK to \in Statuses : BeginDecide(c, a, to)
    BY <1>4
  <2> DEFINE new == Deciding(a, to, status[a])
  <2>0. status[a] \in Statuses
    BY DEF BeginDecide, TypeOK
  <2>1. new \in Call /\ Prepared(new, used')
    BY <2>0, CallRecords DEF Prepared, BeginDecide
  <2>2. Goes(c, new) /\ made' \in 0 .. MaxCalls
    BY <1>0 DEF BeginDecide
  <2> HIDE DEF new
  <2> QED
    BY <2>1, <2>2, CallTypes DEF BeginDecide, TypeOK, Attached, tables, store
<1>5. CASE \E content \in {"keep", "scrub"} : Anonymise(c, a, content)
  <2> PICK content \in {"keep", "scrub"} : Anonymise(c, a, content)
    BY <1>5
  <2> DEFINE new == IF content = "scrub" THEN Left(a, document[a]) ELSE Idle
  <2>0. document[a] \in Keys \cup {None}
    BY DEF TypeOK
  <2>1. new \in Call /\ new.at \in {"idle", "discard"} /\ (new.at = "discard" => new.who = a /\ new.key = document[a] /\ document[a] # None)
    BY <2>0, CallRecords
  <2>2. Goes(c, new) /\ made' \in 0 .. MaxCalls
    BY <1>0 DEF Anonymise
  <2>3. document[a] # None => document[a] \in used
    BY DEF TypeOK, Attached
  <2>4. Prepared(new, used')
    BY <2>1, <2>3 DEF Prepared, Anonymise, store
  <2> HIDE DEF new
  <2> QED
    BY <2>1, <2>2, <2>4, CallTypes DEF Anonymise, TypeOK, Attached, store
<1>6. QED
  BY <1>1, <1>2, <1>3, <1>4, <1>5

LEMMA TrailGrows ==
  ASSUME TypeOK, NEW a \in Applicants, NEW from \in Statuses, NEW to \in Statuses,
         trail' = [trail EXCEPT ![a] = Append(trail[a], <<from, to>>)]
  PROVE  trail' \in [Applicants -> Seq(Statuses \X Statuses)]
<1>1. <<from, to>> \in Statuses \X Statuses
  OBVIOUS
<1>2. trail \in [Applicants -> Seq(Statuses \X Statuses)] /\ trail[a] \in Seq(Statuses \X Statuses)
  BY DEF TypeOK
<1>3. Append(trail[a], <<from, to>>) \in Seq(Statuses \X Statuses)
  BY <1>1, <1>2, AppendProperties
<1> QED
  BY <1>2, <1>3

LEMMA ProceedsTypes ==
  ASSUME TypeOK, NEW c \in Calls, Proceeds(c) \/ Die(c)
  PROVE  TypeOK'
<1> DEFINE a == call[c].who
<1>0. call[c].at # "idle"
  BY DEF Proceeds, Die, SaveAnswer, PutFile, Attach, Discard, Submit, Decide
<1>1. /\ a \in Applicants
      /\ call[c].at = "answer" => call[c].value \in Values
      /\ call[c].at \in {"put", "attach", "discard"} => call[c].key \in used /\ call[c].key \in Keys
      /\ call[c].at = "decide" => call[c].from \in Statuses /\ call[c].value \in Statuses
  BY <1>0, CallOf
<1>2. Idle \in Call /\ Prepared(Idle, used')
  BY <1>1, CallRecords DEF Prepared
<1>3. UNCHANGED used /\ Goes(c, Idle) =>
        call' \in [Calls -> Call] /\ \A d \in Calls : Prepared(call'[d], used')
  BY <1>2, CallTypes
<1> USE DEF tables, store
<1>4. CASE SaveAnswer(c)
  <2>1. answer' \in [Applicants -> Values \cup {None, "removed"}]
    BY <1>1, <1>4 DEF SaveAnswer, TypeOK
  <2> QED
    BY <1>3, <1>4, <2>1 DEF SaveAnswer, TypeOK, Attached
<1>5. CASE PutFile(c)
  <2> DEFINE new == Attaching(a, call[c].key)
  <2>1. call[c].key \in used /\ call[c].key \in Keys
    BY <1>1, <1>5 DEF PutFile
  <2>2. new \in Call /\ Prepared(new, used')
    BY <1>1, <1>5, <2>1, CallRecords DEF PutFile, Prepared
  <2>3. Goes(c, new) /\ bucket' = bucket \cup {call[c].key}
    BY <1>5 DEF PutFile
  <2>4. UNCHANGED <<tables, old, used, worker, made>>
    BY <1>5 DEF PutFile
  <2> HIDE DEF new
  <2> QED
    BY <2>1, <2>2, <2>3, <2>4, CallTypes DEF TypeOK, Attached
<1>6. CASE Attach(c)
  <2>0. /\ document[a] \in Keys \cup {None} /\ document[a] \in used \cup {None}
        /\ call[c].key \in used /\ call[c].key \in Keys
    BY <1>1, <1>6 DEF Attach, TypeOK, Attached
  <2> DEFINE new == Left(a, IF LockDraft(a) THEN document[a] ELSE call[c].key)
  <2>1. new \in Call /\ Prepared(new, used')
    BY <1>1, <1>6, <2>0, CallRecords DEF Attach, Prepared
  <2>2. Goes(c, new) /\ UNCHANGED used
    BY <1>6 DEF Attach
  <2> HIDE DEF new
  <2>4. document' \in [Applicants -> Keys \cup {None}] /\ Attached' \subseteq Attached \cup {call[c].key}
    BY <1>1, <1>6, <2>0 DEF Attach, TypeOK, Attached
  <2>5. call' \in [Calls -> Call] /\ \A d \in Calls : Prepared(call'[d], used')
    BY <2>1, <2>2, CallTypes
  <2> QED
    BY <1>6, <2>0, <2>4, <2>5 DEF Attach, TypeOK
<1>7. CASE Discard(c)
  BY <1>1, <1>3, <1>7 DEF Discard, TypeOK, Attached
<1>8. CASE Submit(c)
  <2>1. "draft" \in Statuses /\ "submitted" \in Statuses
    BY DEF Statuses
  <2>2. trail' \in [Applicants -> Seq(Statuses \X Statuses)]
    <3>1. trail' = trail \/ trail' = [trail EXCEPT ![a] = Append(trail[a], <<"draft", "submitted">>)]
      BY <1>8 DEF Submit
    <3> QED
      BY <1>1, <2>1, <3>1, TrailGrows DEF TypeOK
  <2>3. snapshot' \in [Applicants -> Forms \cup {None}] /\ status' \in [Applicants -> Statuses \cup {"none"}]
    BY <1>0, <1>1, <1>8, <2>1, CallOf DEF Submit, TypeOK
  <2> QED
    BY <1>3, <1>8, <2>2, <2>3 DEF Submit, TypeOK, Attached
<1>9. CASE Decide(c)
  <2>1. call[c].value \in Statuses /\ call[c].from \in Statuses
    BY <1>1, <1>9 DEF Decide
  <2>2. trail' \in [Applicants -> Seq(Statuses \X Statuses)]
    <3>1. trail' = trail \/ trail' = [trail EXCEPT ![a] = Append(trail[a], <<call[c].from, call[c].value>>)]
      BY <1>9 DEF Decide
    <3> QED
      BY <1>1, <2>1, <3>1, TrailGrows DEF TypeOK
  <2>3. status' \in [Applicants -> Statuses \cup {"none"}]
    BY <1>1, <1>9, <2>1 DEF Decide, TypeOK
  <2> QED
    BY <1>3, <1>9, <2>2, <2>3 DEF Decide, TypeOK, Attached
<1>10. CASE Die(c)
  BY <1>3, <1>10 DEF Die, TypeOK, Attached
<1>11. QED
  BY <1>4, <1>5, <1>6, <1>7, <1>8, <1>9, <1>10 DEF Proceeds

LEMMA AroundTypes ==
  ASSUME TypeOK, Around
  PROVE  TypeOK'
<1> USE DEF tables, store, Attached
<1>1. CASE \E p \in Programs : EditProgram(p)
  BY <1>1 DEF EditProgram, TypeOK
<1>2. CASE \E a \in Applicants : VerifyEmail(a) \/ StartApplication(a)
  <2> PICK a \in Applicants : VerifyEmail(a) \/ StartApplication(a)
    BY <1>2
  <2>1. CASE VerifyEmail(a)
    BY <2>1 DEF VerifyEmail, TypeOK
  <2>2. CASE StartApplication(a)
    <3>1. "draft" \in Statuses
      BY DEF Statuses
    <3> QED
      BY <2>2, <3>1 DEF StartApplication, TypeOK
  <2> QED
    BY <2>1, <2>2
<1>3. CASE \E k \in Keys : GrowOld(k)
  BY <1>3 DEF GrowOld, TypeOK
<1>4. QED
  BY <1>1, <1>2, <1>3 DEF Around

LEMMA ReconcileTypes ==
  ASSUME TypeOK, Reconcile
  PROVE  TypeOK'
<1> USE DEF tables, store
<1>0. worker \in Worker /\ Attached \subseteq Keys /\ bucket \subseteq Keys /\ old \subseteq Keys
  BY DEF TypeOK
<1>1. CASE ListFiles
  <2>1. worker' \in Worker /\ UNCHANGED <<tables, store, call, made>>
    BY <1>0, <1>1 DEF ListFiles, Worker
  <2> QED
    BY <2>1 DEF TypeOK, Attached
<1>2. CASE ReadRows
  <2>1. worker' \in Worker /\ UNCHANGED <<tables, store, call, made>>
    BY <1>0, <1>2 DEF ReadRows, Worker
  <2> QED
    BY <2>1 DEF TypeOK, Attached
<1>3. CASE Plan
  <2>1. Resting \in Worker
    BY DEF Resting, Worker
  <2>2. Orphans(worker.objects, worker.aged, worker.known) \subseteq Keys
    BY <1>0 DEF Orphans, Worker
  <2>3. ASSUME NEW plan \in SUBSET Keys
        PROVE  [Resting EXCEPT !.at = "removing", !.plan = plan] \in Worker
    BY DEF Resting, Worker
  <2>4. worker' \in Worker /\ UNCHANGED <<tables, store, call, made>>
    BY <1>3, <2>1, <2>2, <2>3 DEF Plan
  <2> QED
    BY <2>4 DEF TypeOK, Attached
<1>4. CASE \E k \in Keys : Recheck(k) \/ Remove(k)
  <2> PICK k \in Keys : Recheck(k) \/ Remove(k)
    BY <1>4
  <2>1. Without(k) \in Worker
    BY <1>0 DEF Without, Resting, Worker
  <2>2. CASE Recheck(k)
    <3>1. worker' \in Worker /\ UNCHANGED <<tables, store, call, made>>
      BY <1>0, <2>1, <2>2 DEF Recheck, Worker
    <3> QED
      BY <3>1 DEF TypeOK, Attached
  <2>3. CASE Remove(k)
    BY <1>0, <2>1, <2>3 DEF Remove, Resting, TypeOK, Worker, Attached
  <2> QED
    BY <2>2, <2>3
<1>5. QED
  BY <1>1, <1>2, <1>3, <1>4 DEF Reconcile

LEMMA InitTypes == Init => TypeOK
<1> SUFFICES ASSUME Init
             PROVE  TypeOK
  OBVIOUS
<1>1. Idle \in Call /\ Idle.at = "idle"
  BY DEF Idle, Call, Steps
<1>2. Resting \in Worker
  BY DEF Resting, Worker
<1>3. <<>> \in Seq(Statuses \X Statuses)
  OBVIOUS
<1> QED
  BY <1>1, <1>2, <1>3, ApplicationsAssumption DEF Init, TypeOK, Attached, Prepared

LEMMA TypesKept == TypeOK /\ [Next]_vars => TypeOK'
<1> SUFFICES ASSUME TypeOK, [Next]_vars
             PROVE  TypeOK'
  OBVIOUS
<1>1. CASE Next
  BY <1>1, StartsTypes, ProceedsTypes, AroundTypes, ReconcileTypes DEF Next
<1>2. CASE UNCHANGED vars
  BY <1>2 DEF vars, tables, store, TypeOK, Attached
<1> QED
  BY <1>1, <1>2

\* Every variable keeps its type, and a call has what its next step needs.
THEOREM TypeCorrect == Spec => []TypeOK
  BY InitTypes, TypesKept, PTL DEF Spec

-----------------------------------------------------------------------------
(* Documents. *)

\* No two rows name one object.
OwnDocument ==
  \A a, b \in Applicants : document[a] # None /\ document[a] = document[b] => a = b

\* An object that a call holds is no row's yet, or no longer; one that is still to be attached is of no
\* other call, and is stored when the row is about to name it.
HeldInv ==
  \A c \in Calls :
    /\ call[c].at \in {"put", "attach", "discard"} => call[c].key \notin Attached
    /\ call[c].at = "attach" => call[c].key \in bucket
    /\ call[c].at \in {"put", "attach"} =>
         \A d \in Calls : d # c /\ call[d].at \in {"put", "attach", "discard"} => call[d].key # call[c].key

\* No call is about to attach an object that has outlived the grace period, nor one that the worker plans to
\* remove; and what it has looked for again is no row's.
WorkerInv ==
  /\ \A k \in old \cup worker.aged \cup worker.plan :
       /\ k \in used
       /\ \A c \in Calls : call[c].at \in {"put", "attach"} => call[c].key # k
  /\ worker.checked \subseteq worker.plan
  /\ worker.checked \cap Attached = {}

StoreInv == OwnDocument /\ HeldInv /\ WorkerInv /\ DocumentsStored

\* A step of c that holds nothing afterwards, takes no document and leaves the store.
LEMMA LetsGo ==
  ASSUME TypeOK, StoreInv, NEW c \in Calls, NEW new \in Call, Goes(c, new),
         new.at \notin {"put", "attach", "discard"},
         UNCHANGED <<document, bucket, old, used, worker>>
  PROVE  StoreInv'
<1>1. \A d \in Calls : call'[d] = IF d = c THEN new ELSE call[d]
  BY CallsAfter DEF TypeOK
<1>2. Attached' = Attached
  BY DEF Attached
<1>3. OwnDocument' /\ DocumentsStored'
  BY <1>2 DEF StoreInv, OwnDocument, DocumentsStored
<1>4. HeldInv'
  BY <1>1, <1>2 DEF StoreInv, HeldInv
<1>5. WorkerInv'
  BY <1>1, <1>2 DEF StoreInv, WorkerInv
<1> QED
  BY <1>3, <1>4, <1>5 DEF StoreInv

\* A step of c after which it may have an object left that is no row's and that nobody is about to attach.
LEMMA LeavesOver ==
  ASSUME TypeOK, StoreInv, NEW c \in Calls, NEW new \in Call, Goes(c, new),
         new.at \notin {"put", "attach"},
         new.at = "discard" => new.key \notin Attached',
         new.at = "discard" => \A d \in Calls : d # c /\ call[d].at \in {"put", "attach"} => call[d].key # new.key,
         \A d \in Calls : d # c /\ call[d].at \in {"put", "attach", "discard"} => call[d].key \notin Attached',
         Attached' \subseteq bucket, worker.checked \cap Attached' = {},
         OwnDocument', UNCHANGED <<bucket, old, used, worker>>
  PROVE  StoreInv'
<1>1. \A d \in Calls : call'[d] = IF d = c THEN new ELSE call[d]
  BY CallsAfter DEF TypeOK
<1>2. DocumentsStored'
  BY DEF DocumentsStored
<1>3. HeldInv'
  BY <1>1 DEF StoreInv, HeldInv
<1>4. WorkerInv'
  BY <1>1 DEF StoreInv, WorkerInv
<1> QED
  BY <1>2, <1>3, <1>4 DEF StoreInv

LEMMA UploadStore ==
  ASSUME TypeOK, StoreInv, NEW c \in Calls, NEW a \in Applicants, NEW k \in Keys, BeginUpload(c, a, k)
  PROVE  StoreInv'
<1> DEFINE new == Uploading(a, k)
<1>1. new \in Call /\ new.at = "put" /\ new.key = k
  BY CallRecords
<1>2. Goes(c, new)
  BY DEF BeginUpload, Begin, Goes
<1> HIDE DEF new
<1>3. \A d \in Calls : call'[d] = IF d = c THEN new ELSE call[d]
  BY <1>1, <1>2, CallsAfter DEF TypeOK
<1>4. k \notin used /\ used' = used \cup {k} /\ UNCHANGED <<document, bucket, old, worker>>
  BY DEF BeginUpload, tables
<1>5. Attached' = Attached /\ Attached \subseteq used /\ old \subseteq used
  BY <1>4 DEF Attached, TypeOK
<1>6. \A d \in Calls : call[d].at \in {"put", "attach", "discard"} => call[d].key \in used
  BY DEF TypeOK, Prepared
<1>7. OwnDocument' /\ DocumentsStored'
  BY <1>4, <1>5 DEF StoreInv, OwnDocument, DocumentsStored
<1>8. HeldInv'
  BY <1>1, <1>3, <1>4, <1>5, <1>6 DEF StoreInv, HeldInv
<1>9. WorkerInv'
  BY <1>1, <1>3, <1>4, <1>5 DEF StoreInv, WorkerInv
<1> QED
  BY <1>7, <1>8, <1>9 DEF StoreInv

LEMMA AnonymiseStore ==
  ASSUME TypeOK, StoreInv, NEW c \in Calls, NEW a \in Applicants, NEW content \in {"keep", "scrub"},
         Anonymise(c, a, content)
  PROVE  StoreInv'
<1> DEFINE new == IF content = "scrub" THEN Left(a, document[a]) ELSE Idle
<1>0. document \in [Applicants -> Keys \cup {None}] /\ document[a] \in Keys \cup {None}
  BY DEF TypeOK
<1>1. /\ new \in Call /\ new.at \in {"idle", "discard"}
      /\ new.at = "discard" => new.key = document[a] /\ document[a] # None /\ content = "scrub"
  BY <1>0, CallRecords
<1>2. Goes(c, new)
  BY DEF Anonymise, Begin, Goes
<1> HIDE DEF new
<1>3. /\ document' = IF content = "scrub" THEN [document EXCEPT ![a] = None] ELSE document
      /\ UNCHANGED <<bucket, old, used, worker>>
  BY DEF Anonymise, store
<1>4. Attached' \subseteq Attached /\ OwnDocument'
  BY <1>0, <1>3 DEF Attached, StoreInv, OwnDocument
<1>5. content = "scrub" /\ document[a] # None => document[a] \in Attached /\ document[a] \notin Attached'
  BY <1>0, <1>3 DEF Attached, StoreInv, OwnDocument
<1>6. new.at = "discard" => new.key \notin Attached'
  BY <1>1, <1>5
<1>7. new.at = "discard" => \A d \in Calls : d # c /\ call[d].at \in {"put", "attach"} => call[d].key # new.key
  BY <1>1, <1>5 DEF StoreInv, HeldInv
<1>8. \A d \in Calls : d # c /\ call[d].at \in {"put", "attach", "discard"} => call[d].key \notin Attached'
  BY <1>4 DEF StoreInv, HeldInv
<1>9. Attached' \subseteq bucket /\ worker.checked \cap Attached' = {}
  BY <1>4 DEF StoreInv, DocumentsStored, WorkerInv
<1>10. new.at \notin {"put", "attach"}
  BY <1>1
<1> QED
  BY <1>1, <1>2, <1>3, <1>4, <1>6, <1>7, <1>8, <1>9, <1>10, LeavesOver

LEMMA AttachStore ==
  ASSUME TypeOK, StoreInv, NEW c \in Calls, Attach(c)
  PROVE  StoreInv'
<1> DEFINE a == call[c].who
           k == call[c].key
<1>0. /\ document \in [Applicants -> Keys \cup {None}] /\ a \in Applicants /\ document[a] \in Keys \cup {None}
      /\ call[c].at = "attach" /\ k \in Keys
  BY CallOf DEF TypeOK, Attach
<1>1. k \notin Attached /\ k \in bucket /\ UNCHANGED <<bucket, old, used, worker>>
  BY <1>0 DEF StoreInv, HeldInv, Attach, store
<1>2. \A d \in Calls : d # c /\ call[d].at \in {"put", "attach", "discard"} => call[d].key # k
  BY <1>0 DEF StoreInv, HeldInv
<1>3. k \notin worker.checked
  BY <1>0 DEF StoreInv, WorkerInv
<1>4. CASE LockDraft(a)
  <2> DEFINE new == Left(a, document[a])
  <2>1. /\ new \in Call /\ new.at \in {"idle", "discard"}
        /\ new.at = "discard" => new.key = document[a] /\ document[a] # None
    BY <1>0, CallRecords
  <2>2. Goes(c, new) /\ document' = [document EXCEPT ![a] = k]
    BY <1>4 DEF Attach
  <2> HIDE DEF new
  <2>3. Attached' \subseteq Attached \cup {k}
    BY <1>0, <2>2 DEF Attached
  <2>4. OwnDocument'
    BY <1>0, <1>1, <2>2 DEF Attached, StoreInv, OwnDocument
  <2>5. document[a] # None => document[a] \in Attached /\ document[a] \notin Attached'
    BY <1>0, <1>1, <2>2 DEF Attached, StoreInv, OwnDocument
  <2>6. new.at = "discard" => new.key \notin Attached'
    BY <2>1, <2>5
  <2>7. new.at = "discard" => \A d \in Calls : d # c /\ call[d].at \in {"put", "attach"} => call[d].key # new.key
    BY <2>1, <2>5 DEF StoreInv, HeldInv
  <2>8. \A d \in Calls : d # c /\ call[d].at \in {"put", "attach", "discard"} => call[d].key \notin Attached'
    BY <1>2, <2>3 DEF StoreInv, HeldInv
  <2>9. Attached' \subseteq bucket /\ worker.checked \cap Attached' = {}
    BY <1>1, <1>3, <2>3 DEF StoreInv, DocumentsStored, WorkerInv
  <2>10. new.at \notin {"put", "attach"}
    BY <2>1
  <2> QED
    BY <1>1, <2>1, <2>2, <2>4, <2>6, <2>7, <2>8, <2>9, <2>10, LeavesOver
<1>5. CASE ~LockDraft(a)
  <2> DEFINE new == Left(a, k)
  <2>1. new \in Call /\ new.at \in {"idle", "discard"} /\ (new.at = "discard" => new.key = k)
    BY <1>0, CallRecords
  <2>2. Goes(c, new) /\ document' = document
    BY <1>5 DEF Attach
  <2> HIDE DEF new
  <2>3. Attached' = Attached /\ OwnDocument'
    BY <2>2 DEF Attached, StoreInv, OwnDocument
  <2>6. new.at = "discard" => new.key \notin Attached'
    BY <1>1, <2>1, <2>3
  <2>7. new.at = "discard" => \A d \in Calls : d # c /\ call[d].at \in {"put", "attach"} => call[d].key # new.key
    BY <1>2, <2>1
  <2>8. \A d \in Calls : d # c /\ call[d].at \in {"put", "attach", "discard"} => call[d].key \notin Attached'
    BY <2>3 DEF StoreInv, HeldInv
  <2>9. Attached' \subseteq bucket /\ worker.checked \cap Attached' = {}
    BY <2>3 DEF StoreInv, DocumentsStored, WorkerInv
  <2>10. new.at \notin {"put", "attach"}
    BY <2>1
  <2> QED
    BY <1>1, <2>1, <2>2, <2>3, <2>6, <2>7, <2>8, <2>9, <2>10, LeavesOver
<1> QED
  BY <1>4, <1>5

LEMMA PutStore ==
  ASSUME TypeOK, StoreInv, NEW c \in Calls, PutFile(c)
  PROVE  StoreInv'
<1> DEFINE new == Attaching(call[c].who, call[c].key)
<1>0. call[c].at = "put" /\ call[c].who \in Applicants /\ call[c].key \in Keys
  BY CallOf DEF PutFile
<1>1. new \in Call /\ new.at = "attach" /\ new.key = call[c].key
  BY <1>0, CallRecords
<1>2. Goes(c, new) /\ bucket' = bucket \cup {call[c].key} /\ UNCHANGED <<document, old, used, worker>>
  BY DEF PutFile, tables
<1> HIDE DEF new
<1>3. \A d \in Calls : call'[d] = IF d = c THEN new ELSE call[d]
  BY <1>1, <1>2, CallsAfter DEF TypeOK
<1>4. Attached' = Attached
  BY <1>2 DEF Attached
<1>5. OwnDocument' /\ DocumentsStored'
  BY <1>2, <1>4 DEF StoreInv, OwnDocument, DocumentsStored
<1>6. HeldInv'
  BY <1>0, <1>1, <1>2, <1>3, <1>4 DEF StoreInv, HeldInv
<1>7. WorkerInv'
  BY <1>0, <1>1, <1>2, <1>3, <1>4 DEF StoreInv, WorkerInv
<1> QED
  BY <1>5, <1>6, <1>7 DEF StoreInv

LEMMA DiscardStore ==
  ASSUME TypeOK, StoreInv, NEW c \in Calls, Discard(c)
  PROVE  StoreInv'
<1>0. call[c].at = "discard" /\ call[c].key \notin Attached
  BY DEF Discard, StoreInv, HeldInv
<1>1. /\ Goes(c, Idle) /\ Idle \in Call /\ Idle.at = "idle"
      /\ bucket \ {call[c].key} \subseteq bucket' /\ old' \subseteq old /\ UNCHANGED <<document, used, worker>>
  BY DEF Discard, tables, Idle, Call, Steps
<1>3. \A d \in Calls : call'[d] = IF d = c THEN Idle ELSE call[d]
  BY <1>1, CallsAfter DEF TypeOK
<1>4. Attached' = Attached
  BY <1>1 DEF Attached
<1>5. OwnDocument' /\ DocumentsStored'
  BY <1>0, <1>1, <1>4 DEF StoreInv, OwnDocument, DocumentsStored
<1>6. HeldInv'
  BY <1>0, <1>1, <1>3, <1>4 DEF StoreInv, HeldInv
<1>7. WorkerInv'
  BY <1>1, <1>3, <1>4 DEF StoreInv, WorkerInv
<1> QED
  BY <1>5, <1>6, <1>7 DEF StoreInv

LEMMA StartsStore ==
  ASSUME TypeOK, StoreInv, NEW c \in Calls, Starts(c)
  PROVE  StoreInv'
<1> PICK a \in Applicants :
       \/ \E value \in Values : BeginAnswer(c, a, value)
       \/ \E k \in Keys : BeginUpload(c, a, k)
       \/ BeginSubmit(c, a)
       \/ \E to \in Statuses : BeginDecide(c, a, to)
       \/ \E content \in {"keep", "scrub"} : Anonymise(c, a, content)
  BY DEF Starts
<1>0. UNCHANGED <<tables, store, worker>> => UNCHANGED <<document, bucket, old, used, worker>>
  BY DEF tables, store
<1>1. CASE \E value \in Values : BeginAnswer(c, a, value)
  <2> PICK value \in Values : BeginAnswer(c, a, value)
    BY <1>1
  <2> DEFINE new == Answering(a, value)
  <2>1. new \in Call /\ new.at \notin {"put", "attach", "discard"}
    BY CallRecords
  <2>2. Goes(c, new) /\ UNCHANGED <<tables, store, worker>>
    BY DEF BeginAnswer, Begin, Goes
  <2> HIDE DEF new
  <2> QED
    BY <1>0, <2>1, <2>2, LetsGo
<1>2. CASE \E k \in Keys : BeginUpload(c, a, k)
  BY <1>2, UploadStore
<1>3. CASE BeginSubmit(c, a)
  <2> DEFINE new == Submitting(a, program.form)
  <2>0. program.form \in Forms
    BY ApplicationsAssumption DEF TypeOK
  <2>1. new \in Call /\ new.at \notin {"put", "attach", "discard"}
    BY <2>0, CallRecords
  <2>2. Goes(c, new) /\ UNCHANGED <<tables, store, worker>>
    BY <1>3 DEF BeginSubmit, Begin, Goes
  <2> HIDE DEF new
  <2> QED
    BY <1>0, <2>1, <2>2, LetsGo
<1>4. CASE \E to \in Statuses : BeginDecide(c, a, to)
  <2> PICK to \in Statuses : BeginDecide(c, a, to)
    BY <1>4
  <2> DEFINE new == Deciding(a, to, status[a])
  <2>0. status[a] \in Statuses
    BY DEF BeginDecide, TypeOK
  <2>1. new \in Call /\ new.at \notin {"put", "attach", "discard"}
    BY <2>0, CallRecords
  <2>2. Goes(c, new) /\ UNCHANGED <<tables, store, worker>>
    BY DEF BeginDecide, Begin, Goes
  <2> HIDE DEF new
  <2> QED
    BY <1>0, <2>1, <2>2, LetsGo
<1>5. CASE \E content \in {"keep", "scrub"} : Anonymise(c, a, content)
  BY <1>5, AnonymiseStore
<1>6. QED
  BY <1>1, <1>2, <1>3, <1>4, <1>5

LEMMA ProceedsStore ==
  ASSUME TypeOK, StoreInv, NEW c \in Calls, Proceeds(c) \/ Die(c)
  PROVE  StoreInv'
<1>0. Idle \in Call /\ Idle.at \notin {"put", "attach", "discard"}
  BY DEF Idle, Call, Steps
<1>1. CASE SaveAnswer(c) \/ Submit(c) \/ Decide(c) \/ Die(c)
  <2>1. Goes(c, Idle) /\ UNCHANGED <<document, bucket, old, used, worker>>
    BY <1>1 DEF SaveAnswer, Submit, Decide, Die, tables, store
  <2> QED
    BY <1>0, <2>1, LetsGo
<1>2. CASE PutFile(c) \/ Attach(c) \/ Discard(c)
  BY <1>2, PutStore, AttachStore, DiscardStore
<1> QED
  BY <1>1, <1>2 DEF Proceeds

LEMMA AroundStore ==
  ASSUME TypeOK, StoreInv, Around
  PROVE  StoreInv'
<1>1. UNCHANGED <<document, bucket, used, worker, call>> /\ Attached' = Attached
  BY DEF Around, EditProgram, VerifyEmail, StartApplication, GrowOld, store, tables, Attached
<1>2. OwnDocument' /\ DocumentsStored' /\ HeldInv'
  BY <1>1 DEF StoreInv, OwnDocument, DocumentsStored, HeldInv
<1>3. WorkerInv'
  <2>1. CASE UNCHANGED old
    BY <1>1, <2>1 DEF StoreInv, WorkerInv
  <2>2. CASE \E k \in Keys : GrowOld(k)
    BY <1>1, <2>2 DEF GrowOld, StoreInv, WorkerInv, TypeOK
  <2> QED
    BY <2>1, <2>2 DEF Around, EditProgram, VerifyEmail, StartApplication, store
<1> QED
  BY <1>2, <1>3 DEF StoreInv

\* A step of the worker that neither removes an object nor looks at more than old objects.
LEMMA WorkerLooks ==
  ASSUME TypeOK, StoreInv, UNCHANGED <<document, bucket, old, used, call>>,
         worker'.aged \cup worker'.plan \subseteq old \cup worker.aged \cup worker.plan,
         worker'.checked \subseteq worker'.plan, worker'.checked \cap Attached = {}
  PROVE  StoreInv'
<1>1. Attached' = Attached
  BY DEF Attached
<1>2. OwnDocument' /\ DocumentsStored' /\ HeldInv'
  BY <1>1 DEF StoreInv, OwnDocument, DocumentsStored, HeldInv
<1>3. WorkerInv'
  BY <1>1 DEF StoreInv, WorkerInv
<1> QED
  BY <1>2, <1>3 DEF StoreInv

LEMMA ReconcileStore ==
  ASSUME TypeOK, StoreInv, Reconcile
  PROVE  StoreInv'
<1>0. /\ worker \in Worker
      /\ worker.checked \subseteq worker.plan /\ worker.checked \cap Attached = {}
  BY DEF TypeOK, StoreInv, WorkerInv
<1>a. Resting.aged = {} /\ Resting.plan = {} /\ Resting.checked = {}
  BY DEF Resting
<1>b. UNCHANGED <<tables, store, call, made>> => UNCHANGED <<document, bucket, old, used, call>>
  BY DEF tables, store
<1>1. CASE ListFiles
  <2>1. worker'.aged = old /\ worker'.plan = worker.plan /\ worker'.checked = worker.checked
    BY <1>0, <1>1 DEF ListFiles, Worker
  <2>2. UNCHANGED <<document, bucket, old, used, call>>
    BY <1>1, <1>b DEF ListFiles
  <2> QED
    BY <1>0, <2>1, <2>2, WorkerLooks
<1>2. CASE ReadRows
  <2>1. worker'.aged = worker.aged /\ worker'.plan = worker.plan /\ worker'.checked = worker.checked
    BY <1>0, <1>2 DEF ReadRows, Worker
  <2>2. UNCHANGED <<document, bucket, old, used, call>>
    BY <1>2, <1>b DEF ReadRows
  <2> QED
    BY <1>0, <2>1, <2>2, WorkerLooks
<1>3. CASE Plan
  <2>1. ASSUME NEW plan \in SUBSET Orphans(worker.objects, worker.aged, worker.known),
               worker' = [Resting EXCEPT !.at = "removing", !.plan = plan]
        PROVE  worker'.aged = {} /\ worker'.plan = plan /\ worker'.checked = {} /\ plan \subseteq worker.aged
    BY <2>1 DEF Resting, Orphans
  <2>2. worker'.aged = {} /\ worker'.plan \subseteq worker.aged /\ worker'.checked = {}
    BY <1>3, <1>a, <2>1 DEF Plan
  <2>3. UNCHANGED <<document, bucket, old, used, call>>
    BY <1>3, <1>b DEF Plan
  <2> QED
    BY <2>2, <2>3, WorkerLooks
<1>4. ASSUME NEW k \in Keys, Recheck(k) \/ Remove(k)
      PROVE  StoreInv'
  <2>1. /\ Without(k).aged \subseteq worker.aged /\ Without(k).plan \subseteq worker.plan
        /\ Without(k).checked = {}
    BY <1>0, <1>a DEF Without, Worker
  <2>2. CASE Recheck(k)
    <3>1. CASE k \in Attached
      BY <1>b, <2>1, <2>2, <3>1, WorkerLooks DEF Recheck
    <3>2. CASE k \notin Attached
      <4>1. worker'.aged = worker.aged /\ worker'.plan = worker.plan /\ worker'.checked = {k} /\ k \in worker.plan
        BY <1>0, <2>2, <3>2 DEF Recheck, Worker
      <4>2. UNCHANGED <<document, bucket, old, used, call>>
        BY <1>b, <2>2 DEF Recheck
      <4> QED
        BY <3>2, <4>1, <4>2, WorkerLooks
    <3> QED
      BY <3>1, <3>2
  <2>3. CASE Remove(k)
    <3>1. /\ bucket \ {k} \subseteq bucket' /\ old' \subseteq old /\ UNCHANGED <<document, used, call>>
          /\ k \in worker.checked /\ worker' \in {Without(k), Resting}
      BY <2>3 DEF Remove, tables
    <3>2. Attached' = Attached
      BY <3>1 DEF Attached
    <3>3. OwnDocument' /\ DocumentsStored'
      BY <1>0, <3>1, <3>2 DEF StoreInv, OwnDocument, DocumentsStored
    <3>4. HeldInv'
      BY <1>0, <3>1, <3>2 DEF StoreInv, HeldInv, WorkerInv
    <3>5. worker'.aged \subseteq worker.aged /\ worker'.plan \subseteq worker.plan /\ worker'.checked = {}
      BY <1>a, <2>1, <3>1
    <3>6. WorkerInv'
      BY <3>1, <3>5 DEF StoreInv, WorkerInv
    <3> QED
      BY <3>3, <3>4, <3>6 DEF StoreInv
  <2> QED
    BY <1>4, <2>2, <2>3
<1> QED
  BY <1>1, <1>2, <1>3, <1>4 DEF Reconcile

LEMMA InitStore == Init => StoreInv
  BY DEF Init, StoreInv, OwnDocument, HeldInv, WorkerInv, DocumentsStored, Attached, Idle, Resting

LEMMA StoreKept == TypeOK /\ StoreInv /\ [Next]_vars => StoreInv'
<1> SUFFICES ASSUME TypeOK, StoreInv, [Next]_vars
             PROVE  StoreInv'
  OBVIOUS
<1>1. CASE Next
  BY <1>1, StartsStore, ProceedsStore, AroundStore, ReconcileStore DEF Next
<1>2. CASE UNCHANGED vars
  BY <1>2 DEF vars, tables, store, StoreInv, OwnDocument, HeldInv, WorkerInv, DocumentsStored, Attached
<1> QED
  BY <1>1, <1>2

\* Every document that a row names is stored, however uploads, the reconciliation, anonymising and their
\* failures interleave.
THEOREM NoneLost == Spec => []DocumentsStored
<1>1. StoreInv => DocumentsStored
  BY DEF StoreInv
<1> QED
  BY <1>1, TypeCorrect, InitStore, StoreKept, PTL DEF Spec

-----------------------------------------------------------------------------
(* The lifecycle. *)

\* The audit rows, as a sequence s of moves up to the status now: TrailIsPath of one application.
Path(s, now) ==
  /\ \A i \in 1 .. Len(s) : /\ s[i][2] \in Moves(s[i][1])
                            /\ s[i][1] = IF i = 1 THEN "draft" ELSE s[i - 1][2]
  /\ now # "none" => now = IF Len(s) = 0 THEN "draft" ELSE s[Len(s)][2]

LEMMA TrailPath == TrailIsPath <=> \A a \in Applicants : Path(trail[a], status[a])
  BY DEF TrailIsPath, Path

\* A legal move from the status of a path extends it.
LEMMA PathGrows ==
  ASSUME NEW s \in Seq(Statuses \X Statuses), NEW from \in Statuses, NEW to \in Moves(from), Path(s, from)
  PROVE  Path(Append(s, <<from, to>>), to)
<1> DEFINE t == Append(s, <<from, to>>)
<1>1. from # "none" /\ to \in Statuses
  BY StatusesMoved DEF Statuses
<1>2. /\ Len(t) = Len(s) + 1 /\ t[Len(s) + 1] = <<from, to>> /\ Len(s) \in Nat
      /\ \A i \in 1 .. Len(s) : t[i] = s[i]
  <2>1. <<from, to>> \in Statuses \X Statuses
    BY <1>1
  <2> QED
    BY <2>1, AppendProperties, LenProperties
<1> HIDE DEF t
<1>3. ASSUME NEW i \in 1 .. Len(t)
      PROVE  /\ t[i][2] \in Moves(t[i][1])
             /\ t[i][1] = IF i = 1 THEN "draft" ELSE t[i - 1][2]
  <2>1. CASE i \in 1 .. Len(s)
    <3>1. t[i] = s[i] /\ (i # 1 => t[i - 1] = s[i - 1])
      BY <1>2, <2>1
    <3> QED
      BY <2>1, <3>1 DEF Path
  <2>2. CASE i = Len(s) + 1
    <3>1. t[i][1] = from /\ t[i][2] = to
      BY <1>2, <2>2
    <3>2. i # 1 => t[i - 1] = s[Len(s)] /\ Len(s) # 0
      BY <1>2, <2>2
    <3>3. i = 1 => Len(s) = 0
      BY <1>2, <2>2
    <3> QED
      BY <1>1, <3>1, <3>2, <3>3 DEF Path
  <2> QED
    BY <1>2, <2>1, <2>2
<1>4. Len(t) # 0 /\ t[Len(t)][2] = to
  BY <1>2
<1>5. QED
  BY <1>3, <1>4 DEF Path, t

\* Before there is an application there are no audit rows of it; and one that is submitted has a form.
LifeInv ==
  /\ FrozenIsFit
  /\ TrailIsPath
  /\ \A a \in Applicants : /\ status[a] = "none" => trail[a] = <<>>
                           /\ status[a] \notin {"none", "draft"} => snapshot[a] \in Forms

LEMMA SubmitLife ==
  ASSUME TypeOK, LifeInv, NEW c \in Calls, Submit(c)
  PROVE  LifeInv'
<1> DEFINE a == call[c].who
<1>0. a \in Applicants /\ call[c].form \in Forms
  BY CallOf DEF Submit
<1>1. UNCHANGED <<answer, document, person>>
  BY DEF Submit
<1>2. CASE ~(LockDraft(a) /\ Fit(call[c].form, a))
  <2>1. UNCHANGED <<status, snapshot, trail>>
    BY <1>2 DEF Submit
  <2> QED
    BY <1>1, <2>1 DEF LifeInv, FrozenIsFit, TrailIsPath, Fit, Kept
<1>3. CASE LockDraft(a) /\ Fit(call[c].form, a)
  <2>1. /\ status[a] = "draft"
        /\ status' = [status EXCEPT ![a] = "submitted"]
        /\ snapshot' = [snapshot EXCEPT ![a] = call[c].form]
        /\ trail' = [trail EXCEPT ![a] = Append(trail[a], <<"draft", "submitted">>)]
    BY <1>3 DEF Submit, LockDraft
  <2>2. /\ trail[a] \in Seq(Statuses \X Statuses) /\ "draft" \in Statuses /\ "submitted" \in Moves("draft")
        /\ Path(trail[a], "draft")
    BY <1>0, <2>1, TrailPath DEF TypeOK, LifeInv, Statuses, Moves
  <2>3. Path(Append(trail[a], <<"draft", "submitted">>), "submitted")
    BY <2>2, PathGrows
  <2>4. \A b \in Applicants : b # a => Path(trail[b], status[b])
    BY TrailPath DEF LifeInv
  <2>5. \A b \in Applicants : Path(trail'[b], status'[b])
    BY <1>0, <2>1, <2>3, <2>4 DEF TypeOK
  <2>6. TrailIsPath'
    BY <2>5, TrailPath DEF TrailIsPath, Path
  <2>7. FrozenIsFit'
    BY <1>0, <1>1, <1>3, <2>1 DEF LifeInv, FrozenIsFit, Fit, Kept, TypeOK
  <2>8. (\A b \in Applicants : /\ status[b] = "none" => trail[b] = <<>>
                               /\ status[b] \notin {"none", "draft"} => snapshot[b] \in Forms)'
    BY <1>0, <2>1 DEF LifeInv, TypeOK
  <2> QED
    BY <2>6, <2>7, <2>8 DEF LifeInv
<1> QED
  BY <1>2, <1>3

LEMMA DecideLife ==
  ASSUME TypeOK, LifeInv, NEW c \in Calls, Decide(c)
  PROVE  LifeInv'
<1> DEFINE a == call[c].who
           from == call[c].from
           to == call[c].value
<1>0. /\ a \in Applicants /\ from \in Statuses \ {"draft"} /\ to \in Statuses \ {"draft"} /\ to \in Moves(from)
  BY CallOf DEF Decide
<1>1. UNCHANGED <<answer, document, snapshot, person>>
  BY DEF Decide
<1>2. CASE ~StillAsRead(c)
  <2>1. UNCHANGED <<status, trail>>
    BY <1>2 DEF Decide
  <2> QED
    BY <1>1, <2>1 DEF LifeInv, FrozenIsFit, TrailIsPath, Fit, Kept
<1>3. CASE StillAsRead(c)
  <2>1. /\ status[a] = from
        /\ status' = [status EXCEPT ![a] = to]
        /\ trail' = [trail EXCEPT ![a] = Append(trail[a], <<from, to>>)]
    BY <1>3 DEF Decide, StillAsRead
  <2>2. trail[a] \in Seq(Statuses \X Statuses) /\ Path(trail[a], from)
    BY <1>0, <2>1, TrailPath DEF TypeOK, LifeInv
  <2>3. Path(Append(trail[a], <<from, to>>), to)
    BY <1>0, <2>2, PathGrows
  <2>4. \A b \in Applicants : b # a => Path(trail[b], status[b])
    BY TrailPath DEF LifeInv
  <2> HIDE DEF from, to
  <2>5. \A b \in Applicants : Path(trail'[b], status'[b])
    BY <1>0, <2>1, <2>3, <2>4 DEF TypeOK
  <2>6. TrailIsPath'
    BY <2>5, TrailPath DEF TrailIsPath, Path
  <2>7. from \notin {"none", "draft"} /\ to \notin {"none", "draft"}
    BY <1>0 DEF Statuses
  <2>8. FrozenIsFit'
    BY <1>0, <1>1, <2>1, <2>7 DEF LifeInv, FrozenIsFit, Fit, Kept, TypeOK
  <2>9. (\A b \in Applicants : /\ status[b] = "none" => trail[b] = <<>>
                               /\ status[b] \notin {"none", "draft"} => snapshot[b] \in Forms)'
    BY <1>0, <1>1, <2>1, <2>7 DEF LifeInv, TypeOK
  <2> QED
    BY <2>6, <2>8, <2>9 DEF LifeInv
<1> QED
  BY <1>2, <1>3

LEMMA ProceedsLife ==
  ASSUME TypeOK, LifeInv, NEW c \in Calls, Proceeds(c) \/ Die(c)
  PROVE  LifeInv'
<1> DEFINE a == call[c].who
<1>1. CASE SaveAnswer(c) \/ Attach(c)
  <2>0. a \in Applicants
    BY <1>1, CallOf DEF SaveAnswer, Attach
  <2>1. /\ UNCHANGED <<status, snapshot, trail, person>>
        /\ \A b \in Applicants : status[b] # "draft" => answer'[b] = answer[b] /\ document'[b] = document[b]
    BY <1>1, <2>0 DEF SaveAnswer, Attach, LockDraft, TypeOK
  <2> QED
    BY <2>1 DEF LifeInv, FrozenIsFit, TrailIsPath, Fit, Kept
<1>2. CASE PutFile(c) \/ Discard(c) \/ Die(c)
  <2>1. UNCHANGED tables
    BY <1>2 DEF PutFile, Discard, Die
  <2> QED
    BY <2>1 DEF tables, LifeInv, FrozenIsFit, TrailIsPath, Fit, Kept
<1>3. CASE Submit(c)
  BY <1>3, SubmitLife
<1>4. CASE Decide(c)
  BY <1>4, DecideLife
<1> QED
  BY <1>1, <1>2, <1>3, <1>4 DEF Proceeds

LEMMA StartsLife ==
  ASSUME TypeOK, LifeInv, NEW c \in Calls, Starts(c)
  PROVE  LifeInv'
<1> PICK a \in Applicants :
       \/ \E value \in Values : BeginAnswer(c, a, value)
       \/ \E k \in Keys : BeginUpload(c, a, k)
       \/ BeginSubmit(c, a)
       \/ \E to \in Statuses : BeginDecide(c, a, to)
       \/ \E content \in {"keep", "scrub"} : Anonymise(c, a, content)
  BY DEF Starts
<1>1. CASE UNCHANGED tables
  BY <1>1 DEF tables, LifeInv, FrozenIsFit, TrailIsPath, Fit, Kept
<1>2. CASE \E content \in {"keep", "scrub"} : Anonymise(c, a, content)
  <2>1. /\ UNCHANGED <<status, snapshot, trail>>
        /\ \A b \in Applicants :
             /\ person[b] = "anonymised" => person'[b] = "anonymised"
             /\ \/ answer'[b] = answer[b] /\ document'[b] = document[b]
                \/ answer'[b] = "removed"
                \/ answer'[b] = None /\ person'[b] = "anonymised"
    BY <1>2 DEF Anonymise, TypeOK
  <2> QED
    BY <2>1 DEF LifeInv, FrozenIsFit, TrailIsPath, Fit, Kept
<1> QED
  BY <1>1, <1>2 DEF BeginAnswer, BeginUpload, BeginSubmit, BeginDecide

LEMMA AroundLife ==
  ASSUME TypeOK, LifeInv, Around \/ Reconcile
  PROVE  LifeInv'
<1>1. CASE /\ UNCHANGED <<status, answer, document, snapshot, trail>>
           /\ \A a \in Applicants : person[a] = "anonymised" => person'[a] = "anonymised"
  BY <1>1 DEF LifeInv, FrozenIsFit, TrailIsPath, Fit, Kept
<1>2. ASSUME NEW a \in Applicants, StartApplication(a)
      PROVE  LifeInv'
  <2>1. /\ UNCHANGED <<answer, document, snapshot, trail, person>> /\ trail[a] = <<>>
        /\ status[a] = "none" /\ status' = [status EXCEPT ![a] = "draft"]
    BY <1>2 DEF StartApplication, LifeInv
  <2>2. Path(trail[a], "draft")
    BY <2>1 DEF Path
  <2>3. \A b \in Applicants : Path(trail[b], status'[b])
    BY <2>1, <2>2, TrailPath DEF LifeInv, TypeOK
  <2>4. TrailIsPath'
    BY <2>1, <2>3 DEF TrailIsPath, Path
  <2> QED
    BY <2>1, <2>4 DEF LifeInv, FrozenIsFit, Fit, Kept, TypeOK
<1>3. ASSUME NEW a \in Applicants, VerifyEmail(a)
      PROVE  LifeInv'
  <2>1. \A b \in Applicants : person[b] = "anonymised" => person'[b] = "anonymised"
    BY <1>3 DEF VerifyEmail, TypeOK
  <2> QED
    BY <1>1, <1>3, <2>1 DEF VerifyEmail
<1> QED
  BY <1>1, <1>2, <1>3 DEF Around, EditProgram, GrowOld, Reconcile, ListFiles, ReadRows, Plan, Recheck,
                    Remove, tables

LEMMA InitLife == Init => LifeInv
  BY DEF Init, LifeInv, FrozenIsFit, TrailIsPath

LEMMA LifeKept == TypeOK /\ LifeInv /\ [Next]_vars => LifeInv'
<1> SUFFICES ASSUME TypeOK, LifeInv, [Next]_vars
             PROVE  LifeInv'
  OBVIOUS
<1>1. CASE Next
  BY <1>1, StartsLife, ProceedsLife, AroundLife DEF Next
<1>2. CASE UNCHANGED vars
  BY <1>2 DEF vars, tables, LifeInv, FrozenIsFit, TrailIsPath, Fit, Kept
<1> QED
  BY <1>1, <1>2

\* What was submitted meets the questions frozen with it.
THEOREM FrozenStands == Spec => []FrozenIsFit
<1>1. LifeInv => FrozenIsFit
  BY DEF LifeInv
<1> QED
  BY <1>1, TypeCorrect, InitLife, LifeKept, PTL DEF Spec

\* The audit rows of an application are a path of legal moves from draft to its status.
THEOREM TrailStands == Spec => []TrailIsPath
<1>1. LifeInv => TrailIsPath
  BY DEF LifeInv
<1> QED
  BY <1>1, TypeCorrect, InitLife, LifeKept, PTL DEF Spec

=============================================================================

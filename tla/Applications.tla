----------------------------- MODULE Applications -----------------------------
(***************************************************************************)
(* Applications to one program: src/src/server/applications (actions.ts,   *)
(* review.ts, transitions.ts, validation.ts), their documents in the       *)
(* object store, the daily reconciliation of the store with the table      *)
(* (src/src/server/storage/reconcile.ts), and the anonymising of members   *)
(* (src/src/server/members/anonymise.ts).                                  *)
(*                                                                         *)
(* A program asks for one answer and one document.  A call reads in one    *)
(* step what it decides on, and then writes in a transaction or talks to   *)
(* the store; it may die between two of its steps.                         *)
(***************************************************************************)
EXTENDS Integers, FiniteSets, Sequences

CONSTANTS
  Applicants,      \* members, each with at most one application
  Keys,            \* of objects; each is generated once
  Values,          \* of answers
  Forms,           \* the questions that the program may have
  Programs,        \* what the staff make of the program, each a state and a form
  FirstProgram,
  Calls,           \* server actions at work at the same time
  MaxRemovals,     \* per reconciliation
  EmptyGuard,      \* more objects than this beside an empty table: the wrong database
  MajorityGuard,   \* this many objects, most of them orphans: the wrong database
  MaxCalls,        \* calls in all (bounds the model)
  None             \* no answer, document, form, key or applicant

\* A form says which answers it accepts, and whether the answer and the document are needed.
Form == [accepts : SUBSET Values, question : {"required", "optional"}, file : {"required", "optional"}]

ASSUME ApplicationsAssumption ==
  /\ Forms \subseteq Form
  /\ Programs \subseteq [state : {"open", "closed"}, form : Forms] /\ FirstProgram \in Programs
  /\ None \notin Applicants \cup Keys \cup Values \cup Forms
  /\ "removed" \notin Values \cup {None}
  /\ IsFiniteSet(Keys)
  /\ MaxRemovals \in Nat \ {0} /\ EmptyGuard \in Nat /\ MajorityGuard \in Nat
  /\ MaxCalls \in Nat

VARIABLES
  program,   \* whether it takes applications, and its form
  person,    \* what is known of each applicant
  status,    \* of the application of each
  answer, document, snapshot,
  trail,     \* the audit rows of each application, each a status before and after
  bucket,    \* the objects
  old,       \* those that have outlived the grace period
  used,      \* history: the keys that have been generated
  call,      \* the server actions at work
  worker,    \* the reconciliation
  made       \* how many calls there have been

tables == <<program, person, status, answer, document, snapshot, trail>>
store == <<bucket, old, used>>
vars == <<tables, store, call, worker, made>>

-----------------------------------------------------------------------------
(* The lifecycle. *)

Statuses == { "draft", "submitted", "under_review", "shortlisted", "interview", "waitlisted",
              "accepted", "rejected" }

\* ALLOWED_TRANSITIONS
Moves(from) ==
  CASE from = "draft"        -> {"submitted"}
    [] from = "submitted"    -> {"under_review", "rejected"}
    [] from = "under_review" -> {"shortlisted", "rejected"}
    [] from = "shortlisted"  -> {"interview", "rejected"}
    [] from = "interview"    -> {"accepted", "rejected", "waitlisted"}
    [] from = "waitlisted"   -> {"accepted", "rejected"}
    [] OTHER                 -> {}

\* What the staff may move an application to.
StaffMoves(from) == IF from = "draft" THEN {} ELSE Moves(from)

Attached == { document[a] : a \in Applicants } \ {None}

\* findSubmissionProblem finds none: an answer is one that the form accepts, though it need not be given where it
\* is optional, and a required document is there.
Fit(form, a) ==
  /\ IF answer[a] = None THEN form.question = "optional" ELSE answer[a] \in form.accepts
  /\ form.file = "required" => document[a] # None

-----------------------------------------------------------------------------
(* Types and initial states. *)

Steps == {"idle", "answer", "put", "attach", "discard", "submit", "decide"}

\* A call about the application of who; value is an answer or a status to be given, from the status that was
\* read, form the form that was read, and key the object that the call holds.
Call == [ at : Steps, who : Applicants \cup {None}, value : Values \cup Statuses \cup {None},
          from : Statuses \cup {None}, form : Forms \cup {None}, key : Keys \cup {None} ]

Idle == [at |-> "idle", who |-> None, value |-> None, from |-> None, form |-> None, key |-> None]

Answering(a, value) == [Idle EXCEPT !.at = "answer", !.who = a, !.value = value]
Uploading(a, k) == [Idle EXCEPT !.at = "put", !.who = a, !.key = k]
Attaching(a, k) == [Idle EXCEPT !.at = "attach", !.who = a, !.key = k]
Discarding(a, k) == [Idle EXCEPT !.at = "discard", !.who = a, !.key = k]
Submitting(a, form) == [Idle EXCEPT !.at = "submit", !.who = a, !.form = form]
Deciding(a, to, from) == [Idle EXCEPT !.at = "decide", !.who = a, !.value = to, !.from = from]

\* Fault: there is always something to delete.
Left_Always(a, k) == Discarding(a, k)

\* A call that is left with an object of no row has yet to delete it.
Left(a, k) == IF k = None THEN Idle ELSE Discarding(a, k)

\* What a call needs for its next step, keys being those that have been generated.
Prepared(r, keys) ==
  /\ r.at # "idle" => r.who \in Applicants
  /\ r.at = "answer" => r.value \in Values
  /\ r.at \in {"put", "attach", "discard"} => r.key \in keys
  /\ r.at = "submit" => r.form \in Forms
  /\ r.at = "decide" => r.from \in Statuses /\ r.value \in StaffMoves(r.from)

\* The reconciliation lists the objects and reads the rows, in any order, plans, and then removes one by one;
\* checked holds the object of the plan whose row has been looked for again.
Worker == [ at : {"reading", "removing"}, read : SUBSET {"objects", "rows"},
            objects : SUBSET Keys, aged : SUBSET Keys, known : SUBSET Keys,
            plan : SUBSET Keys, checked : SUBSET Keys ]

Resting == [ at |-> "reading", read |-> {}, objects |-> {}, aged |-> {},
             known |-> {}, plan |-> {}, checked |-> {} ]

TypeOK ==
  /\ program \in Programs
  /\ person \in [Applicants -> {"unverified", "verified", "anonymised"}]
  /\ status \in [Applicants -> Statuses \cup {"none"}]
  /\ answer \in [Applicants -> Values \cup {None, "removed"}]
  /\ document \in [Applicants -> Keys \cup {None}]
  /\ snapshot \in [Applicants -> Forms \cup {None}]
  /\ trail \in [Applicants -> Seq(Statuses \X Statuses)]
  /\ Attached \subseteq used
  /\ old \subseteq bucket /\ bucket \subseteq used /\ used \subseteq Keys
  /\ call \in [Calls -> Call]
  /\ \A c \in Calls : Prepared(call[c], used)
  /\ worker \in Worker
  /\ made \in 0 .. MaxCalls

Init ==
  /\ program = FirstProgram
  /\ person = [a \in Applicants |-> "unverified"]
  /\ status = [a \in Applicants |-> "none"]
  /\ answer = [a \in Applicants |-> None]
  /\ document = [a \in Applicants |-> None]
  /\ snapshot = [a \in Applicants |-> None]
  /\ trail = [a \in Applicants |-> <<>>]
  /\ bucket = {} /\ old = {} /\ used = {}
  /\ call = [c \in Calls |-> Idle]
  /\ worker = Resting
  /\ made = 0

-----------------------------------------------------------------------------
(* Around the applications. *)

\* Staff edit the program in the CMS, or its deadline passes.
EditProgram(p) ==
  /\ program # p
  /\ program' = p
  /\ UNCHANGED <<person, status, answer, document, snapshot, trail, store, call, worker, made>>

VerifyEmail(a) ==
  /\ person[a] = "unverified"
  /\ person' = [person EXCEPT ![a] = "verified"]
  /\ UNCHANGED <<program, status, answer, document, snapshot, trail, store, call, worker, made>>

\* An object outlives the grace period. It is long enough for every upload to have ended.
GrowOld(k) ==
  /\ k \in bucket \ old
  /\ \A c \in Calls : call[c].at \in {"put", "attach"} => k # call[c].key
  /\ old' = old \cup {k}
  /\ UNCHANGED <<tables, bucket, used, call, worker, made>>

-----------------------------------------------------------------------------
(* The applicant's calls, and the reviewers'. *)

Begin(c, new) ==
  /\ call[c].at = "idle"
  /\ made < MaxCalls /\ made' = made + 1
  /\ call' = [call EXCEPT ![c] = new]

Goes(c, new) == call' = [call EXCEPT ![c] = new]

SignedIn(a) == person[a] # "anonymised"

\* The application is the applicant's draft, and the program is open: what saveAnswer and uploadDocument
\* and submitApplication read first.
ReadsDraft(a) == SignedIn(a) /\ status[a] = "draft" /\ program.state = "open"

\* Starting again finds the application that is there.
StartApplication(a) ==
  /\ SignedIn(a) /\ program.state = "open"
  /\ status[a] = "none"
  /\ status' = [status EXCEPT ![a] = "draft"]
  /\ UNCHANGED <<program, person, answer, document, snapshot, trail, store, call, worker, made>>

BeginAnswer(c, a, value) ==
  /\ ReadsDraft(a)
  /\ value \in program.form.accepts
  /\ Begin(c, Answering(a, value))
  /\ UNCHANGED <<tables, store, worker>>

\* Fault: the status that was read before the transaction is trusted.
LockDraft_AsRead(a) == TRUE

\* The row is locked, and still a draft.
LockDraft(a) == status[a] = "draft"

SaveAnswer(c) ==
  LET a == call[c].who IN
  /\ call[c].at = "answer"
  /\ answer' = IF LockDraft(a) THEN [answer EXCEPT ![a] = call[c].value] ELSE answer
  /\ Goes(c, Idle)
  /\ UNCHANGED <<program, person, status, document, snapshot, trail, store, worker, made>>

\* A document that the checks and the scanner have passed.
BeginUpload(c, a, k) ==
  /\ ReadsDraft(a)
  /\ k \notin used
  /\ used' = used \cup {k}
  /\ Begin(c, Uploading(a, k))
  /\ UNCHANGED <<tables, bucket, old, worker>>

PutFile(c) ==
  /\ call[c].at = "put"
  /\ bucket' = bucket \cup {call[c].key}
  /\ Goes(c, Attaching(call[c].who, call[c].key))
  /\ UNCHANGED <<tables, old, used, worker, made>>

\* The row takes the new object, and the one that it had is left over; or the new one is, too late.
Attach(c) ==
  LET a == call[c].who IN
  /\ call[c].at = "attach"
  /\ IF LockDraft(a)
       THEN document' = [document EXCEPT ![a] = call[c].key] /\ Goes(c, Left(a, document[a]))
       ELSE UNCHANGED document /\ Goes(c, Left(a, call[c].key))
  /\ UNCHANGED <<program, person, status, answer, snapshot, trail, store, worker, made>>

\* The object is deleted, or the deletion fails and is only logged.
Discard(c) ==
  /\ call[c].at = "discard"
  /\ \/ bucket' = bucket \ {call[c].key} /\ old' = old \ {call[c].key}
     \/ UNCHANGED <<bucket, old>>
  /\ Goes(c, Idle)
  /\ UNCHANGED <<tables, used, worker, made>>

\* The form is the one that is read now.
BeginSubmit(c, a) ==
  /\ ReadsDraft(a) /\ person[a] = "verified"
  /\ Begin(c, Submitting(a, program.form))
  /\ UNCHANGED <<tables, store, worker>>

\* Status, snapshot, audit row and notification in one transaction, after the lock and the validation.
Submit(c) ==
  LET a == call[c].who IN
  /\ call[c].at = "submit"
  /\ IF LockDraft(a) /\ Fit(call[c].form, a)
       THEN /\ status' = [status EXCEPT ![a] = "submitted"]
            /\ snapshot' = [snapshot EXCEPT ![a] = call[c].form]
            /\ trail' = [trail EXCEPT ![a] = Append(@, <<"draft", "submitted">>)]
       ELSE UNCHANGED <<status, snapshot, trail>>
  /\ Goes(c, Idle)
  /\ UNCHANGED <<program, person, answer, document, store, worker, made>>

\* changeApplicationStatus by any reviewer
BeginDecide(c, a, to) ==
  /\ status[a] # "none"
  /\ to \in StaffMoves(status[a])
  /\ Begin(c, Deciding(a, to, status[a]))
  /\ UNCHANGED <<tables, store, worker>>

\* Fault: the update asks for the application only, not for the status that was read.
StillAsRead_Ignored(c) == TRUE

StillAsRead(c) == status[call[c].who] = call[c].from

Decide(c) ==
  LET a == call[c].who IN
  /\ call[c].at = "decide"
  /\ IF StillAsRead(c)
       THEN /\ status' = [status EXCEPT ![a] = call[c].value]
            /\ trail' = [trail EXCEPT ![a] = Append(@, <<call[c].from, call[c].value>>)]
       ELSE UNCHANGED <<status, trail>>
  /\ Goes(c, Idle)
  /\ UNCHANGED <<program, person, answer, document, snapshot, store, worker, made>>

\* anonymiseMember: one transaction; scrubbing also takes the answer and the row of the document, whose
\* object is deleted afterwards.
Anonymise(c, a, content) ==
  /\ person[a] # "anonymised"
  /\ person' = [person EXCEPT ![a] = "anonymised"]
  /\ answer' = IF content = "scrub" /\ answer[a] # None THEN [answer EXCEPT ![a] = "removed"] ELSE answer
  /\ document' = IF content = "scrub" THEN [document EXCEPT ![a] = None] ELSE document
  /\ Begin(c, IF content = "scrub" THEN Left(a, document[a]) ELSE Idle)
  /\ UNCHANGED <<program, status, snapshot, trail, store, worker>>

\* The server stops, or the connection to the database or to the store breaks.
Die(c) ==
  /\ call[c].at # "idle"
  /\ Goes(c, Idle)
  /\ UNCHANGED <<tables, store, worker, made>>

-----------------------------------------------------------------------------
(* The reconciliation. *)

ListFiles ==
  /\ worker.at = "reading" /\ "objects" \notin worker.read
  /\ worker' = [worker EXCEPT !.read = @ \cup {"objects"}, !.objects = bucket, !.aged = old]
  /\ UNCHANGED <<tables, store, call, made>>

ReadRows ==
  /\ worker.at = "reading" /\ "rows" \notin worker.read
  /\ worker' = [worker EXCEPT !.read = @ \cup {"rows"}, !.known = Attached]
  /\ UNCHANGED <<tables, store, call, made>>

\* Fault: no grace period.
Orphans_NoGrace(objects, aged, known) == objects \ known

Orphans(objects, aged, known) == aged \ known

\* planReconciliation does not trust the comparison.
Refused(objects, aged, known) ==
  \/ Cardinality(objects) > EmptyGuard /\ known = {}
  \/ /\ Cardinality(objects) >= MajorityGuard
     /\ 2 * Cardinality(Orphans(objects, aged, known)) > Cardinality(objects)

\* The first orphans, at most so many.
Plan ==
  LET orphans == Orphans(worker.objects, worker.aged, worker.known)
      most == IF Cardinality(orphans) <= MaxRemovals THEN Cardinality(orphans) ELSE MaxRemovals
  IN
  /\ worker.at = "reading" /\ worker.read = {"objects", "rows"}
  /\ IF Refused(worker.objects, worker.aged, worker.known)
       THEN worker' = Resting
       ELSE \E plan \in SUBSET orphans :
              /\ Cardinality(plan) = most
              /\ worker' = IF plan = {} THEN Resting ELSE [Resting EXCEPT !.at = "removing", !.plan = plan]
  /\ UNCHANGED <<tables, store, call, made>>

\* The reconciliation has done with k; after the last one it rests until the next day.
Without(k) == IF worker.plan = {k} THEN Resting ELSE [worker EXCEPT !.plan = @ \ {k}, !.checked = {}]

\* The row is looked for again; an object that has one is passed over.
Recheck(k) ==
  /\ worker.at = "removing" /\ worker.checked = {} /\ k \in worker.plan
  /\ worker' = IF k \in Attached THEN Without(k) ELSE [worker EXCEPT !.checked = {k}]
  /\ UNCHANGED <<tables, store, call, made>>

\* Without one the object is removed; a failure ends the run.
Remove(k) ==
  /\ worker.at = "removing" /\ k \in worker.checked
  /\ \/ bucket' = bucket \ {k} /\ old' = old \ {k} /\ worker' = Without(k)
     \/ UNCHANGED <<bucket, old>> /\ worker' = Resting
  /\ UNCHANGED <<tables, used, call, made>>

Reconcile == ListFiles \/ ReadRows \/ Plan \/ \E k \in Keys : Recheck(k) \/ Remove(k)

-----------------------------------------------------------------------------
(* The specification. *)

Starts(c) ==
  \E a \in Applicants :
    \/ \E value \in Values : BeginAnswer(c, a, value)
    \/ \E k \in Keys : BeginUpload(c, a, k)
    \/ BeginSubmit(c, a)
    \/ \E to \in Statuses : BeginDecide(c, a, to)
    \/ \E content \in {"keep", "scrub"} : Anonymise(c, a, content)

Proceeds(c) ==
  \/ SaveAnswer(c)
  \/ PutFile(c) \/ Attach(c) \/ Discard(c)
  \/ Submit(c) \/ Decide(c)

Around ==
  \/ \E p \in Programs : EditProgram(p)
  \/ \E a \in Applicants : VerifyEmail(a) \/ StartApplication(a)
  \/ \E k \in Keys : GrowOld(k)

Next == Around \/ Reconcile \/ \E c \in Calls : Starts(c) \/ Proceeds(c) \/ Die(c)

Spec == Init /\ [][Next]_vars

-----------------------------------------------------------------------------
(* Properties. *)

\* No row names an object that is gone: neither an upload that replaces a document, nor one that comes too
\* late, nor the reconciliation, nor anonymising, loses a document.
DocumentsStored == Attached \subseteq bucket

\* Scrubbing has not taken what a submitted application holds, as far as its rows tell.
Kept(a) == answer[a] # "removed" /\ (answer[a] = None => person[a] # "anonymised")

\* What was submitted meets the questions that were frozen with it, for as long as it is there, though
\* answers, uploads and a second submit were under way meanwhile, and the program changed (R-05, KN-31).
FrozenIsFit ==
  \A a \in Applicants :
    status[a] \notin {"none", "draft"} /\ Kept(a) => Fit(snapshot[a], a)

\* The audit rows of an application are a path of legal moves from draft to its status: two reviewers who
\* act on one status cannot both win, and no move is unrecorded.
TrailIsPath ==
  \A a \in Applicants :
    LET n == Len(trail[a]) IN
    /\ \A i \in 1 .. n : /\ trail[a][i][2] \in Moves(trail[a][i][1])
                         /\ trail[a][i][1] = IF i = 1 THEN "draft" ELSE trail[a][i - 1][2]
    /\ status[a] # "none" => status[a] = IF n = 0 THEN "draft" ELSE trail[a][n][2]
=============================================================================

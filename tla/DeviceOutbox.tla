----------------------------- MODULE DeviceOutbox -----------------------------
(***************************************************************************)
(* The outbox of a device that scans: src/src/lib/lab-qr/client/outbox.ts  *)
(* as the pages of the device app use it, the Background Sync of           *)
(* src/public/sw.js, and the session of the browser they share.            *)
(*                                                                         *)
(* A page works for the person it was opened for; what it sends goes out   *)
(* under the session that the browser has at that moment.  Answers are     *)
(* lost and requests are late.  The server is what ScanLedger promises: it *)
(* decides an event once, for the owner of the key that signed it; a       *)
(* submission reads, decides and stores in steps that others come between. *)
(***************************************************************************)
EXTENDS Integers, FiniteSets

CONSTANTS
  Events,      \* the scans that may be made on the device
  Users,       \* the people who use it
  Owner,       \* who makes each scan
  Pages,       \* pages of the device app that are open at once
  Syncs,       \* Background Sync
  MaxBatch,    \* MAX_BATCH_EVENTS
  MaxFaults,   \* answers lost, sign-outs, pages closed (bounds the model)
  Enrolled,    \* the people whose key the server knows at first
  Nobody       \* no one is signed in, or no one is known

ASSUME OutboxAssumption ==
  /\ Owner \in [Events -> Users]
  /\ Nobody \notin Users
  /\ Enrolled \subseteq Users
  /\ Pages \cap Syncs = {}
  /\ MaxBatch \in Nat \ {0} /\ MaxFaults \in Nat

Flushers == Pages \cup Syncs

VARIABLES
  outbox,     \* the device's items: "absent", "pending", or the result recorded
  verdict,    \* what the server has stored about each event
  session,    \* who is signed in, in this browser
  known,      \* the identity that the device remembers
  enrolled,   \* the people whose key the server knows
  page,       \* whom each page works for
  flush,      \* the flush in progress in each page and in Background Sync
  stray,      \* events of requests nobody waits for, and how far the server is with them
  misdirected,  \* history: scans sent under another session, or before their key was registered
  replayed,   \* history: events answered as a replay though another submission had stored them
  faults      \* how many faults have happened

device == <<outbox, known, page>>
history == <<misdirected, replayed>>
vars == <<outbox, verdict, session, known, enrolled, page, flush, stray, misdirected, replayed,
          faults>>

Server == INSTANCE ScanLedger WITH Scans <- Events

-----------------------------------------------------------------------------
(* Items and flushes. *)

Verdicts == {"accepted", "review", "rejected"}

\* not-your-key and unknown-key are the rejections that the server does not store.
Results == Verdicts \cup {"not-your-key", "unknown-key"}
Items == {"absent", "pending"} \cup Results

\* How far the server is with an event that it has not answered: not looked at, not found among
\* the stored ones, or refused by the index of used codes.
Stages == {"none", "fresh", "replay"}

\* A flush has read the items that are left to send, and has sent those of its batch as user;
\* answer is what came back. In "retry" no answer came.
Flush == [ at : {"idle", "next", "sent", "write", "retry"}, left : SUBSET Events,
           batch : SUBSET Events, user : Users \cup {Nobody},
           answer : [Events -> Results \cup Stages] ]

NoAnswer == [e \in Events |-> "none"]

FlushAt(at, left, batch, user, answer) ==
  [at |-> at, left |-> left, batch |-> batch, user |-> user, answer |-> answer]

Still == FlushAt("idle", {}, {}, Nobody, NoAnswer)

\* Fault: a flush with nothing left to send does not end.
Toward_NoEnd(left) == FlushAt("next", left, {}, Nobody, NoAnswer)

\* A flush with these items left to send.
Toward(left) == FlushAt(IF left = {} THEN "idle" ELSE "next", left, {}, Nobody, NoAnswer)

TypeOK ==
  /\ outbox \in [Events -> Items]
  /\ verdict \in [Events -> Verdicts \cup {"none"}]
  /\ session \in Users \cup {Nobody}
  /\ known \in Users \cup {Nobody}
  /\ enrolled \subseteq Users
  /\ page \in [Pages -> Users \cup {Nobody}]
  /\ flush \in [Flushers -> Flush]
  /\ \A f \in Flushers : flush[f].at = "next" => flush[f].left # {}
  /\ stray \subseteq Users \X Events \X Stages
  /\ misdirected \subseteq Events
  /\ replayed \subseteq Events
  /\ faults \in 0 .. MaxFaults

Init ==
  /\ outbox = [e \in Events |-> "absent"]
  /\ Server!LedgerInit
  /\ session = Nobody
  /\ known = Nobody
  /\ enrolled = Enrolled
  /\ page = [p \in Pages |-> Nobody]
  /\ flush = [f \in Flushers |-> Still]
  /\ stray = {}
  /\ misdirected = {}
  /\ replayed = {}
  /\ faults = 0

-----------------------------------------------------------------------------
(* The session, and the pages that are opened under it. *)

Fault == faults < MaxFaults /\ faults' = faults + 1

\* Another person may sign in while pages work for the one before.
SignIn(u) ==
  /\ session = Nobody
  /\ session' = u
  /\ UNCHANGED <<device, verdict, enrolled, flush, stray, history, faults>>

\* Logging out, in any page of the site, leaves the outbox alone.
SignOut ==
  /\ Fault
  /\ session # Nobody
  /\ session' = Nobody
  /\ UNCHANGED <<device, verdict, enrolled, flush, stray, history>>

\* boot, online: the page is for whoever is signed in, once their key is registered.
Open(p) ==
  /\ page[p] = Nobody
  /\ session # Nobody
  /\ known' = session
  /\ \/ page' = [page EXCEPT ![p] = session] /\ enrolled' = enrolled \cup {session}
     \/ session \notin enrolled /\ UNCHANGED <<page, enrolled>>
  /\ UNCHANGED <<outbox, verdict, session, flush, stray, history, faults>>

\* boot, when the server says that nobody is signed in.
OpenSignedOut(p) ==
  /\ page[p] = Nobody
  /\ session = Nobody /\ known # Nobody
  /\ known' = Nobody
  /\ UNCHANGED <<outbox, verdict, session, enrolled, page, flush, stray, history, faults>>

\* boot, offline: the page is for whom the device remembers, with a key that may be unregistered.
OpenOffline(p) ==
  /\ page[p] = Nobody
  /\ known # Nobody
  /\ page' = [page EXCEPT ![p] = known]
  /\ UNCHANGED <<outbox, verdict, session, known, enrolled, flush, stray, history, faults>>

\* What the server has not answered of the request of f.
Abandoned(f) ==
  { <<flush[f].user, e, flush[f].answer[e]>> :
      e \in {d \in flush[f].batch : flush[f].answer[d] \in Stages} }

\* A page is closed, or the browser stops Background Sync, in the middle of anything.
Stop(f) ==
  /\ Fault
  /\ \/ flush[f].at # "idle" /\ UNCHANGED page
     \/ f \in Pages /\ page[f] # Nobody /\ page' = [page EXCEPT ![f] = Nobody]
  /\ flush' = [flush EXCEPT ![f] = Still]
  /\ stray' = IF flush[f].at = "sent" THEN stray \cup Abandoned(f) ELSE stray
  /\ UNCHANGED <<outbox, verdict, session, known, enrolled, history>>

\* enqueue: a scan is signed and queued for the person the page works for. The scanned code has
\* been checked against the keys that the server gave the device: no other is queued.
Enqueue(p, e) ==
  /\ page[p] = Owner[e]
  /\ outbox[e] = "absent"
  /\ outbox' = [outbox EXCEPT ![e] = "pending"]
  /\ UNCHANGED <<verdict, session, known, enrolled, page, flush, stray, history, faults>>

-----------------------------------------------------------------------------
(* flush, in a page, and flushOutbox, in the service worker. *)

\* A page reads the unsent items of the person it works for; Background Sync reads all.
Unsent(f) ==
  { e \in Events : outbox[e] = "pending" /\ (f \in Pages => Owner[e] = page[f]) }

Begin(f) ==
  /\ flush[f].at = "idle"
  /\ f \in Pages => page[f] # Nobody
  /\ Unsent(f) # {}
  /\ flush' = [flush EXCEPT ![f] = Toward(Unsent(f))]
  /\ UNCHANGED <<device, verdict, session, enrolled, stray, history, faults>>

\* The flush f with the request that is under way.
Request(f, at, batch, answer) == FlushAt(at, flush[f].left, batch, flush[f].user, answer)

\* A page sends the scan under another person's session, or it is sent while the server does not
\* know the key that signed it.
Misdirected(f, e) == (f \in Pages /\ Owner[e] # session) \/ Owner[e] \notin enrolled

\* The next batch goes out under the session of the browser.
Send(f) ==
  /\ flush[f].at = "next"
  /\ session # Nobody
  /\ \E B \in SUBSET flush[f].left :
       /\ B # {}
       /\ Cardinality(B) = MaxBatch \/ (B = flush[f].left /\ Cardinality(B) < MaxBatch)
       /\ flush' = [flush EXCEPT ![f] = FlushAt("sent", flush[f].left \ B, B, session, NoAnswer)]
       /\ misdirected' = misdirected \cup {e \in B : Misdirected(f, e)}
  /\ UNCHANGED <<device, verdict, session, enrolled, stray, replayed, faults>>

\* The answer is 401: everything stays queued.
SignedOut(f) ==
  /\ flush[f].at = "next"
  /\ session = Nobody
  /\ flush' = [flush EXCEPT ![f] = Still]
  /\ UNCHANGED <<device, verdict, session, enrolled, stray, history, faults>>

\* The answer about an event that is not the sender's, or that no registered key signed.
Foreign(e) == IF Owner[e] \in enrolled THEN "not-your-key" ELSE "unknown-key"

\* processEvent: the stored event, if there is one, is answered to its owner and to no one else.
Look(u, e, from, to) ==
  /\ from = "none"
  /\ \/ verdict[e] = "none" /\ to = "fresh"
     \/ verdict[e] # "none" /\ to = IF u = Owner[e] THEN verdict[e] ELSE "not-your-key"
  /\ UNCHANGED <<verdict, replayed>>

\* Fault: an event that was stored meanwhile is answered as this submission decided.
Persist_Unread(u, e, from, to) ==
  /\ from = "fresh"
  /\ IF u = Owner[e] /\ u \in enrolled
       THEN \/ to \in Verdicts /\ Server!Decide(e, to)
            \/ verdict[e] = "none" /\ to = "replay" /\ UNCHANGED verdict
            \/ verdict[e] # "none" /\ to \in Verdicts /\ UNCHANGED verdict
       ELSE to = Foreign(e) /\ UNCHANGED verdict
  /\ UNCHANGED replayed

\* decideScan and persist: what the sender's registered key did not sign is refused and not stored;
\* an event that another submission stored meanwhile is answered as stored; the others are stored
\* as decided, unless the code that was scanned is in use.
Persist(u, e, from, to) ==
  /\ from = "fresh"
  /\ IF u = Owner[e] /\ u \in enrolled
       THEN \/ to \in Verdicts /\ Server!Decide(e, to)
            \/ verdict[e] = "none" /\ to = "replay" /\ UNCHANGED verdict
            \/ verdict[e] # "none" /\ to = verdict[e] /\ UNCHANGED verdict
       ELSE to = Foreign(e) /\ UNCHANGED verdict
  /\ UNCHANGED replayed

\* A replay is stored as rejected, unless the event was stored meanwhile, and answered without
\* reading it again.
StoreReplay(u, e, from, to) ==
  /\ from = "replay" /\ to = "rejected"
  /\ IF verdict[e] = "none" THEN Server!Decide(e, "rejected") /\ UNCHANGED replayed
     ELSE replayed' = replayed \cup {e} /\ UNCHANGED verdict

\* One step of the server with the event e that u has submitted.
Judge(u, e, from, to) ==
  Look(u, e, from, to) \/ Persist(u, e, from, to) \/ StoreReplay(u, e, from, to)

\* The events of a request are processed one after the other.
Handle(f, e) ==
  /\ flush[f].at = "sent"
  /\ e \in flush[f].batch
  /\ \A d \in flush[f].batch \ {e} : flush[f].answer[d] \notin Stages \ {"none"}
  /\ \E to \in Results \cup Stages :
       /\ Judge(flush[f].user, e, flush[f].answer[e], to)
       /\ flush' = [flush EXCEPT ![f] = Request(f, "sent", flush[f].batch,
                                                [flush[f].answer EXCEPT ![e] = to])]
  /\ UNCHANGED <<device, session, enrolled, stray, misdirected, faults>>

\* The server goes on with an event of a request nobody waits for any more.
HandleStray(u, e, from) ==
  /\ <<u, e, from>> \in stray
  /\ \E to \in Results \cup Stages :
       /\ Judge(u, e, from, to)
       /\ stray' = (stray \ {<<u, e, from>>}) \cup ({<<u, e, to>>} \cap (Users \X Events \X Stages))
  /\ UNCHANGED <<device, session, enrolled, flush, misdirected, faults>>

\* A head decides about an event that is held.
Review(e, v) ==
  /\ Server!Settle(e, v)
  /\ UNCHANGED <<device, session, enrolled, flush, stray, history, faults>>

\* The answer arrives once every event of the batch has been looked at.
Answered(f) ==
  /\ flush[f].at = "sent"
  /\ \A e \in flush[f].batch : flush[f].answer[e] \in Results
  /\ flush' = [flush EXCEPT ![f] = Request(f, "write", flush[f].batch, flush[f].answer)]
  /\ UNCHANGED <<device, verdict, session, enrolled, stray, history, faults>>

\* No answer, or an error: a page notes it item by item, Background Sync is run again later.
Unanswered(f) ==
  /\ Fault
  /\ flush[f].at = "sent"
  /\ flush' = [flush EXCEPT ![f] =
                 IF f \in Pages THEN FlushAt("retry", {}, flush[f].batch, Nobody, NoAnswer)
                 ELSE Still]
  /\ stray' = stray \cup Abandoned(f)
  /\ UNCHANGED <<device, verdict, session, enrolled, history>>

\* Fault: the last item does not end the flush, and the page stays busy.
Done_StaysBusy(f, e) ==
  flush' = [flush EXCEPT ![f] =
              Request(f, flush[f].at, flush[f].batch \ {e}, flush[f].answer)]

\* The flush f is done with the item e, the last of its batch or not.
Done(f, e) ==
  flush' = [flush EXCEPT ![f] =
              IF flush[f].batch = {e} THEN Toward(flush[f].left)
              ELSE Request(f, flush[f].at, flush[f].batch \ {e}, flush[f].answer)]

\* The item as it was read, with the error: unsent, whatever it has become since.
WriteError(p, e) ==
  /\ flush[p].at = "retry"
  /\ e \in flush[p].batch
  /\ outbox' = [outbox EXCEPT ![e] = "pending"]
  /\ Done(p, e)
  /\ UNCHANGED <<verdict, session, known, enrolled, page, stray, history, faults>>

\* A page records each answer as the result.
WriteResult(p, e) ==
  /\ p \in Pages
  /\ flush[p].at = "write"
  /\ e \in flush[p].batch
  /\ outbox' = [outbox EXCEPT ![e] = flush[p].answer[e]]
  /\ Done(p, e)
  /\ UNCHANGED <<verdict, session, known, enrolled, page, stray, history, faults>>

\* Fault: Background Sync records every answer.
WriteResults_Foreign(s) ==
  /\ s \in Syncs
  /\ flush[s].at = "write"
  /\ outbox' = [e \in Events |-> IF e \in flush[s].batch THEN flush[s].answer[e] ELSE outbox[e]]
  /\ flush' = [flush EXCEPT ![s] = Toward(flush[s].left)]
  /\ UNCHANGED <<verdict, session, known, enrolled, page, stray, history, faults>>

\* Background Sync records them in one transaction, save the answers about another person's events.
WriteResults(s) ==
  /\ s \in Syncs
  /\ flush[s].at = "write"
  /\ outbox' = [e \in Events |->
                  IF e \in flush[s].batch /\ flush[s].answer[e] # "not-your-key"
                    THEN flush[s].answer[e] ELSE outbox[e]]
  /\ flush' = [flush EXCEPT ![s] = Toward(flush[s].left)]
  /\ UNCHANGED <<verdict, session, known, enrolled, page, stray, history, faults>>

-----------------------------------------------------------------------------
FlushStep(f) ==
  \/ Send(f) \/ SignedOut(f) \/ Answered(f)
  \/ \E e \in Events : Handle(f, e) \/ WriteError(f, e) \/ WriteResult(f, e)
  \/ WriteResults(f)

Next ==
  \/ \E u \in Users :
       SignIn(u) \/ \E e \in Events, from \in Stages : HandleStray(u, e, from)
  \/ SignOut
  \/ \E p \in Pages :
       \/ Open(p) \/ OpenSignedOut(p) \/ OpenOffline(p)
       \/ \E e \in Events : Enqueue(p, e)
  \/ \E f \in Flushers : Begin(f) \/ FlushStep(f) \/ Stop(f) \/ Unanswered(f)
  \/ \E e \in Events, v \in {"accepted", "rejected"} : Review(e, v)

\* A flush that began goes on: the browser runs it and the server answers, or it fails. Nothing
\* makes a page begin another one.
Fairness == \A f \in Flushers : WF_vars(FlushStep(f))

Spec == Init /\ [][Next]_vars /\ Fairness

-----------------------------------------------------------------------------
(* Properties. *)

\* No sequence of lost answers, late requests, closed pages, overlapping flushes and replays takes
\* a scan out of the queue before the server has stored it (flush, flushOutbox, processEvent): the
\* scans that are lost were sent by a page under the session of another person, or before the
\* server knew the key that signed them. Background Sync loses none to another person's session.
LostOnlyIfMisdirected ==
  \A e \in Events : outbox[e] \in Results /\ verdict[e] = "none" => e \in misdirected

\* The result that the device records is the server's: accepted and rejected are final, and what was
\* held for review was held, whatever a head has decided since (WriteResult after a late answer).
\* Only a submission that met a used code, while another submission of the event was stored, is
\* answered as rejected whatever was stored (persist).
ResultAsDecided ==
  \A e \in Events :
    /\ outbox[e] = "accepted" => verdict[e] = "accepted"
    /\ outbox[e] = "rejected" => verdict[e] = "rejected" \/ e \in replayed
    /\ outbox[e] = "review" => verdict[e] # "none"

\* A page of the person who made the scan e begins a flush, under their own session.
FlushOwn(e) == \E p \in Pages : page[p] = Owner[e] /\ session = Owner[e] /\ Begin(p)

\* If the person who made a scan keeps coming back to the device app, signed in, and lets it flush
\* while it can (opens it, presses Sync now, scans again), the scan does not wait for ever: no flush
\* hangs, and neither a failed flush nor the write of an older one keeps putting it back.
Delivered ==
  \A e \in Events :
    /\ []<>(session = Owner[e] /\ \E p \in Pages : page[p] = Owner[e])
    /\ WF_vars(FlushOwn(e))
    => (outbox[e] = "pending" ~> outbox[e] \in Results)

=============================================================================

# TLA+ verification of the KNEST platform server

KNEST is a web platform (Next.js server actions, PostgreSQL through Drizzle, a Payload CMS) of a
technology incubator: members book laboratories, apply to programmes, join hackathons and events,
and staff decide, record attendance and send mail. Almost every rule the platform promises is kept
by server actions that read a few rows, decide, and then run one conditional transaction, while
other requests do the same. That is what these modules are about.

All paths below are relative to the repository (`src/...` in `PROJECT.json` is the repository
root followed by the path).

## 1. Inventory

The server lives in `src/server`, one directory per part; the database schema in `src/db`.

| Component | State it keeps | Operations | What is hard | What makes it correct |
|---|---|---|---|---|
| Lab booking rules (`labs/rules.ts`) | none | calendar, slots of a day, validation of a request, weekly hours, table of moves | block and day boundaries, horizon and notice, two definitions of the same grid | the calendar offers what a request may take, to the minute |
| Lab booking service (`labs/service.ts`) | `lab_bookings`, `lab_attendance`, audit rows, notices | request, approve, reject, propose, accept, decline, cancel, mark attendance, availability | reads before the transaction, overlapping inserts, limits counted before the insert, cut-offs, two tabs | no time is booked twice, moves follow the table, limits hold, one outcome per session, an unbroken audit trail |
| Lab settings and staff (`labs/manage.ts`, `access.ts`) | `labs`, `lab_hours`, `lab_blackouts`, `lab_staff` | update, hours, close dates, appoint and remove staff | settings change under requests and proposals in flight | nothing is confirmed against the settings in force, heads are told of the bookings they affect |
| QR attendance (`labs/attendance-qr.ts`, `src/lib/lab-qr`) | device keys, scan events, pairings, reviews, the device's outbox | register and revoke a key, submit a batch, decide a review, flush the outbox | batches sent twice, two halves arriving at once, late scans after a mark, page and background sync flushing together | an event counts once, two halves make one attendance, a recorded outcome is never silently undone |
| Lab departments (`labs/departments.ts`, `department-admin.ts`) | a forest of departments | create, move, remove | two moves that are harmless alone and a cycle together | the forest has no cycle, every department is listed and counted |
| Lab reports | none | aggregation for screens | none: pure reads | - |
| E-mail outbox (`email/outbox.ts`, `send.ts`) | `email_outbox` rows, attempts in the air | store and send, resend, the worker's claim, attempt, give up | leases and slow attempts, crashes between provider and database, outcomes written by id | no text lost, sent by two at once only when late, every message settled |
| Notifications | `notifications` | insert, mark read | nothing reads them back to decide | - |
| Applications (`applications`) | drafts, answers, documents, statuses | start, save, upload, submit, review | drafts locked while submitted, concurrent uploads, two reviewers | what is submitted is what was validated, one decision per move, the trail is a legal path |
| Hackathons (`hackathons`) | registrations, teams, members, submissions, votes, scores | register, create and join teams, transfer, leave, disband, submit, vote, judge | counts without locks, several statements without a transaction | one team each, with one leader, and not too many members; a submitted entry stays; votes are for what was submitted |
| Events (`events`) | registrations | register, unregister | capacity under an advisory lock | never more seats than capacity, no double registration |
| Authentication (`auth`) | users, one-time links, sessions, Google identities | sign up, request and open a link, reset, sign in and out, link Google | a sign-up for another's address, links replaced and used at once, Auth.js callbacks between which anything happens | the password of an account is its owner's, no session before the address is known |
| Member administration (`members`) | account flags, roles | activate, set role, anonymise | two super admins acting on each other, calls under way when a member is erased | there always is an admin, no password or address of an erased member comes back |
| Onboarding | profiles | step-by-step save | little: one person | - |
| Abuse controls | token buckets | take | arithmetic in one SQL statement | - |
| File storage and reconciliation (`storage`) | objects and rows | put, delete, list, reconcile | an object is put before its row, deleted after it, and listed in between | no row without its object |
| Maintenance, analytics, CMS, pages | - | deletes of expired rows, reads, third-party CMS, rendering | - | - |

Interactions. Server actions are HTTP requests handled by any server process; they share only
the database. The booking service reads the settings and staff tables that the manager's actions
write; it stores its notices in its transaction and sends their mail through `sendDurably` of
the e-mail outbox after it. QR attendance calls the
same conditional update of a booking as the manual mark. Applications name the objects that uploads have put in the store and
the reconciliation removes; anonymising a member closes the account and removes the content of the application.
The device's outbox talks to QR attendance by requests that may be lost, late or repeated. The
e-mail outbox, the reconciliation and the cleanup run as timers in each process. Nothing else is shared, and no action waits for another except through row locks
and the exclusion constraint on `lab_bookings`.

## 2. Modules

| Module | Models | Role |
|---|---|---|
| `LabRules` | `labs/rules.ts` | operators on data: calendar, slots, validation, weekly time, table of moves |
| `BookingLedger` | what lab booking promises | abstract specification: four kinds of step on status, slot and outcome |
| `LabBooking` | `labs/service.ts` with `labs/manage.ts` | calls that read, then commit; settings and staff that change under them |
| `EmailOutbox` | `email/outbox.ts` with `email/send.ts` | the queue with its leases and time, and calls that overrun them |
| `MailLedger` | what the mail queue promises | abstract specification: what holds of every message, and what holds as long as it is not late |
| `ScanLedger` | what the attendance server promises a device | abstract specification: an event is decided once, and once more if it was held |
| `ScanIntake` | `labs/attendance-qr.ts` with `lib/lab-qr/decide.ts` | batches decided event by event, pairing and closing under the booking's lock, reviews |
| `DeviceOutbox` | `lib/lab-qr/client/outbox.ts`, `public/sw.js`, `lab-device/device-app.tsx` | pages and Background Sync of one browser, against the server of `ScanLedger` |
| `HackathonTeams` | `hackathons/actions.ts` on its tables | handlers without transactions, statement by statement |
| `Applications` | `applications/*`, `storage/reconcile.ts`, the content side of `members/anonymise.ts` | an application's life, its documents in the store, the reconciliation |
| `Accounts` | `auth/*`, `members/actions.ts`, the account side of `members/anonymise.ts` | accounts, links, sessions, and what super admins do |
| `...Proofs` | - | theorems about the module they are named for, and their proofs |
| `MC...` | - | values of the constants for the runs |

`LabBooking` EXTENDS `LabRules` and instantiates `BookingLedger` under a refinement mapping
(`Ledger`: status, slot and outcome of each row). `ScanIntake` instantiates `ScanLedger` with its table of
events for `verdict`. `EmailOutbox` instantiates `MailLedger` with the status, text and attempts of each row,
the messages that some call is sending for `handed`, the delivered ones for `taken`, and the history variable `late` for itself. `DeviceOutbox` uses the actions of the same `ScanLedger` for its server, so the
two meet there. What the ledger does not say, how an answer is made, is modelled in both: the intake's
`AnswerAgain`, `FindStored` and `StoreReplay` are the outbox's `Look`, `Persist` and `StoreReplay`.

In every module a handler is cut where another may come between: `Begin...` is what it reads before its
transaction or its first write, in one step, and each transaction, or each statement outside one, is a
step of its own. A call that the code refuses before it writes changes nothing and is not a step. `Crash`, `Die` or
`Stop` cuts a call short at any such point.

### LabBooking: state and actions

`booking`, `attendance` and `audit` are the tables `lab_bookings`, `lab_attendance` and the
booking's rows of `audit_logs`; `lab`, `hours`, `blackouts`, `staff` are the settings tables; `now`
is the clock that each handler reads once. `call[c]` is a server action in progress: what it is to do, for
whom, on which booking, and what it read of that booking.

A handler is two actions. `Begin...` is everything before the transaction (authorisation, the
read of the booking, the checks); `Commit...` is the transaction. The `where status = ...` of
every update is `StillAsRead`; when it matches no row the call ends with `LoseRace`. A request is
three: `BeginRequest` validates, `LockAndCount` takes the lock of the person's row and counts, and
`CommitRequest` inserts or `RefuseRequest` reports the exclusion constraint. `NoConflict` is that constraint. A call
that the code refuses before its transaction changes nothing and is not a step. `Crash(c)` cuts a
call short: the process dies, or PostgreSQL aborts its transaction (a deadlock included).

| Code | Actions |
|---|---|
| `requestBooking` | `BeginRequest`, `LockAndCount`, `CommitRequest`, `RefuseRequest` |
| `decideBooking` | `BeginApprove/Reject/Propose`, `CommitApprove/Reject/Propose`, `LoseRace` |
| `respondToProposal` | `BeginAccept`, `CommitAccept`, `RefuseAccept`, `BeginDecline`, `CommitDecline` |
| `cancelBooking` | `BeginCancel`, `CommitCancel` |
| `markAttendance` | `BeginMark`, `CommitMark` |
| `getAvailability` | `Availability` (a read, used by a property) |
| `updateLab`, `setLabHours`, `addBlackout`, `removeBlackout`, `addLabStaff`, `removeLabStaff` | one action each |

Abstractions. One lab, whose row exists. Every booking is for one person, so capacity is only the
bound of the validation. Notes, notices and e-mails are left out: nothing reads them back. The
eligibility of a person to book is the constant `Members`. All reads of a handler before its
transaction are one step; a settings action is one step. Two closed periods with the same dates
are one element of a set. A transaction that waits on the exclusion constraint for another's
uncommitted row is modelled at its commit, where the constraint decides. Opening windows of one day never
overlap, because `setLabHours` refuses such hours. Time is in instants, as a `Date` is:
`MinuteLength` instants make a minute, `DayLength` minutes a day, `WeekDays` days a week. Hours and blocks are
in minutes; starts, ends and the clock are instants, and `Minute` drops the rest as `istParts` drops the
seconds, which is why a request can be taken off the grid (section 5). Where `MinuteLength` is 1 the
question of the run has nothing to do with it.

### EmailOutbox: state and actions

`outbox[m]` is a row of `email_outbox`; `call[c]` an attempt in the air, with the messages its
worker has claimed and not yet handled; `delivered` what the provider has taken. `next_attempt_at`,
`expires_at` and the age of the row are timers that count down with `Tick`. `late` is a history
variable: the messages that some call has held when their lease ran out. A worker claims up to 20 messages under one lease
of two minutes and attempts them one by one, for up to about 25 seconds each, so that messages can be late
with the code's own constants; the model puts no bound on a batch against a lease, and the properties say what holds of late
messages and what only of the others.

| Code | Actions |
|---|---|
| `sendDurably` | `SendDurably` |
| `requeue` | `Requeue` |
| `processDue` | `Claim` (blank old bodies, claim a batch), `GiveUp`, `Begin` |
| `attempt` | `Deliver`, `MarkSent`, `MarkFails`, `CountFailure`, `WriteVerdict` |
| the process, the clock | `Crash`, `Tick` |

Abstractions. The two statements of `processDue` that blank bodies and claim touch rows of
different statuses and are one step. A batch is any sequence of due messages: rows that became
due at different times are equal once their timers are at zero, so the order by
`next_attempt_at` is not kept. The number of attempts stops at `MaxAttempts`, which is all the
code asks about. `AttemptTime` only bounds how long one attempt keeps time from passing elsewhere, for the
sake of `Settled`; nothing else depends on it. An attempt that ends in an error or a timeout may have been taken by the
provider all the same (`Deliver`). A send that skips the table
because the row could not be stored, or because `EMAIL_OUTBOX` is off, changes no row and is left out.

### ScanIntake: state and actions

`events`, `check`, `booking` and `attendance` are the tables `lab_scan_events`, `lab_qr_checks`, and the one
booking with its attendance row; `lock` is the row lock of that booking; `request[r]` is a request at
work: its batch, what it has decided about the event at the head, and the keys and roles that
`memoisedLookups` remembers for the request. `told` is the last answer to the device about each event.

| Code | Actions |
|---|---|
| `submitScanBatch`, `processEvent` | `Submit`, `AnswerAgain` (seen before), `DecideScan` |
| `persist` | `FindStored`, `StoreUncounted`, `InsertAccepted`, `CodeUsed`, `StoreReplay` |
| `pairAndRecord` | `PairAndRecord` (`Pairs`, `CloseBooking`) |
| `decideReview` | `BeginReview`, `AlreadyDecided`, `Decline`, `Approve` |
| the devices | `MakeScan` |
| `markAttendance`, `cancelBooking`, `revokeDeviceKey`, `removeLabStaff`, the clock, the process | `MarkAttendance`, `CancelBooking`, `RevokeKey`, `LoseDuty`, `Tick`, `Crash` |

Abstractions. One booking, with one key on each side. Only events whose tokens verify, name this
booking and are submitted by their scanner, and whose inner step is current, are modelled: the others
are refused by what they say alone, and leave no trace that anything here reads. Instants are small numbers. `Effective`
takes the correction of a fast or slow clock as exact: the difference the server computes also has the request's
travel time in it.

### DeviceOutbox: state and actions

`outbox` is the device's store of items; `known` the identity it remembers; `page[p]` whom a page
works for; `flush[f]` the flush in progress in a page or in Background Sync, with the batch it has read and
the answers it got; `session` who is signed in in the browser; `verdict` what the server has stored.

| Code | Actions |
|---|---|
| `resolveIdentity`, `boot` | `Open`, `OpenSignedOut`, `OpenOffline` |
| `Outbox.enqueue` | `Enqueue` |
| `Outbox.flush`, `fetchSender`, `syncNow` | `Begin`, `Send`, `SignedOut`, `Answered`, `Unanswered`, `WriteError`, `WriteResult` |
| `flushOutbox` of the service worker | the same with `WriteResults` |
| `processEvent`, `decideReview` | `Handle`, `HandleStray` (a request nobody waits for any more), `Review` |
| the person, the browser | `SignIn`, `SignOut`, `Stop` |

The server handles an event in the steps of `processEvent`, between which other submissions of it come: `Look` reads the stored event,
`Persist` decides and stores, and if the code that was scanned is in use `StoreReplay` stores a rejection where nothing is stored and
answers without reading again. Accounts may change under open pages and pages may work offline with keys that are not registered: the code
forbids neither. Two history variables name what follows: `misdirected`, the scans sent by a page under another person's session or
before their key was registered, and `replayed`, those answered as a replay though another submission had stored them.

Abstractions. A signature is who signed; a key is registered when a page is opened online. The code that was scanned is one
whose key the server knows, because the device checks it against the keys of its roster before it queues anything (`flows.ts`). A page runs one
flush at a time here: several of one page at once are covered by several pages. When a page flushes (on opening, coming online, becoming
visible, a press of the button, a scan) is left open: `Begin` may happen at any time, and never has to.

### HackathonTeams: state and actions

`registered`, `team`, `members`, `entry`, `votes` are the tables of one hackathon, `event` its row with the
status, the largest team size and whether voting is on, `call[c]` a server action with the ids of the rows it has read. `hackathons/actions.ts` opens no
transaction, so every statement after the reads is a step; unique indexes are guards or failures of
the inserts, cascades are part of the deletes.

| Code | Actions |
|---|---|
| `registerForHackathon`, `upsertHackathonEvent` | `Register`, `SaveEvent` |
| `createTeam`, `joinTeamByCode` | `BeginCreate`, `InsertTeam`, `BeginJoin`, `InsertMember` |
| `disbandTeam` | `BeginDisband`, `Reread`, `DropEntry`, `DropMembers`, `DropTeam` |
| `transferLeadership`, `leaveTeam` | `BeginTransfer`, `Promote`, `Demote`, `Rename`, `BeginLeave`, `DeleteMine` |
| `saveSubmissionDraft`, `submitProject` | `BeginSave`, `InsertDraft`, `UpdateDraft`, `BeginSubmit`, `Submit` |
| `toggleCommunityVote` | `BeginVote`, `Cast`, `Withdraw` |

What the code does not keep when calls overlap (section 5) is not hidden by the properties: `upset` is
a history variable with the teams on which calls overlapped or died, or whose leader handed the team to themself,
and `LeaderOfTeam` and the second half of `SubmittedKept` speak of the others; `TeamSize` also says by how much an upset
team may be too large. The team a call died on half way, or that was handed over twice at once, is a hazard that no property forbids, as the
code allows it. `SaveEvent` changes the size without asking for the teams there are, as the code does, so
that `TeamSize` measures against `allowed`, the largest size the event has had. The reads of a call are one step. The windows for registration
and submission, the smallest size and the other fields of an event are left out: they only refuse calls.

### Applications: state and actions

`status`, `answer`, `document`, `snapshot` and `trail` are an application with its answer, document, frozen
questions and audit rows (the notification of a move is written in the transaction of its audit row, and not told apart); `bucket`
is the object store and `old` its objects past the grace period; `worker` what the reconciliation remembers.

| Code | Actions |
|---|---|
| `startApplication`, `saveAnswer` | `StartApplication`, `BeginAnswer`, `SaveAnswer` |
| `uploadDocument`, `putFile`, `deleteFile` | `BeginUpload`, `PutFile`, `Attach`, `Discard` |
| `submitApplication` | `BeginSubmit`, `Submit` |
| `changeApplicationStatus` | `BeginDecide`, `Decide` |
| `anonymiseMember` | `Anonymise`, keeping or scrubbing the content |
| `reconcileDocuments`, `planReconciliation`, `listFiles` | `ListFiles`, `ReadRows`, `Plan`, `Recheck`, `Remove` |
| staff, mailbox, time | `EditProgram`, `VerifyEmail`, `GrowOld` |

Abstractions. One question and one document, each required or optional, stand for the form. Review notes and decision times are left out.
The e-mail after a move is `EmailOutbox`'s matter. The grace period is longer than any upload takes, as the
comment in `reconcile.ts` has it; the guards of ten objects and of half of twenty are constants; the
worker is in apply mode.

### Accounts: state and actions

A row of `users` is `life`, `active`, `password`, `verified`, `google` and `role`; `sessions` is the set of
rows that have a session; `links` the rows of `verification_tokens`. A password is known by who chose it: `typed`
at sign-up by whoever it was, or `owner` for one set through a link. `crossed` is a history
variable: the rows that were anonymised while a call was about to sign their member in or to link an identity.

| Code | Actions |
|---|---|
| `signUpWithPassword`, `sendVerificationEmail`, `issueToken` | `SignUp`, `LookUp`, `DropLinks`, `NewLink` |
| `requestPasswordReset`, `resetPassword` | `RequestLink`, `Reset` |
| `confirmEmailVerification` | `Confirm` |
| `loginWithPassword`, `createDatabaseSession`, `destroyDatabaseSession` | `Login`, `OpenSession`, `CloseSession` |
| `signIn` and `linkAccount` of `auth/config.ts`, `google-link.ts` | `GoogleSignUp`, `GoogleSignIn`, `GoogleLink`, `LinkGoogle` (Auth.js itself, external), `MarkVerified` |
| `setMemberActive`, `setStaffRole`, `anonymiseMember` | `BeginStaff`, then `SetActive`, `SetRole`, `Anonymise` |

Abstractions. The grant and the step-up before linking Google are one guard. Audit rows, profiles and the throttling of password
checks are left out. The first super admins are seeded.

## 3. Runs

| Run | Instance | Question |
|---|---|---|
| `booking_members` | two members, an administrator, two rows, two calls, a day of two blocks | can any interleaving of requests, proposals and answers book a time twice, and does every call end? |
| `booking_limits` | one member with two tabs, a day of three blocks, limit one open request and two blocks a week | do the limits survive two tabs, decisions and attendance in between? |
| `booking_races` | one booking, three calls at once, every handler, crashes | is there one winner, is it a `BookingLedger`, is the audit trail unbroken, are the proposed time and the cut-off kept? |
| `booking_settings` | one request, an administrator and a head who change hours, closed dates, settings and staff | is an assistant named whenever the settings require one? |
| `booking_calendar` | the same without the head, and two instants to a minute | is what the calendar shows free what a request gets, and what else does a request get? |
| `email_outbox` | two messages, a worker, one request or resend at a time, one crash or failed statement, two attempts, a lease of one, which even a single attempt can overrun | are two senders always the fault of a lease, is no text lost, is the queue a `MailLedger`, is every message settled? |
| `scan_intake` | a pass scanned twice and a challenge scanned once, two requests, batches of two, one thing from outside | do the halves of an exchange always find each other, does a code count once, are answers what is stored, does a closed booking stay closed, is it a `ScanLedger`? |
| `claim_verified` | the same | violated: a verified check-in whose booking is a no-show (section 5) |
| `device_outbox` | two people, one of them with an unregistered key, one page and Background Sync, two scans, two faults | which scans are lost, is the result the server's, does a scan get its answer if its owner keeps coming back? |
| `hackathon_teams` | three people, two teams, sizes of one and two, two calls at once, five in all, the event saved three times | what holds however statements interleave, and what holds for teams without overlaps? |
| `applications` | one application, two objects, two calls at once, six in all, three states of the program | is nothing attached ever lost, is what is submitted valid, is the trail a legal path? |
| `accounts` | two super admins, two rows for one address, two tokens, two calls at once, five in all | is there always an admin, is a password its owner's, what can come back to an erased account? |

Why the bounds are enough. A double booking, a lost update or a gap in the audit trail needs two calls on one or
two rows; a third call shows that the loser of one race may win the next. Two blocks give
slots that touch, coincide and contain one another; slots that overlap only partly need three, and are covered by
the theorem `NeverDoubleBooked`. A minute of two instants has a start on the minute and one between minutes. The weekly cap needs a session that is
attended, one that is live and one that is asked for: three blocks. The settings and calendar runs have days of two
minutes, blocks of one or two, a window that holds half a block of the longer setting on either side
of midnight, a notice, a horizon of one day, so every boundary of the grid is crossed; weeks of two days cross the week.
The queue needs two messages in a batch for the second to wait under its lease, two calls, a worker's and a
request's, to contend for it, and two attempts so that the first failure is retried and the last is not; the lease is short enough for every
call to overrun it, and a call need not.
A lost exchange needs both halves in two requests, and a code used twice a second scan of one pass. Every tolerance
is one instant, which is as late as a scan can be here: what is held for review in the run is held for a revoked key or a no-show, never because the
scan is late or its clock fast. The fast clock of the third scan only puts the two halves up to two instants apart, on both sides of the pair window of one.
The theorems hold for any tolerances and clocks. The outbox needs a second flush, that of Background Sync, to write back what it read before the first one's
answer, and a second person for the session to be another's; that person's key is not registered at first. A person on two teams, two leaders or one place too many needs two calls
and at most three people; five calls let a team be made, fill in and submit an entry, and be voted for and disbanded at once. An object is
lost by an upload and the reconciliation at once, or by two uploads: two calls, two objects. The
admins lock each other out with two calls; a taken-over password needs a sign-up, a link, a confirmation and one call under way,
and the second row of an address shows a sign-up after erasure. What the bounds cut off, the theorems of section 4 cover.

Bounds are constants: `BookingIds`, `Calls`, `Handlers`, `Horizon`; for the queue `Messages`, `Workers`, `Requests`,
`MaxCrashes`; for the others `Requests`, `MaxBatch`, `MaxUpsets`, `MaxFaults`, `MaxMoves`, `MaxCalls`. Symmetry is used in runs without liveness only. Deadlock is checked where something can always happen (in `LabBooking` an administrator can change
the lab's settings, in `Applications` staff the program); it is not where people may just stop, or the bound on calls is used up
(the device, hackathon and account runs).

Fairness. `LabBooking` assumes that the server runs a call it has started (weak fairness of
its end) and that a call waiting for a row lock is not passed over for ever, as PostgreSQL queues
the waiters (strong fairness of `LockAndCount`). Nobody is assumed to decide, answer or cancel
anything. `EmailOutbox` assumes that a process takes the steps before it, that time passes, and
that the retry loop, a `setInterval` in each process, keeps waking up; nothing is assumed about the provider's answers, and
crashes are never fair, only bounded. `DeviceOutbox` assumes only that a flush under way goes on: the browser runs it, and the server
answers or the request fails. A page has no timer, so nothing makes it begin a flush; that the person comes back again and again, signed in, and lets the
page flush (`FlushOwn`: by opening it, pressing the button, scanning) is a premise of `Delivered`, not an assumption. The other modules promise nothing that must happen: their calls end by themselves or die.

## 4. Theorems

All are for any values of the constants that the named assumptions of the modules allow; none of them has
the bounds of the runs.

`LabBookingProofs`, for any persons, settings, rows and calls:

- `TypeCorrect`: the type invariant. It is not inductive alone: `TypeInv` adds what a call knows
  (`CallsKnow`: the status it read permits the move it will make) and that an existing row has an owner. Every action is one lemma or one
  step of a lemma.
- `Refinement`: `Spec => ImplementsLedger`. Each commit maps to the ledger's step
  (`CreateStep`, `MoveStep`, `RebookStep`, `CloseStep`), everything else to a stutter; `CallsKnow` and
  `StillAsRead` give the ledger's guards.
- `NeverDoubleBooked` and `OutcomesRecorded`: from `Refinement` and the ledger's own invariant
  (`BookingLedgerProofs`, `LedgerSafe`), which is short because the ledger has four kinds of step.
- `TrailUnbroken`: the audit trail, from what a step may do to a row (`StepRows`).
- `AcceptedTime`, `CutoffHolds`, `AssistantRule`: action properties about a call that reads first and writes later. `ReadInv` says how
  much of what it has read still holds when it writes; what has changed meanwhile makes the guarded update find no row.
- `LimitHolds` and `WeeklyCapHolds`: the limits, from `LockHeld` and `CapInv`: whoever holds the lock on a member's row is alone, has counted the
  open requests and has summed up the week (`CapHeld`), and only the insert that follows can add to either. Who has accepted a
  proposal has left a row in the audit trail for ever (`RebookedStays`, from `TrailUnbroken`'s invariant), so for everybody else no slot ever moves.
  `LimitAssumption`: finitely many rows, and limits that are numbers.

  The sum is the fold of the community modules over a finite set. That it is a number, splits off any element, and only grows with the set is proved
  without induction: among the subsets of a finite set for which it failed there would be a smallest one (`Least`, from the well-founded order
  on finite subsets), and `SumUnique` and `SumExists` rule that out.
- `CalendarTrue`: in every reachable state, what `generateSlots` cuts from the opening hours and the calendar shows free is let through by
  `problemWithRequest` and the constraint, and the other way about for requests of one block that start on a whole minute; a request that starts between minutes is let
  through only within the first minute of a block. The two are different arithmetic, blocks counted by division from an opening, and remainders
  of a truncated minute's distance from it; it holds for minutes, days, weeks, blocks and windows of any length under
  `SettingsAssumption`, what the schemas of `updateLab` and `setLabHours` (`manage.ts`) let through: blocks, capacity and consecutive blocks
  of at least one, and windows that lie within a day.

`EmailOutboxProofs`, for any finite set of messages and any processes, limits and times:

- `TypeCorrect`, and `NothingEmpty`: a waiting message has its text.
- `OneSender`, `SentForGood` and `NoTextLost`, for any lease and any duration of attempts and batches. The inductive invariant `LeaseInv`
  says that a message that a call holds and that is not late waits under a lease that has not run out (`LeaseHeld`), and that no other call holds it
  (`Alone`): a claim takes messages whose lease is over, and `Tick` makes late what is held when its lease runs out. `NoTextLost` adds that an
  accepted message is among the delivered ones. `SentForGood` (`SentNotRequeued`) needs none of it: a settled row without a text stays so,
  whatever late calls write, because only a row with its text can be put back.
- `Refinement`: `Spec => ImplementsLedger`. `QueueInv` adds to the above that a call about
  to write a message off as dead has counted its last failure (`VerdictHolds`). `SendDurably` and `Requeue` map to `Submit`, beginning an attempt maps to `HandOver`, its
  end, a crash included, to `Answer`, the counted failure to `Fail`, each fate to `Settle`, and a tick that makes messages late to `Overrun`; a claim, a backoff and
  other ticks are stutters, except that a claim may blank old texts. Every fate is written `WHERE id = ...` and nothing else. For a message that is not late
  the row it finds is one that waits and that nobody is sending, which the ledger asks for; of a late one the ledger promises no more than the code does.

`ScanIntakeProofs`, for any events, requests and tolerances. `IInv` adds to the types that only the request
that the lock names is inside a transaction (`LockInv`), what such a request has found there (`HeldInv`), that only
scans that were made are stored (`MadeInv`), and that a replay is only decided for a code that an accepted event has (`ReplayInv`):

- `NoExchangeMissed` (`PairIsVerified`): two matching accepted halves always end in a verified check. It needs the lock: whichever
  transaction commits second sees the other half.
- `OneUseOfACode`, `AnswersAreTrue`, `ClosedForGood`, and `OutcomesAgree` and `VerifiedHasItsHalves`, which are proved only.
- `Refinement`: the intake implements `ScanLedger`; storing is its `Decide`, a review its `Settle`, everything else a stutter.

`DeviceOutboxProofs`, for any people, pages, batches and faults, and however sessions and pages change: `TypeCorrect`; `ResultsAreTrue` and `QueueKeeps`, from
`RecordedInv` and its like for flushes and stray requests: whatever a device records or a flush carries agrees with what the server has stored, is a refusal of a
misdirected scan, or is the answer to a replay that was stored meanwhile; and verdicts only move forward.

`HackathonTeamsProofs`, for any people, teams and calls, and without any assumption on overlaps: `TypeCorrect`, `OneTeamEach`, `VotesStand`. They
are proved together (`IInv`), with who a call acts for (`ActorInv`) and what each step of a call may still rely on (`RowInv`): rows may be gone
and made again by then, and only the indexes and cascades keep the tables whole. `SubmittedStands` follows from `QuietInv`: on a team that is not
upset one call is at work, and it found no submitted entry. `LeadersStand` says who leads a team after each statement of the call about it
(`LeadInv`). It also needs that one call makes a team (`FreshInv`), that a call handing over remembers memberships of its team (`HandInv`), and that who
is about to come or go has nothing else of that kind under way (`ComeAndGo`). Each write is first reduced to what it does to calls, memberships and team
rows (`StepFacts`); then the team it is about (`HomeKept`) and all the others (`ElsewhereKept`) are looked at apart. `TeamsFit` counts: the members of a team and the calls about to join it
fit into `allowed`, which never shrinks, as long as at most one call is at work there; each further call adds one (`RoomInv`).

`ApplicationsProofs`: `TypeCorrect`; `NoneLost`, whose `StoreInv` says that an object belongs to one row or one call, that a call which has put an
object that no row names yet holds it young, and that the reconciliation only plans what is old and was in nobody's hands; `FrozenStands` and `TrailStands`, from
`LifeInv`, which ties status, snapshot, answer and trail.

`AccountsProofs`: `TypeCorrect`; `NeverLockedOut`, since a call about a super admin is by another one and asks again inside its
transaction (`ActorsDiffer`, `otherActiveSuperAdmins`); `PasswordsOwned` and `ErasedForGood`, together (`OwnInv`), with what a sign-in or a Google callback under way
knows of its row (`CallsOwn`). For `ErasedForGood`, `Blank` says that an erased row has neither password nor known address, and `Quiet` that one
which was not `crossed` has no identity, no session, and no call about to give it either.

Every invariant and every action property that a run checks is stated by a theorem. Only model-checked are the liveness
properties `CallsEnd`, `Settled` and `Delivered`, since liveness under fairness is outside the prover's reach.

## 5. Disagreements found

Shown by a run that violates what the code says of itself:

- `claim_verified`: a scan is decided on the booking read before the lock, and a review reads none, so a check-in can be verified
  while its booking was closed as a no-show. The comment at the closing calls them the same fact.

Met in the code and described by a property that holds; each names the case exactly, and the model reaches it:

- Messages late in a batch outlive its lease, and a second worker sends them at the same time (`email/outbox.ts:174`). The head comment of the
  file says that this never happens. `TwiceOnlyIfLate` says that nothing else makes it happen.
- The seconds of a requested start are dropped before it is checked, so that 09:00:30 to 10:00:30 is booked where only 9:00 to
  10:00 is offered (`rules.ts:120`); the operations guide says that a booking starts on a block boundary. `CalendarHonest` says how far off the grid it can be.
- A page that stays open when another person signs in turns a scan into a final refusal that the server never stored
  (`lib/lab-qr/client/outbox.ts:88`), against the comments of `sw.js` and `wipe.ts`. `LostOnlyIfMisdirected` says that only this and an unregistered key lose scans.
- A Google link under way when its account is anonymised leaves an identity on it, and reactivating the row lets that identity in
  (`anonymise.ts:95`), against the comment two lines above. `ErasedStays` says what does hold.

The others, met in the code while it was modelled. All are listed with their lines and the words they contradict in `PROJECT.json`:

- Lab booking: accepting a proposal does not count the week (`service.ts:310`), and a request can be approved into a date closed since, if the
  lab is switched off (`service.ts:242`); the model has both. The number of bookings that a closure reports includes one that
  starts at midnight after it (`manage.ts:180`).
- Device: a scan signed with a key that is not registered yet is refused for good (`outbox.ts:83`); the model has it. Two registrations of keys at once pass the limit of five.
- Hackathons: a late save or disband rewrites a submitted entry (`actions.ts:570`), a leader can hand the team to themself (`:427`): the variable
  `upset`. A voter may join the team voted for (`:700`).
- Applications: an answer under way when a draft is scrubbed writes content back (`actions.ts:138`).
- Accounts: two requests at once leave two links (`tokens.ts:37`), a reset of a deactivated account uses up the link (`actions.ts:286`); the model has both.
  Anonymising deletes links by a pattern in which an underscore is a wildcard (`anonymise.ts:96`).

## 6. Not modelled

The order of modelling was the order of consequence: bookings, mail, attendance and its devices, teams, applications, accounts. What
is left, and why:

- Judging of hackathons (assignments, scores) and announcements: upserts by one judge on one's own row. Registration of device keys: its limit
  is a finding; the intake takes keys as given, and revokes them.
- Lab departments: an administrator's tree, where two moves at once can make a cycle (a listed hazard); no booking decision depends on it.
- Event registration: one insert under an advisory lock; the capacity is the CMS's.
- Settings actions of `LabBooking` are one step each, though `removeLabStaff` reads before it deletes; foreign-key locks, behind a
  deadlock that `PROJECT.json` lists, are seen only as a call that is cut short.
- Throttling of requests and password checks: a throttled call is one that does not begin. Onboarding: sequential. Maintenance: it
  deletes expired rows that are refused already.
- Screens, reports, exports and the admin console are reads; the CMS, its generated types and the migrations are configuration and data;
  mail transport and malware scanner are input and output.

Most of the repository's lines are of this last kind: React pages and components, generated types, migrations and
content. The map covers the handlers that decide and write.

## 7. Running

`tlc -config BookingRaces.cfg MCLabBooking.tla` checks a run, `tlapm LabBookingProofs.tla` checks
a proof module. `PROJECT.json` lists the runs with their properties, for each property a fault in a
named definition that breaks it (the operators marked `Fault:`), the source lines of every
definition, the hazards and the theorems.

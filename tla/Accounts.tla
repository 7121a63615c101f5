------------------------------- MODULE Accounts -------------------------------
(***************************************************************************)
(* Accounts, the links that are e-mailed, sessions, and what super admins  *)
(* do to members: src/src/server/auth (actions.ts, tokens.ts, session.ts,  *)
(* config.ts, active-only-adapter.ts) and src/src/server/members           *)
(* (actions.ts, anonymise.ts).                                             *)
(*                                                                         *)
(* A row of users is made for an address, and loses it when the member is  *)
(* anonymised.  Whoever opens a link reads the mailbox of its address; a   *)
(* sign-up proves nothing of the kind.  A call may die between its steps.  *)
(***************************************************************************)
EXTENDS Naturals, FiniteSets

CONSTANTS
  Users,        \* rows, those to come included
  Addresses,
  Mail,         \* the address that each row is made for
  Tokens,       \* of links
  FirstAdmins,  \* the super admins that are seeded
  Calls,        \* server actions at work at the same time
  MaxCalls,     \* calls in all (bounds the model)
  None          \* no row

ASSUME AccountsAssumption ==
  /\ Mail \in [Users -> Addresses]
  /\ FirstAdmins \subseteq Users /\ FirstAdmins # {}
  /\ \A u, v \in FirstAdmins : Mail[u] = Mail[v] => u = v
  /\ None \notin Users
  /\ MaxCalls \in Nat

VARIABLES
  life,       \* of a row: not inserted yet, a member's, or of a former member, without address
  active,     \* isActive
  password,   \* none, as typed at sign-up, or by one who reads the mailbox
  verified,   \* emailVerified
  google,     \* whether the Google identity of the address is linked
  role,       \* staffRole
  sessions,   \* the rows that sessions name
  links,      \* the rows of verification_tokens
  call,       \* the server actions at work
  made,       \* how many calls there have been
  crossed     \* history: the rows that were anonymised while a call was about to sign their member in

users == <<life, active, password, verified, google, role>>
vars == <<users, sessions, links, call, made, crossed>>

-----------------------------------------------------------------------------
(* Types and initial states. *)

Purposes == {"verify", "reset"}
Link == [token : Tokens, purpose : Purposes, address : Addresses, state : {"good", "expired"}]

Steps == { "idle", "look up", "drop links", "new link", "open session", "link google", "mark verified",
           "set active", "set role", "anonymise" }

\* A call about the row who; a super admin's is by actor, and value is what it sets, what a link is for, or
\* whether a Google identity comes with a new row.
Call == [ at : Steps, who : Users \cup {None}, actor : Users \cup {None},
          value : Purposes \cup {"yes", "no", "none", "staff", "super", "new", "linked"} ]

At(at, who, actor, value) == [at |-> at, who |-> who, actor |-> actor, value |-> value]
Idle == At("idle", None, None, "none")

\* What a call needs for its next step; rows are those that have been inserted.
Prepared(r, rows) ==
  /\ r.at # "idle" => r.who \in rows
  /\ r.at \in {"drop links", "new link"} => r.value \in Purposes
  /\ r.at = "set active" => r.value \in {"yes", "no"}
  /\ r.at = "set role" => r.value \in {"none", "staff", "super"}

Rows == { u \in Users : life[u] # "free" }

\* The row with an address (users.email is unique).
Holds(u, a) == life[u] = "member" /\ Mail[u] = a

TypeOK ==
  /\ life \in [Users -> {"free", "member", "former"}]
  /\ active \in [Users -> {"yes", "no"}]
  /\ password \in [Users -> {"none", "typed", "owner"}]
  /\ verified \in [Users -> {"yes", "no"}]
  /\ google \in [Users -> {"yes", "no"}]
  /\ role \in [Users -> {"none", "staff", "super"}]
  /\ \A u, v \in Users, a \in Addresses : Holds(u, a) /\ Holds(v, a) => u = v
  /\ \A u \in Users \ Rows : verified[u] = "no" /\ google[u] = "no"
  /\ sessions \subseteq Rows
  /\ links \subseteq Link
  /\ call \in [Calls -> Call]
  /\ \A c \in Calls : Prepared(call[c], Rows)
  /\ made \in 0 .. MaxCalls
  /\ crossed \subseteq Users

Init ==
  LET admin(yes, no) == [u \in Users |-> IF u \in FirstAdmins THEN yes ELSE no] IN
  /\ life = admin("member", "free")
  /\ active = [u \in Users |-> "yes"]
  /\ password = admin("owner", "none")
  /\ verified = admin("yes", "no")
  /\ google = [u \in Users |-> "no"]
  /\ role = admin("super", "none")
  /\ sessions = {} /\ links = {}
  /\ call = [c \in Calls |-> Idle]
  /\ made = 0
  /\ crossed = {}

-----------------------------------------------------------------------------
(* Calls. *)

Begin(c, new) ==
  /\ call[c].at = "idle"
  /\ made < MaxCalls /\ made' = made + 1
  /\ call' = [call EXCEPT ![c] = new]
  /\ UNCHANGED crossed

Goes(c, new) == call' = [call EXCEPT ![c] = new] /\ UNCHANGED made

Die(c) ==
  /\ call[c].at # "idle"
  /\ Goes(c, Idle)
  /\ UNCHANGED <<users, sessions, links, crossed>>

-----------------------------------------------------------------------------
(* Accounts and links. *)

\* Fault: nothing keeps a second row from the address.
Unclaimed_Unchecked(a) == TRUE

Unclaimed(a) == \A u \in Users : ~Holds(u, a)

\* A new row for its address.
Insert(u, typed) ==
  /\ life[u] = "free" /\ Unclaimed(Mail[u])
  /\ life' = [life EXCEPT ![u] = "member"]
  /\ password' = [password EXCEPT ![u] = typed]
  /\ UNCHANGED <<active, verified, google, role, sessions, links>>

\* A link to verify is for an address that is not, one to reset for a person who can sign in.
Wanted(a, purpose) ==
  \E u \in Users :
    /\ Holds(u, a)
    /\ purpose = "verify" => verified[u] = "no"
    /\ purpose = "reset" => active[u] = "yes" /\ (password[u] # "none" \/ verified[u] = "yes")

\* signUpWithPassword, by anyone, with or without a password; an address that is taken only gets a message.
SignUp(c, u, typed) ==
  /\ Insert(u, typed)
  /\ Begin(c, At("look up", u, None, "verify"))

LookUp(c) ==
  LET u == call[c].who IN
  /\ call[c].at = "look up"
  /\ Goes(c, IF Wanted(Mail[u], "verify") THEN At("drop links", u, None, "verify") ELSE Idle)
  /\ UNCHANGED <<users, sessions, links, crossed>>

\* sendVerificationEmail, requestPasswordReset, by anyone
RequestLink(c, u, purpose) ==
  /\ Holds(u, Mail[u]) /\ Wanted(Mail[u], purpose)
  /\ Begin(c, At("drop links", u, None, purpose))
  /\ UNCHANGED <<users, sessions, links>>

\* issueToken is a delete and an insert: two calls at once leave two links.
DropLinks(c) ==
  LET u == call[c].who IN
  /\ call[c].at = "drop links"
  /\ links' = { l \in links : l.purpose # call[c].value \/ l.address # Mail[u] }
  /\ Goes(c, At("new link", u, None, call[c].value))
  /\ UNCHANGED <<users, sessions, crossed>>

NewLink(c, t) ==
  /\ call[c].at = "new link"
  /\ \A l \in links : l.token # t
  /\ links' = links \cup {[ token |-> t, purpose |-> call[c].value, address |-> Mail[call[c].who],
                            state |-> "good" ]}
  /\ Goes(c, Idle)
  /\ UNCHANGED <<users, sessions, crossed>>

Expire(l) ==
  /\ l.state = "good"
  /\ links' = (links \ {l}) \cup {[l EXCEPT !.state = "expired"]}
  /\ UNCHANGED <<users, sessions, call, made, crossed>>

Established(u) == verified[u] = "yes" \/ google[u] = "yes"

\* Fault: the password of the sign-up is kept where the person gives none.
NeedsPassword_Not(u) == FALSE

\* An account that is being activated takes a new password.
NeedsPassword(u) == ~Established(u)

\* confirmEmailVerification: one transaction, and then a session.  Only a good link is used up, and only if a
\* password comes with it where one is needed.
Confirm(c, u, l, fresh) ==
  /\ l.purpose = "verify" /\ l.state = "good"
  /\ Holds(u, l.address) /\ active[u] = "yes"
  /\ NeedsPassword(u) => fresh = "owner"
  /\ links' = links \ {l}
  /\ IF Established(u)
       THEN UNCHANGED <<password, verified, sessions>>
       ELSE /\ verified' = [verified EXCEPT ![u] = "yes"]
            /\ password' = [password EXCEPT ![u] = IF fresh = "owner" THEN fresh ELSE @]
            /\ sessions' = sessions \ {u}
  /\ Begin(c, At("open session", u, None, "none"))
  /\ UNCHANGED <<life, active, google, role>>

\* resetPassword: one transaction.  It uses up any link, and changes an active account for a good one.
Reset(l) ==
  LET owner == { u \in Users : l.state = "good" /\ Holds(u, l.address) /\ active[u] = "yes" } IN
  /\ l.purpose = "reset"
  /\ links' = links \ {l}
  /\ password' = [u \in Users |-> IF u \in owner THEN "owner" ELSE password[u]]
  /\ verified' = [u \in Users |-> IF u \in owner THEN "yes" ELSE verified[u]]
  /\ sessions' = sessions \ owner
  /\ UNCHANGED <<life, active, google, role, call, made, crossed>>

-----------------------------------------------------------------------------
(* Sessions. *)

\* loginWithPassword, the password being right
Login(c, u) ==
  /\ life[u] = "member" /\ password[u] # "none" /\ active[u] = "yes" /\ verified[u] = "yes"
  /\ Begin(c, At("open session", u, None, "none"))
  /\ UNCHANGED <<users, sessions, links>>

OpenSession(c) ==
  /\ call[c].at = "open session"
  /\ sessions' = sessions \cup {call[c].who}
  /\ Goes(c, Idle)
  /\ UNCHANGED <<users, links, crossed>>

\* The last session of u goes: it is signed out, expires, or is read while u is not active.
CloseSession(u) ==
  /\ sessions' = sessions \ {u}
  /\ UNCHANGED <<users, links, call, made, crossed>>

\* What activeOnly finds for a session of u.
SignedIn(u) == u \in sessions /\ active[u] = "yes"

-----------------------------------------------------------------------------
(* Google. *)

Linked(a) == \E u \in Users : Mail[u] = a /\ google[u] = "yes"

\* A first sign-in makes a row; Auth.js links the identity next, and then calls back.
GoogleSignUp(c, u) ==
  /\ ~Linked(Mail[u])
  /\ Insert(u, "none")
  /\ Begin(c, At("link google", u, None, "new"))

GoogleSignIn(c, u) ==
  /\ google[u] = "yes" /\ active[u] = "yes"
  /\ Begin(c, At("open session", u, None, "none"))
  /\ UNCHANGED <<users, sessions, links>>

\* A member links the Google identity of the same address, having given the password.
GoogleLink(c, u) ==
  /\ life[u] = "member" /\ SignedIn(u) /\ password[u] # "none" /\ ~Linked(Mail[u])
  /\ Begin(c, At("link google", u, None, "linked"))
  /\ UNCHANGED <<users, sessions, links>>

LinkGoogle(c) ==
  LET u == call[c].who IN
  /\ call[c].at = "link google"
  /\ IF Linked(Mail[u])
       THEN Goes(c, Idle) /\ UNCHANGED google
       ELSE Goes(c, At("mark verified", u, None, call[c].value)) /\ google' = [google EXCEPT ![u] = "yes"]
  /\ UNCHANGED <<life, active, password, verified, role, sessions, links, crossed>>

\* Fault: the callback updates the row whatever its address is by now.
SameAddress_Ignored(u) == TRUE

SameAddress(u) == life[u] = "member"

\* events.linkAccount
MarkVerified(c) ==
  LET u == call[c].who IN
  /\ call[c].at = "mark verified"
  /\ verified' = IF SameAddress(u) THEN [verified EXCEPT ![u] = "yes"] ELSE verified
  /\ Goes(c, IF call[c].value = "new" THEN At("open session", u, None, "none") ELSE Idle)
  /\ UNCHANGED <<life, active, password, google, role, sessions, links, crossed>>

-----------------------------------------------------------------------------
(* Super admins. *)

SuperAdmin(u) == active[u] = "yes" /\ role[u] = "super"

\* requireStaffOrThrow, and never about oneself
BeginStaff(c, actor, u, at, value) ==
  /\ SignedIn(actor) /\ role[actor] = "super" /\ actor # u
  /\ life[u] # "free"
  /\ Begin(c, At(at, u, actor, value))
  /\ UNCHANGED <<users, sessions, links>>

\* Fault: what was read before the lock is trusted.
May_AsRead(actor, u, stays) == TRUE

\* Under the advisory lock the actor still is a super admin, and if u does not stay one, another does.
May(actor, u, stays) ==
  /\ SuperAdmin(actor)
  /\ stays \/ role[u] # "super" \/ \E v \in Users \ {u} : SuperAdmin(v)

SetActive(c) ==
  LET u == call[c].who
      value == call[c].value
  IN
  /\ call[c].at = "set active"
  /\ IF May(call[c].actor, u, value = "yes")
       THEN /\ active' = [active EXCEPT ![u] = value]
            /\ sessions' = IF value = "no" THEN sessions \ {u} ELSE sessions
       ELSE UNCHANGED <<active, sessions>>
  /\ Goes(c, Idle)
  /\ UNCHANGED <<life, password, verified, google, role, links, crossed>>

SetRole(c) ==
  LET u == call[c].who
      value == call[c].value
  IN
  /\ call[c].at = "set role"
  /\ IF role[u] # value /\ May(call[c].actor, u, value = "super")
       THEN role' = [role EXCEPT ![u] = value] /\ sessions' = sessions \ {u}
       ELSE UNCHANGED <<role, sessions>>
  /\ Goes(c, Idle)
  /\ UNCHANGED <<life, active, password, verified, google, links, crossed>>

\* A call about u is past its checks, and ends in an identity or a session for u.
SigningIn(u) ==
  \E c \in Calls : call[c].who = u /\ call[c].at \in {"link google", "mark verified", "open session"}

\* Fault: the Google identity stays on the row.
WithoutGoogle_Kept(u) == google

WithoutGoogle(u) == [google EXCEPT ![u] = "no"]

\* anonymiseMember, but for what it does elsewhere
Anonymise(c) ==
  LET u == call[c].who IN
  /\ call[c].at = "anonymise"
  /\ IF SuperAdmin(call[c].actor) /\ role[u] = "none" /\ life[u] = "member"
       THEN /\ life' = [life EXCEPT ![u] = "former"]
            /\ active' = [active EXCEPT ![u] = "no"]
            /\ password' = [password EXCEPT ![u] = "none"]
            /\ verified' = [verified EXCEPT ![u] = "no"]
            /\ google' = WithoutGoogle(u)
            /\ sessions' = sessions \ {u}
            /\ links' = { l \in links : l.address # Mail[u] }
            /\ crossed' = IF SigningIn(u) THEN crossed \cup {u} ELSE crossed
       ELSE UNCHANGED <<life, active, password, verified, google, sessions, links, crossed>>
  /\ Goes(c, Idle)
  /\ UNCHANGED role

-----------------------------------------------------------------------------
(* The specification. *)

Starts(c) ==
  \E u \in Users :
    \/ \E typed \in {"none", "typed"} : SignUp(c, u, typed)
    \/ \E purpose \in Purposes : RequestLink(c, u, purpose)
    \/ \E l \in links, fresh \in {"none", "owner"} : Confirm(c, u, l, fresh)
    \/ Login(c, u)
    \/ GoogleSignUp(c, u) \/ GoogleSignIn(c, u) \/ GoogleLink(c, u)
    \/ \E actor \in Users :
         \/ \E value \in {"yes", "no"} : BeginStaff(c, actor, u, "set active", value)
         \/ \E value \in {"none", "staff", "super"} : BeginStaff(c, actor, u, "set role", value)
         \/ BeginStaff(c, actor, u, "anonymise", "none")

Proceeds(c) ==
  \/ LookUp(c) \/ DropLinks(c) \/ \E t \in Tokens : NewLink(c, t)
  \/ OpenSession(c)
  \/ LinkGoogle(c) \/ MarkVerified(c)
  \/ SetActive(c) \/ SetRole(c) \/ Anonymise(c)

Next ==
  \/ \E c \in Calls : Starts(c) \/ Proceeds(c) \/ Die(c)
  \/ \E l \in links : Expire(l) \/ Reset(l)
  \/ \E u \in sessions : CloseSession(u)

Spec == Init /\ [][Next]_vars

-----------------------------------------------------------------------------
(* Properties. *)

\* There is always an active super admin, though two of them deactivate or demote each other at once, or one
\* acts after losing the role (KN-10).
AdminRemains == \E u \in Users : SuperAdmin(u)

\* Nobody signs in with a password that was typed at sign-up by whoever it was: as soon as the address is
\* known to be the person's, by a link or by Google, so is the password; and until then there is no session
\* (QA-004), whatever links are under way.
PasswordIsOwners ==
  \A u \in Users :
    /\ Established(u) => password[u] # "typed"
    /\ u \in sessions /\ life[u] = "member" => Established(u)

\* Anonymising is for good: no call that was under way gives the row a password or a known address again, and
\* unless one was about to sign the member in at that moment, nothing else does later that could: no Google
\* identity, no session, though the row is made active again.
ErasedStays ==
  \A u \in Users : life[u] = "former" =>
    /\ password[u] = "none" /\ verified[u] = "no"
    /\ u \notin crossed => google[u] = "no" /\ u \notin sessions
=============================================================================

---------------------------- MODULE AccountsProofs ----------------------------
(***************************************************************************)
(* What Accounts keeps for any number of people, links, sessions and       *)
(* overlapping calls: there is a super admin, passwords are those of the   *)
(* people whose addresses they guard, and anonymising is for good.         *)
(***************************************************************************)
EXTENDS Accounts, TLAPS

-----------------------------------------------------------------------------
(* Calls. *)

Values == Purposes \cup {"yes", "no", "none", "staff", "super", "new", "linked"}

LEMMA IdleCall == Idle \in Call /\ Idle.at = "idle"
  BY DEF Idle, At, Call, Steps, Purposes

\* The calls after a step of c.
LEMMA CallsAfter ==
  ASSUME TypeOK, NEW c \in Calls, NEW new \in Call, call' = [call EXCEPT ![c] = new], Rows \subseteq Rows',
         Prepared(new, Rows')
  PROVE  /\ call' \in [Calls -> Call]
         /\ \A d \in Calls : call'[d] = IF d = c THEN new ELSE call[d]
         /\ \A d \in Calls : Prepared(call'[d], Rows')
<1>1. call' \in [Calls -> Call] /\ \A d \in Calls : call'[d] = IF d = c THEN new ELSE call[d]
  BY DEF TypeOK
<1>2. \A d \in Calls : Prepared(call[d], Rows)
  BY DEF TypeOK
<1>3. QED
  BY <1>1, <1>2 DEF Prepared

LEMMA OneMore ==
  ASSUME NEW n \in Nat, NEW m \in 0 .. n, m < n
  PROVE  m + 1 \in 0 .. n
  OBVIOUS

\* A call that begins, and one that goes on, where the types of the tables are kept.
LEMMA CallsTyped ==
  ASSUME TypeOK, NEW c \in Calls, NEW new \in Call, Begin(c, new) \/ Goes(c, new), Rows \subseteq Rows',
         Prepared(new, Rows'), crossed' \subseteq Users,
         life' \in [Users -> {"free", "member", "former"}],
         active' \in [Users -> {"yes", "no"}],
         password' \in [Users -> {"none", "typed", "owner"}],
         verified' \in [Users -> {"yes", "no"}],
         google' \in [Users -> {"yes", "no"}],
         role' \in [Users -> {"none", "staff", "super"}],
         (\A u, v \in Users, a \in Addresses : Holds(u, a) /\ Holds(v, a) => u = v)',
         (\A u \in Users \ Rows : verified[u] = "no" /\ google[u] = "no")',
         sessions' \subseteq Rows', links' \subseteq Link
  PROVE  TypeOK'
<1>1. made' \in 0 .. MaxCalls
  BY AccountsAssumption, OneMore DEF Begin, Goes, TypeOK
<1>2. call' \in [Calls -> Call] /\ \A d \in Calls : Prepared(call'[d], Rows')
  BY CallsAfter DEF Begin, Goes
<1> QED
  BY <1>1, <1>2 DEF TypeOK

\* ... and where the tables are left alone.
LEMMA CallsOnly ==
  ASSUME TypeOK, NEW c \in Calls, NEW at \in Steps, NEW who \in Users, NEW actor \in Users \cup {None},
         NEW value \in Values, UNCHANGED <<users, sessions, links>>, crossed' \subseteq Users,
         Begin(c, At(at, who, actor, value)) \/ Goes(c, At(at, who, actor, value)),
         who \in Rows,
         at \in {"drop links", "new link"} => value \in Purposes,
         at = "set active" => value \in {"yes", "no"},
         at = "set role" => value \in {"none", "staff", "super"}
  PROVE  TypeOK'
<1> DEFINE new == At(at, who, actor, value)
<1>0. who \in Users \cup {None}
  OBVIOUS
<1>1. new \in Call /\ new.at = at /\ new.who = who /\ new.value = value
  BY <1>0 DEF At, Call, Values
<1> HIDE DEF new
<1>2. Rows' = Rows
  BY DEF Rows, users
<1>3. Prepared(new, Rows')
  BY <1>1, <1>2 DEF Prepared
<1>4. Begin(c, new) \/ Goes(c, new)
  BY DEF new
<1>5. UNCHANGED <<life, active, password, verified, google, role, sessions, links>>
  BY DEF users
<1> QED
  BY <1>1, <1>2, <1>3, <1>4, <1>5, CallsTyped DEF TypeOK, Holds

\* A call that ends where the tables keep their types.
LEMMA CallEnds ==
  ASSUME TypeOK, NEW c \in Calls, Goes(c, Idle), UNCHANGED life, crossed' \subseteq Users,
         active' \in [Users -> {"yes", "no"}],
         password' \in [Users -> {"none", "typed", "owner"}],
         verified' \in [Users -> {"yes", "no"}],
         google' \in [Users -> {"yes", "no"}],
         role' \in [Users -> {"none", "staff", "super"}],
         \A u \in Users \ Rows : verified'[u] = "no" /\ google'[u] = "no",
         sessions' \subseteq Rows, links' \subseteq Link
  PROVE  TypeOK'
<1>1. Rows' = Rows
  BY DEF Rows
<1>2. Prepared(Idle, Rows')
  BY IdleCall DEF Prepared
<1> QED
  BY <1>1, <1>2, IdleCall, CallsTyped DEF TypeOK, Holds

-----------------------------------------------------------------------------
(* Types. *)

LEMMA CallOf ==
  ASSUME TypeOK, NEW c \in Calls
  PROVE  /\ call[c].at # "idle" => call[c].who \in Rows /\ call[c].who \in Users
         /\ call[c].actor \in Users \cup {None} /\ call[c].value \in Values
         /\ call[c].at \in {"drop links", "new link"} => call[c].value \in Purposes
         /\ call[c].at = "set active" => call[c].value \in {"yes", "no"}
         /\ call[c].at = "set role" => call[c].value \in {"none", "staff", "super"}
  BY DEF TypeOK, Prepared, Rows, Call, Values

\* A row is inserted, and its call goes on at some step.
LEMMA InsertTypes ==
  ASSUME TypeOK, NEW c \in Calls, NEW u \in Users, NEW typed \in {"none", "typed"}, Insert(u, typed),
         NEW at \in {"look up", "link google"}, NEW value \in {"verify", "new"},
         Begin(c, At(at, u, None, value)), crossed' \subseteq Users
  PROVE  TypeOK'
<1> DEFINE new == At(at, u, None, value)
<1>1. at \in Steps /\ u \in Users \cup {None} /\ None \in Users \cup {None} /\ value \in Values
  BY DEF Steps, Values, Purposes
<1>2. new \in Call /\ new.at = at /\ new.who = u
  BY <1>1 DEF At, Call, Values
<1> HIDE DEF new
<1>3. /\ life' \in [Users -> {"free", "member", "former"}]
      /\ password' \in [Users -> {"none", "typed", "owner"}]
      /\ UNCHANGED <<active, verified, google, role, sessions, links>>
      /\ life[u] = "free"
      /\ \A v \in Users : life'[v] = IF v = u THEN "member" ELSE life[v]
  BY DEF Insert, TypeOK
<1>4. Rows' = Rows \cup {u}
  BY <1>3 DEF Rows
<1>6. (\A v, w \in Users, a \in Addresses : Holds(v, a) /\ Holds(w, a) => v = w)'
  <2>1. \A v \in Users : ~Holds(v, Mail[u])
    BY DEF Insert, Unclaimed
  <2>2. ASSUME NEW v \in Users, NEW w \in Users, NEW a \in Addresses, Holds(v, a)', Holds(w, a)'
        PROVE  v = w
    <3>1. /\ v = u \/ (Holds(v, a) /\ Mail[v] = a)
          /\ w = u \/ (Holds(w, a) /\ Mail[w] = a)
          /\ v = u \/ w = u => a = Mail[u]
      BY <1>3, <2>2 DEF Holds
    <3> QED
      BY <2>1, <3>1 DEF TypeOK
  <2> QED
    BY <2>2
<1>7. Prepared(new, Rows')
  BY <1>2, <1>4 DEF Prepared
<1>8. Rows \subseteq Rows' /\ sessions' \subseteq Rows' /\ links' \subseteq Link
  BY <1>3, <1>4 DEF TypeOK
<1>9. Begin(c, new)
  BY DEF new
<1> QED
  BY <1>2, <1>3, <1>6, <1>7, <1>8, <1>9, CallsTyped DEF TypeOK

LEMMA StartsTypes ==
  ASSUME TypeOK, NEW c \in Calls, Starts(c), crossed' \subseteq Users
  PROVE  TypeOK'
<1> PICK u \in Users :
    \/ \E typed \in {"none", "typed"} : SignUp(c, u, typed)
    \/ \E purpose \in Purposes : RequestLink(c, u, purpose)
    \/ \E l \in links, fresh \in {"none", "owner"} : Confirm(c, u, l, fresh)
    \/ Login(c, u)
    \/ GoogleSignUp(c, u) \/ GoogleSignIn(c, u) \/ GoogleLink(c, u)
    \/ \E actor \in Users :
         \/ \E value \in {"yes", "no"} : BeginStaff(c, actor, u, "set active", value)
         \/ \E value \in {"none", "staff", "super"} : BeginStaff(c, actor, u, "set role", value)
         \/ BeginStaff(c, actor, u, "anonymise", "none")
  BY DEF Starts
<1>0. /\ {"look up", "drop links", "open session", "link google", "set active", "set role", "anonymise"} \subseteq Steps
      /\ Purposes \cup {"yes", "no", "none", "staff", "super", "new", "linked"} \subseteq Values
      /\ None \in Users \cup {None}
      /\ u \in Users \cup {None}
  BY DEF Steps, Values
<1>a. life[u] = "member" => u \in Rows
  BY DEF Rows
<1>1. CASE \E typed \in {"none", "typed"} : SignUp(c, u, typed)
  BY <1>1, InsertTypes DEF SignUp
<1>2. CASE \E purpose \in Purposes : RequestLink(c, u, purpose)
  <2> PICK purpose \in Purposes : RequestLink(c, u, purpose)
    BY <1>2
  <2>1. Begin(c, At("drop links", u, None, purpose)) /\ UNCHANGED <<users, sessions, links>> /\ u \in Rows
    BY <1>a DEF RequestLink, Holds
  <2>2. purpose \in Values /\ "drop links" \in Steps
    BY <1>0
  <2> QED
    BY <1>0, <2>1, <2>2, CallsOnly
<1>3. CASE \E l \in links, fresh \in {"none", "owner"} : Confirm(c, u, l, fresh)
  <2> PICK l \in links, fresh \in {"none", "owner"} : Confirm(c, u, l, fresh)
    BY <1>3
  <2> DEFINE new == At("open session", u, None, "none")
  <2>1. new \in Call /\ new.at = "open session" /\ new.who = u
    BY <1>0 DEF At, Call, Values
  <2>2. Begin(c, new) /\ u \in Rows /\ Rows' = Rows
    BY <1>a DEF Confirm, Holds, Rows
  <2> HIDE DEF new
  <2>3. Prepared(new, Rows')
    BY <2>1, <2>2 DEF Prepared
  <2>4. links' \subseteq Link /\ UNCHANGED <<life, active, google, role>>
    BY DEF Confirm, TypeOK
  <2>5. /\ password' \in [Users -> {"none", "typed", "owner"}] /\ verified' \in [Users -> {"yes", "no"}]
        /\ sessions' \subseteq Rows /\ \A v \in Users \ Rows : verified'[v] = "no"
    <3>1. CASE UNCHANGED <<password, verified, sessions>>
      BY <3>1 DEF TypeOK
    <3>2. CASE /\ verified' = [verified EXCEPT ![u] = "yes"]
               /\ password' = [password EXCEPT ![u] = IF fresh = "owner" THEN fresh ELSE @]
               /\ sessions' = sessions \ {u}
      <4>1. password' = [password EXCEPT ![u] = IF fresh = "owner" THEN "owner" ELSE password[u]]
        BY <3>2
      <4>2. password' \in [Users -> {"none", "typed", "owner"}]
        BY <4>1 DEF TypeOK
      <4>3. verified' \in [Users -> {"yes", "no"}] /\ \A v \in Users \ {u} : verified'[v] = verified[v]
        BY <3>2 DEF TypeOK
      <4>4. \A v \in Users \ Rows : v # u /\ verified[v] = "no"
        BY <2>2 DEF TypeOK
      <4>5. sessions' \subseteq Rows
        BY <3>2 DEF TypeOK
      <4> QED
        BY <4>2, <4>3, <4>4, <4>5
    <3> QED
      BY <3>1, <3>2 DEF Confirm
  <2> QED
    BY ZenonT(40), <2>1, <2>2, <2>3, <2>4, <2>5, CallsTyped DEF TypeOK, Holds
<1>4. CASE Login(c, u) \/ GoogleSignIn(c, u) \/ GoogleLink(c, u)
  <2>2. CASE Login(c, u)
    BY <1>0, <1>a, <2>2, CallsOnly DEF Login
  <2>3. CASE GoogleSignIn(c, u)
    BY ZenonT(40), <1>0, <2>3, CallsOnly DEF GoogleSignIn, TypeOK
  <2>4. CASE GoogleLink(c, u)
    BY <1>0, <1>a, <2>4, CallsOnly DEF GoogleLink
  <2> QED
    BY <1>4, <2>2, <2>3, <2>4
<1>5. CASE GoogleSignUp(c, u)
  BY <1>5, InsertTypes DEF GoogleSignUp
<1>6. ASSUME NEW actor \in Users, NEW at \in {"set active", "set role", "anonymise"},
             NEW value \in {"yes", "no", "none", "staff", "super"},
             at = "set active" => value \in {"yes", "no"},
             at = "set role" => value \in {"none", "staff", "super"},
             BeginStaff(c, actor, u, at, value)
      PROVE  TypeOK'
  <2>1. /\ Begin(c, At(at, u, actor, value)) /\ UNCHANGED <<users, sessions, links>> /\ u \in Rows
        /\ at \in Steps /\ value \in Values /\ actor \in Users \cup {None}
    BY <1>0, <1>6 DEF BeginStaff, Rows
  <2> QED
    BY <1>6, <2>1, CallsOnly
<1> QED
  BY <1>1, <1>2, <1>3, <1>4, <1>5, <1>6

LEMMA ProceedsTypes ==
  ASSUME TypeOK, NEW c \in Calls, Proceeds(c) \/ Die(c), crossed' \subseteq Users
  PROVE  TypeOK'
<1> DEFINE u == call[c].who
<1>0. /\ u \in Rows /\ u \in Users /\ call[c].value \in Values
      /\ call[c].at \in {"drop links", "new link"} => call[c].value \in Purposes
      /\ call[c].at = "set active" => call[c].value \in {"yes", "no"}
      /\ call[c].at = "set role" => call[c].value \in {"none", "staff", "super"}
  <2>1. call[c].at # "idle"
    BY DEF Proceeds, Die, LookUp, DropLinks, NewLink, OpenSession, LinkGoogle, MarkVerified, SetActive, SetRole,
           Anonymise
  <2> QED
    BY <2>1, CallOf
<1>a. /\ {"drop links", "new link", "open session", "mark verified"} \subseteq Steps
      /\ {"verify", "none"} \subseteq Values /\ "verify" \in Purposes
      /\ None \in Users \cup {None} /\ u \in Users \cup {None}
  BY <1>0 DEF Steps, Values, Purposes
<1>b. Mail[u] \in Addresses
  BY <1>0, AccountsAssumption
<1>c. Goes(c, Idle) /\ UNCHANGED <<users, sessions, links>> => TypeOK'
  BY CallEnds DEF TypeOK, users
<1>1. CASE LookUp(c)
  <2>1. CASE Goes(c, Idle)
    BY <1>1, <1>c, <2>1 DEF LookUp
  <2>2. CASE Goes(c, At("drop links", u, None, "verify"))
    BY <1>0, <1>1, <1>a, <2>2, CallsOnly DEF LookUp
  <2> QED
    BY <1>1, <2>1, <2>2 DEF LookUp
<1>2. CASE DropLinks(c)
  <2> DEFINE new == At("new link", u, None, call[c].value)
  <2>1. new \in Call /\ new.at = "new link" /\ new.who = u /\ new.value = call[c].value
    BY <1>0, <1>a DEF At, Call, Values
  <2>2. Goes(c, new) /\ UNCHANGED <<users, sessions>> /\ links' \subseteq Link /\ call[c].value \in Purposes
    BY <1>0, <1>2 DEF DropLinks, TypeOK
  <2> HIDE DEF new
  <2>3. Rows' = Rows /\ Prepared(new, Rows')
    BY <1>0, <2>1, <2>2 DEF Rows, users, Prepared
  <2> QED
    BY <2>1, <2>2, <2>3, CallsTyped DEF TypeOK, Holds, users
<1>3. CASE \E t \in Tokens : NewLink(c, t)
  <2> PICK t \in Tokens : NewLink(c, t)
    BY <1>3
  <2>1. [token |-> t, purpose |-> call[c].value, address |-> Mail[u], state |-> "good"] \in Link
    BY <1>0, <1>b DEF NewLink, Link
  <2>2. links' \subseteq Link
    BY <2>1 DEF NewLink, TypeOK
  <2> QED
    BY <2>2, CallEnds DEF NewLink, TypeOK, users
<1>4. CASE OpenSession(c)
  BY <1>0, <1>4, CallEnds DEF OpenSession, TypeOK, users
<1>5. CASE LinkGoogle(c)
  <2>1. CASE Goes(c, Idle) /\ UNCHANGED google
    BY <1>5, <1>c, <2>1 DEF LinkGoogle, users
  <2>2. CASE Goes(c, At("mark verified", u, None, call[c].value)) /\ google' = [google EXCEPT ![u] = "yes"]
    <3> DEFINE new == At("mark verified", u, None, call[c].value)
    <3>1. new \in Call /\ new.at = "mark verified" /\ new.who = u
      BY <1>0, <1>a DEF At, Call, Values
    <3>2. Goes(c, new) /\ UNCHANGED <<life, active, password, verified, role, sessions, links>>
      BY <1>5, <2>2 DEF LinkGoogle
    <3> HIDE DEF new
    <3>3. Rows' = Rows /\ Prepared(new, Rows')
      BY <1>0, <3>1, <3>2 DEF Rows, Prepared
    <3>4. google' \in [Users -> {"yes", "no"}] /\ \A v \in Users \ Rows : google'[v] = "no"
      BY <1>0, <2>2 DEF TypeOK
    <3> QED
      BY <3>1, <3>2, <3>3, <3>4, CallsTyped DEF TypeOK, Holds
  <2> QED
    BY <1>5, <2>1, <2>2 DEF LinkGoogle
<1>6. CASE MarkVerified(c)
  <2>1. verified' \in [Users -> {"yes", "no"}] /\ \A v \in Users \ Rows : verified'[v] = "no"
    BY <1>0, <1>6 DEF MarkVerified, TypeOK
  <2>2. UNCHANGED <<life, active, password, google, role, sessions, links>>
    BY <1>6 DEF MarkVerified
  <2>3. CASE Goes(c, Idle)
    BY <2>1, <2>2, <2>3, CallEnds DEF TypeOK
  <2>4. CASE Goes(c, At("open session", u, None, "none"))
    <3> DEFINE new == At("open session", u, None, "none")
    <3>1. new \in Call /\ new.at = "open session" /\ new.who = u
      BY <1>0, <1>a DEF At, Call, Values
    <3>2. Goes(c, new)
      BY <2>4
    <3> HIDE DEF new
    <3>3. Rows' = Rows /\ Prepared(new, Rows')
      BY <1>0, <2>2, <3>1 DEF Rows, Prepared
    <3> QED
      BY <2>1, <2>2, <3>1, <3>2, <3>3, CallsTyped DEF TypeOK, Holds
  <2> QED
    BY <1>6, <2>3, <2>4 DEF MarkVerified
<1>7. CASE SetActive(c)
  <2>1. active' \in [Users -> {"yes", "no"}] /\ sessions' \subseteq Rows
    BY <1>0, <1>7 DEF SetActive, TypeOK
  <2> QED
    BY <1>7, <2>1, CallEnds DEF SetActive, TypeOK
<1>8. CASE SetRole(c)
  <2>1. role' \in [Users -> {"none", "staff", "super"}] /\ sessions' \subseteq Rows
    BY ZenonT(40), <1>0, <1>8 DEF SetRole, TypeOK
  <2> QED
    BY <1>8, <2>1, CallEnds DEF SetRole, TypeOK
<1>9. CASE Anonymise(c)
  <2>1. CASE UNCHANGED <<life, active, password, verified, google, sessions, links>>
    BY <1>9, <1>c, <2>1 DEF Anonymise, users
  <2>2. CASE /\ life[u] = "member"
             /\ life' = [life EXCEPT ![u] = "former"]
             /\ active' = [active EXCEPT ![u] = "no"]
             /\ password' = [password EXCEPT ![u] = "none"]
             /\ verified' = [verified EXCEPT ![u] = "no"]
             /\ google' = WithoutGoogle(u)
             /\ sessions' = sessions \ {u}
             /\ links' = { l \in links : l.address # Mail[u] }
    <3>1. /\ life' \in [Users -> {"free", "member", "former"}] /\ active' \in [Users -> {"yes", "no"}]
          /\ password' \in [Users -> {"none", "typed", "owner"}]
          /\ verified' \in [Users -> {"yes", "no"}] /\ google' \in [Users -> {"yes", "no"}]
          /\ links' \subseteq Link
      BY <1>0, <2>2 DEF TypeOK, WithoutGoogle
    <3>2. Rows' = Rows
      BY <1>0, <2>2 DEF Rows, TypeOK
    <3>3. (\A v, w \in Users, a \in Addresses : Holds(v, a) /\ Holds(w, a) => v = w)'
      <4>1. \A v \in Users, a \in Addresses : (life'[v] = "member" /\ Mail[v] = a) => Holds(v, a)
        BY <2>2 DEF Holds, TypeOK
      <4> QED
        BY <4>1 DEF TypeOK, Holds
    <3>4. \A v \in Users \ Rows : verified'[v] = "no" /\ google'[v] = "no"
      BY ZenonT(40), <1>0, <2>2 DEF TypeOK, WithoutGoogle
    <3>5. sessions' \subseteq Rows /\ UNCHANGED role /\ Goes(c, Idle)
      BY <1>9, <2>2 DEF TypeOK, Anonymise
    <3>6. Prepared(Idle, Rows')
      BY IdleCall DEF Prepared
    <3> QED
      BY <3>1, <3>2, <3>3, <3>4, <3>5, <3>6, IdleCall, CallsTyped DEF TypeOK
  <2> QED
    BY <1>9, <2>1, <2>2 DEF Anonymise
<1>10. CASE Die(c)
  BY <1>10, <1>c DEF Die
<1> QED
  BY <1>1, <1>2, <1>3, <1>4, <1>5, <1>6, <1>7, <1>8, <1>9, <1>10 DEF Proceeds

LEMMA OthersTypes ==
  ASSUME TypeOK, (\E l \in links : Expire(l) \/ Reset(l)) \/ (\E u \in sessions : CloseSession(u)),
         crossed' \subseteq Users
  PROVE  TypeOK'
<1>1. ASSUME NEW l \in links, Expire(l)
      PROVE  TypeOK'
  <2>1. [l EXCEPT !.state = "expired"] \in Link
    BY DEF TypeOK, Link
  <2>2. links' \subseteq Link
    BY <1>1, <2>1 DEF Expire, TypeOK
  <2> QED
    BY <1>1, <2>2 DEF Expire, TypeOK, Rows, Holds, users
<1>2. ASSUME NEW l \in links, Reset(l)
      PROVE  TypeOK'
  <2>1. /\ password' \in [Users -> {"none", "typed", "owner"}] /\ verified' \in [Users -> {"yes", "no"}]
        /\ \A u \in Users \ Rows : verified'[u] = "no"
    BY <1>2 DEF Reset, TypeOK, Holds, Rows
  <2>2. links' \subseteq Link /\ sessions' \subseteq Rows
    BY <1>2 DEF Reset, TypeOK
  <2> QED
    BY <1>2, <2>1, <2>2 DEF Reset, TypeOK, Rows, Holds
<1>3. ASSUME NEW u \in sessions, CloseSession(u)
      PROVE  TypeOK'
  BY <1>3 DEF CloseSession, TypeOK, Rows, Holds, users
<1> QED
  BY <1>1, <1>2, <1>3

LEMMA InitTypes == Init => TypeOK
<1> SUFFICES ASSUME Init
             PROVE  TypeOK
  OBVIOUS
<1>1. \A c \in Calls : call[c] \in Call /\ Prepared(call[c], Rows)
  BY IdleCall DEF Init, Prepared
<1>2. \A u, v \in Users, a \in Addresses : Holds(u, a) /\ Holds(v, a) => u = v
  BY AccountsAssumption DEF Init, Holds
<1> QED
  BY <1>1, <1>2, AccountsAssumption, IdleCall DEF Init, TypeOK, Rows

\* Only anonymising writes the history, and it adds the row that it is about.
LEMMA CrossedAfter ==
  ASSUME Next
  PROVE  \/ UNCHANGED crossed
         \/ \E c \in Calls : Anonymise(c) /\ crossed' = crossed \cup {call[c].who} /\ call[c].at # "idle"
<1>1. ASSUME NEW c \in Calls, Starts(c)
      PROVE  UNCHANGED crossed
  BY <1>1 DEF Starts, SignUp, RequestLink, Confirm, Login, GoogleSignUp, GoogleSignIn, GoogleLink, BeginStaff, Begin
<1>2. ASSUME NEW c \in Calls, Proceeds(c) \/ Die(c), ~Anonymise(c)
      PROVE  UNCHANGED crossed
  BY <1>2 DEF Proceeds, Die, LookUp, DropLinks, NewLink, OpenSession, LinkGoogle, MarkVerified, SetActive, SetRole
<1>3. ASSUME NEW c \in Calls, Anonymise(c)
      PROVE  call[c].at # "idle" /\ (UNCHANGED crossed \/ crossed' = crossed \cup {call[c].who})
  BY <1>3 DEF Anonymise
<1>4. ASSUME (\E l \in links : Expire(l) \/ Reset(l)) \/ (\E u \in sessions : CloseSession(u))
      PROVE  UNCHANGED crossed
  BY <1>4 DEF Expire, Reset, CloseSession
<1> QED
  BY <1>1, <1>2, <1>3, <1>4 DEF Next

LEMMA TypesKept == TypeOK /\ [Next]_vars => TypeOK'
<1> SUFFICES ASSUME TypeOK, [Next]_vars
             PROVE  TypeOK'
  OBVIOUS
<1>1. CASE Next
  <2>1. crossed' \subseteq Users
    <3>1. \A c \in Calls : call[c].at # "idle" => call[c].who \in Users
      BY CallOf
    <3>2. crossed \subseteq Users
      BY DEF TypeOK
    <3> QED
      BY <1>1, <3>1, <3>2, CrossedAfter
  <2>2. ASSUME NEW c \in Calls, Starts(c) \/ Proceeds(c) \/ Die(c)
        PROVE  TypeOK'
    BY <2>1, <2>2, StartsTypes, ProceedsTypes
  <2>3. CASE (\E l \in links : Expire(l) \/ Reset(l)) \/ (\E u \in sessions : CloseSession(u))
    BY <2>1, <2>3, OthersTypes
  <2> QED
    BY <1>1, <2>2, <2>3 DEF Next
<1>2. CASE UNCHANGED vars
  BY <1>2 DEF vars, users, TypeOK, Rows, Holds
<1> QED
  BY <1>1, <1>2

\* Every variable keeps its type, and an address has one member.
THEOREM TypeCorrect == Spec => []TypeOK
  BY InitTypes, TypesKept, PTL DEF Spec

-----------------------------------------------------------------------------
(* Super admins. *)

\* Nobody changes their own account.
ActorsDiffer ==
  \A c \in Calls :
    call[c].at \in {"set active", "set role", "anonymise"} =>
      call[c].actor \in Users /\ call[c].actor # call[c].who

\* A call that is none of a super admin's, and one that is.
LEMMA ActorsAfter ==
  ASSUME TypeOK, ActorsDiffer, NEW c \in Calls, NEW at \in Steps, NEW who, NEW actor, NEW value,
         call' = [call EXCEPT ![c] = At(at, who, actor, value)],
         at \in {"set active", "set role", "anonymise"} => actor \in Users /\ actor # who
  PROVE  ActorsDiffer'
<1> DEFINE new == At(at, who, actor, value)
<1>1. new.at = at /\ new.who = who /\ new.actor = actor
  BY DEF At
<1> HIDE DEF new
<1>2. \A d \in Calls : call'[d] = IF d = c THEN new ELSE call[d]
  BY DEF TypeOK, new
<1> QED
  BY <1>1, <1>2 DEF ActorsDiffer

\* A step of c at which no super admin's call begins.
Plain(c) ==
  \E at \in Steps \ {"set active", "set role", "anonymise"}, who \in Users \cup {None}, value \in Values :
    call' = [call EXCEPT ![c] = At(at, who, None, value)]

LEMMA PlainSteps ==
  ASSUME NEW c \in Calls, NEW u \in Users \cup {None}, NEW value \in Values,
         NEW at \in {"idle", "look up", "drop links", "new link", "open session", "link google", "mark verified"},
         Begin(c, At(at, u, None, value)) \/ Goes(c, At(at, u, None, value))
  PROVE  Plain(c)
<1>1. at \in Steps \ {"set active", "set role", "anonymise"}
  BY DEF Steps
<1>2. call' = [call EXCEPT ![c] = At(at, u, None, value)]
  BY DEF Begin, Goes
<1> QED
  BY <1>1, <1>2 DEF Plain

LEMMA StartsShape ==
  ASSUME NEW c \in Calls, Starts(c)
  PROVE  \/ Plain(c)
         \/ \E actor, u \in Users, at \in {"set active", "set role", "anonymise"}, value \in Values :
              BeginStaff(c, actor, u, at, value)
<1> PICK u \in Users :
    \/ \E typed \in {"none", "typed"} : SignUp(c, u, typed)
    \/ \E purpose \in Purposes : RequestLink(c, u, purpose)
    \/ \E l \in links, fresh \in {"none", "owner"} : Confirm(c, u, l, fresh)
    \/ Login(c, u)
    \/ GoogleSignUp(c, u) \/ GoogleSignIn(c, u) \/ GoogleLink(c, u)
    \/ \E actor \in Users :
         \/ \E value \in {"yes", "no"} : BeginStaff(c, actor, u, "set active", value)
         \/ \E value \in {"none", "staff", "super"} : BeginStaff(c, actor, u, "set role", value)
         \/ BeginStaff(c, actor, u, "anonymise", "none")
  BY DEF Starts
<1>0. u \in Users \cup {None}
  OBVIOUS
<1>a. Purposes \subseteq Values /\ {"verify", "none", "new", "linked", "yes", "no", "staff", "super"} \subseteq Values
  BY DEF Values, Purposes
<1>1. CASE \E typed \in {"none", "typed"} : SignUp(c, u, typed)
  BY <1>0, <1>1, <1>a, PlainSteps DEF SignUp
<1>2. CASE \E purpose \in Purposes : RequestLink(c, u, purpose)
  BY <1>0, <1>2, <1>a, PlainSteps DEF RequestLink
<1>3. CASE \E l \in links, fresh \in {"none", "owner"} : Confirm(c, u, l, fresh)
  BY <1>0, <1>3, <1>a, PlainSteps DEF Confirm
<1>4. CASE Login(c, u)
  BY <1>0, <1>4, <1>a, PlainSteps DEF Login
<1>5. CASE GoogleSignUp(c, u)
  BY <1>0, <1>5, <1>a, PlainSteps DEF GoogleSignUp
<1>6. CASE GoogleSignIn(c, u)
  BY <1>0, <1>6, <1>a, PlainSteps DEF GoogleSignIn
<1>7. CASE GoogleLink(c, u)
  BY <1>0, <1>7, <1>a, PlainSteps DEF GoogleLink
<1> QED
  BY <1>1, <1>2, <1>3, <1>4, <1>5, <1>6, <1>7, <1>a

LEMMA ProceedsShape ==
  ASSUME TypeOK, NEW c \in Calls, Proceeds(c) \/ Die(c)
  PROVE  Plain(c)
<1> DEFINE u == call[c].who
<1>0. u \in Users \cup {None} /\ call[c].value \in Values
  BY DEF TypeOK, Call, Values
<1>a. {"verify", "none"} \subseteq Values /\ None \in Users \cup {None}
  BY DEF Values, Purposes
<1>b. Goes(c, Idle) => Plain(c)
  BY <1>a, PlainSteps DEF Idle
<1>1. CASE LookUp(c)
  <2>1. CASE Goes(c, At("drop links", u, None, "verify"))
    BY <1>0, <1>a, <2>1, PlainSteps
  <2> QED
    BY <1>1, <1>b, <2>1 DEF LookUp
<1>2. CASE DropLinks(c)
  <2>1. Goes(c, At("new link", u, None, call[c].value))
    BY <1>2 DEF DropLinks
  <2> QED
    BY <1>0, <2>1, PlainSteps
<1>3. CASE LinkGoogle(c)
  <2>1. CASE Goes(c, At("mark verified", u, None, call[c].value))
    BY <1>0, <2>1, PlainSteps
  <2> QED
    BY <1>3, <1>b, <2>1 DEF LinkGoogle
<1>4. CASE MarkVerified(c)
  <2>1. CASE Goes(c, At("open session", u, None, "none"))
    BY <1>0, <1>a, <2>1, PlainSteps
  <2> QED
    BY <1>4, <1>b, <2>1 DEF MarkVerified
<1> QED
  BY <1>1, <1>2, <1>3, <1>4, <1>b DEF Proceeds, Die, NewLink, OpenSession, SetActive, SetRole, Anonymise

LEMMA ActorsKept == TypeOK /\ ActorsDiffer /\ [Next]_vars => ActorsDiffer'
<1> SUFFICES ASSUME TypeOK, ActorsDiffer, [Next]_vars
             PROVE  ActorsDiffer'
  OBVIOUS
<1>1. CASE UNCHANGED call
  BY <1>1 DEF ActorsDiffer
<1>2. ASSUME NEW c \in Calls, Plain(c)
      PROVE  ActorsDiffer'
  BY <1>2, ActorsAfter DEF Plain
<1>3. ASSUME NEW c \in Calls, NEW actor \in Users, NEW u \in Users,
             NEW at \in {"set active", "set role", "anonymise"}, NEW value, BeginStaff(c, actor, u, at, value)
      PROVE  ActorsDiffer'
  <2>1. at \in Steps /\ actor # u /\ call' = [call EXCEPT ![c] = At(at, u, actor, value)]
    BY <1>3 DEF Steps, BeginStaff, Begin
  <2> QED
    BY <2>1, ActorsAfter
<1>4. CASE Next
  BY <1>1, <1>2, <1>3, <1>4, StartsShape, ProceedsShape DEF Next, Expire, Reset, CloseSession
<1> QED
  BY <1>1, <1>4 DEF vars

\* A change of u that May allows leaves the actor, who is another, a super admin.
LEMMA AdminKept == TypeOK /\ ActorsDiffer /\ AdminRemains /\ [Next]_vars => AdminRemains'
<1> SUFFICES ASSUME TypeOK, ActorsDiffer, AdminRemains, [Next]_vars
             PROVE  AdminRemains'
  OBVIOUS
<1>1. CASE UNCHANGED <<active, role>>
  BY <1>1 DEF AdminRemains, SuperAdmin
<1>2. ASSUME NEW c \in Calls, SetActive(c)
      PROVE  AdminRemains'
  <2>1. CASE May(call[c].actor, call[c].who, call[c].value = "yes")
    <3> DEFINE a == call[c].actor
    <3>1. SuperAdmin(a) /\ a \in Users /\ a # call[c].who
      BY <1>2, <2>1 DEF SetActive, May, ActorsDiffer
    <3>2. active'[a] = active[a] /\ role' = role
      BY <1>2, <3>1 DEF SetActive, TypeOK
    <3> QED
      BY <3>1, <3>2 DEF AdminRemains, SuperAdmin
  <2> QED
    BY <1>1, <1>2, <2>1 DEF SetActive
<1>3. ASSUME NEW c \in Calls, SetRole(c)
      PROVE  AdminRemains'
  <2>1. CASE May(call[c].actor, call[c].who, call[c].value = "super")
    <3> DEFINE a == call[c].actor
    <3>1. SuperAdmin(a) /\ a \in Users /\ a # call[c].who
      BY <1>3, <2>1 DEF SetRole, May, ActorsDiffer
    <3>2. role'[a] = role[a] /\ active' = active
      BY <1>3, <3>1 DEF SetRole, TypeOK
    <3> QED
      BY <3>1, <3>2 DEF AdminRemains, SuperAdmin
  <2> QED
    BY <1>1, <1>3, <2>1 DEF SetRole
<1>4. ASSUME NEW c \in Calls, Anonymise(c)
      PROVE  AdminRemains'
  <2>1. PICK a \in Users : SuperAdmin(a)
    BY DEF AdminRemains
  <2>2. role' = role /\ active'[a] = active[a]
    BY <1>4, <2>1 DEF Anonymise, SuperAdmin, TypeOK
  <2> QED
    BY <2>1, <2>2 DEF AdminRemains, SuperAdmin
<1>5. ASSUME NEW c \in Calls, Starts(c)
      PROVE  UNCHANGED <<active, role>>
  BY ZenonT(40), <1>5 DEF Starts, SignUp, RequestLink, Confirm, Login, GoogleSignUp, GoogleSignIn, GoogleLink, BeginStaff,
    Insert, users
<1>6. ASSUME NEW c \in Calls, Proceeds(c) \/ Die(c)
      PROVE  UNCHANGED <<active, role>> \/ SetActive(c) \/ SetRole(c) \/ Anonymise(c)
  BY <1>6 DEF Proceeds, Die, LookUp, DropLinks, NewLink, OpenSession, LinkGoogle, MarkVerified, users
<1>7. CASE Next
  BY <1>1, <1>2, <1>3, <1>4, <1>5, <1>6, <1>7 DEF Next, Expire, Reset, CloseSession, users
<1> QED
  BY <1>1, <1>7 DEF vars, users

LEMMA InitAdmin == Init => ActorsDiffer /\ AdminRemains
  BY ZenonT(40), AccountsAssumption, IdleCall DEF Init, ActorsDiffer, AdminRemains, SuperAdmin

\* There always is an active super admin.
THEOREM NeverLockedOut == Spec => []AdminRemains
  BY TypeCorrect, InitAdmin, ActorsKept, AdminKept, PTL DEF Spec

-----------------------------------------------------------------------------
(* Passwords. *)

\* What a call that links an identity, or is to open a session, relies on.
CallsOwn ==
  \A c \in Calls :
    LET u == call[c].who IN
    /\ call[c].at \in {"link google", "mark verified"} => password[u] # "typed"
    /\ call[c].at = "open session" /\ life[u] = "member" => Established(u)

\* What a step never does to a row that is there.
RowsKept ==
  \A u \in Rows :
    /\ password'[u] = "typed" => password[u] = "typed"
    /\ life'[u] = "member" => life[u] = "member"
    /\ life'[u] = "member" /\ Established(u) => verified'[u] = "yes" \/ google'[u] = "yes"

\* A call that a step leaves as it was still has what it relies on.
LEMMA OthersOwn ==
  ASSUME TypeOK, CallsOwn, RowsKept, NEW d \in Calls, call'[d] = call[d]
  PROVE  /\ call'[d].at \in {"link google", "mark verified"} => password'[call'[d].who] # "typed"
         /\ call'[d].at = "open session" /\ life'[call'[d].who] = "member" =>
              verified'[call'[d].who] = "yes" \/ google'[call'[d].who] = "yes"
<1> DEFINE u == call[d].who
<1>1. call[d].at # "idle" => u \in Rows
  BY DEF TypeOK, Prepared
<1>2. CASE call[d].at \in {"link google", "mark verified"}
  <2>1. u \in Rows /\ password[u] # "typed"
    BY <1>1, <1>2 DEF CallsOwn
  <2> QED
    BY <1>2, <2>1 DEF RowsKept
<1>3. CASE call[d].at = "open session" /\ life'[u] = "member"
  <2>1. u \in Rows
    BY <1>1, <1>3
  <2>2. life[u] = "member"
    BY <1>3, <2>1 DEF RowsKept
  <2>3. Established(u)
    BY <1>3, <2>2 DEF CallsOwn
  <2> QED
    BY <1>3, <2>1, <2>3 DEF RowsKept
<1> QED
  BY <1>2, <1>3

LEMMA OwnAfter ==
  ASSUME TypeOK, CallsOwn, RowsKept, NEW c \in Calls, NEW at \in Steps, NEW who, NEW value,
         call' = [call EXCEPT ![c] = At(at, who, None, value)],
         at \in {"link google", "mark verified"} => password'[who] # "typed",
         at = "open session" /\ life'[who] = "member" => verified'[who] = "yes" \/ google'[who] = "yes"
  PROVE  CallsOwn'
<1> DEFINE new == At(at, who, None, value)
<1>1. new.at = at /\ new.who = who
  BY DEF At
<1> HIDE DEF new
<1>2. \A d \in Calls : call'[d] = IF d = c THEN new ELSE call[d]
  BY DEF TypeOK, new
<1>3. ASSUME NEW d \in Calls
      PROVE  /\ call'[d].at \in {"link google", "mark verified"} => password'[call'[d].who] # "typed"
             /\ call'[d].at = "open session" /\ life'[call'[d].who] = "member" =>
                  verified'[call'[d].who] = "yes" \/ google'[call'[d].who] = "yes"
  <2>1. CASE d = c
    BY <1>1, <1>2, <2>1
  <2>2. CASE d # c
    BY <1>2, <2>2, OthersOwn
  <2> QED
    BY <2>1, <2>2
<1> QED
  BY <1>3 DEF CallsOwn, Established

\* A call that ends, or begins one that relies on nothing, keeps what the others rely on.
LEMMA OwnElse ==
  ASSUME TypeOK, CallsOwn, RowsKept,
         \/ UNCHANGED call
         \/ \E c \in Calls, at \in Steps \ {"link google", "mark verified", "open session"} :
              \E who, actor, value : call' = [call EXCEPT ![c] = At(at, who, actor, value)]
  PROVE  CallsOwn'
<1>1. ASSUME NEW d \in Calls
      PROVE  call'[d] = call[d] \/ call'[d].at \notin {"link google", "mark verified", "open session"}
  <2>1. ASSUME NEW c \in Calls, NEW at \in Steps \ {"link google", "mark verified", "open session"},
               NEW who, NEW actor, NEW value, call' = [call EXCEPT ![c] = At(at, who, actor, value)]
        PROVE  call'[d] = call[d] \/ call'[d].at = at
    BY <2>1 DEF TypeOK, At
  <2>2. CASE UNCHANGED call
    BY <2>2
  <2> QED
    BY <2>1, <2>2
<1>2. ASSUME NEW d \in Calls
      PROVE  /\ call'[d].at \in {"link google", "mark verified"} => password'[call'[d].who] # "typed"
             /\ call'[d].at = "open session" /\ life'[call'[d].who] = "member" =>
                  verified'[call'[d].who] = "yes" \/ google'[call'[d].who] = "yes"
  <2>1. CASE call'[d] = call[d]
    BY <2>1, OthersOwn
  <2> QED
    BY <1>1, <2>1
<1> QED
  BY <1>2 DEF CallsOwn, Established

\* The first part of ErasedStays.
Blank == \A u \in Users : life[u] = "former" => password[u] = "none" /\ verified[u] = "no"

OwnInv == PasswordIsOwners /\ Blank /\ CallsOwn

\* A step that changes no row and opens no session.
LEMMA RowsAlone ==
  ASSUME OwnInv, UNCHANGED <<users>>, sessions' \subseteq sessions
  PROVE  PasswordIsOwners' /\ Blank' /\ RowsKept
  BY DEF OwnInv, PasswordIsOwners, Blank, RowsKept, Established, users

LEMMA InsertOwn ==
  ASSUME TypeOK, OwnInv, NEW u \in Users, NEW typed \in {"none", "typed"}, Insert(u, typed)
  PROVE  PasswordIsOwners' /\ Blank' /\ RowsKept /\ password'[u] = typed
<1>1. /\ life[u] = "free" /\ life' = [life EXCEPT ![u] = "member"] /\ password' = [password EXCEPT ![u] = typed]
      /\ UNCHANGED <<active, verified, google, role, sessions>>
      /\ u \notin Rows /\ u \notin sessions /\ ~Established(u)
  BY DEF Insert, TypeOK, Rows, Established
<1>2. \A v \in Users : Established(v)' <=> Established(v)
  BY <1>1 DEF Established
<1> QED
  BY <1>1, <1>2 DEF OwnInv, TypeOK, PasswordIsOwners, Blank, RowsKept, Established

LEMMA ConfirmOwn ==
  ASSUME TypeOK, OwnInv, NEW c \in Calls, NEW u \in Users, NEW l \in links, NEW fresh \in {"none", "owner"},
         Confirm(c, u, l, fresh)
  PROVE  OwnInv'
<1>1. life[u] = "member" /\ UNCHANGED <<life, active, google, role>>
  BY DEF Confirm, Holds
<1>2. CASE Established(u)
  <2>1. UNCHANGED <<password, verified, sessions>>
    BY <1>2 DEF Confirm
  <2>2. PasswordIsOwners' /\ Blank' /\ RowsKept
    BY <1>1, <2>1, RowsAlone DEF users
  <2>3. Established(u)'
    BY <1>1, <1>2, <2>1 DEF Established
  <2>4. call' = [call EXCEPT ![c] = At("open session", u, None, "none")] /\ "open session" \in Steps
    BY DEF Confirm, Begin, Steps
  <2>5. CallsOwn'
    BY <2>2, <2>3, <2>4, OwnAfter DEF OwnInv, Established
  <2> QED
    BY <2>2, <2>5 DEF OwnInv
<1>3. CASE ~Established(u)
  <2>1. /\ verified' = [verified EXCEPT ![u] = "yes"]
        /\ password' = [password EXCEPT ![u] = "owner"]
        /\ sessions' = sessions \ {u}
    BY <1>3 DEF Confirm, NeedsPassword
  <2>2. PasswordIsOwners' /\ Blank' /\ RowsKept /\ verified'[u] = "yes"
    BY <1>1, <2>1 DEF OwnInv, TypeOK, PasswordIsOwners, Blank, RowsKept, Established
  <2>4. call' = [call EXCEPT ![c] = At("open session", u, None, "none")] /\ "open session" \in Steps
    BY DEF Confirm, Begin, Steps
  <2>5. CallsOwn'
    BY <2>2, <2>4, OwnAfter DEF OwnInv
  <2> QED
    BY <2>2, <2>5 DEF OwnInv
<1> QED
  BY <1>2, <1>3

LEMMA StartsOwn ==
  ASSUME TypeOK, OwnInv, NEW c \in Calls, Starts(c)
  PROVE  OwnInv'
<1> PICK u \in Users :
    \/ \E typed \in {"none", "typed"} : SignUp(c, u, typed)
    \/ \E purpose \in Purposes : RequestLink(c, u, purpose)
    \/ \E l \in links, fresh \in {"none", "owner"} : Confirm(c, u, l, fresh)
    \/ Login(c, u)
    \/ GoogleSignUp(c, u) \/ GoogleSignIn(c, u) \/ GoogleLink(c, u)
    \/ \E actor \in Users :
         \/ \E value \in {"yes", "no"} : BeginStaff(c, actor, u, "set active", value)
         \/ \E value \in {"none", "staff", "super"} : BeginStaff(c, actor, u, "set role", value)
         \/ BeginStaff(c, actor, u, "anonymise", "none")
  BY DEF Starts
<1>0. /\ {"look up", "drop links", "set active", "set role", "anonymise"} \subseteq
             Steps \ {"link google", "mark verified", "open session"}
      /\ "link google" \in Steps /\ "open session" \in Steps
  BY DEF Steps
<1>1. CASE \E typed \in {"none", "typed"} : SignUp(c, u, typed)
  <2> PICK typed \in {"none", "typed"} : SignUp(c, u, typed)
    BY <1>1
  <2>1. PasswordIsOwners' /\ Blank' /\ RowsKept
    BY InsertOwn DEF SignUp
  <2>2. call' = [call EXCEPT ![c] = At("look up", u, None, "verify")]
    BY DEF SignUp, Begin
  <2> QED
    BY <1>0, <2>1, <2>2, OwnElse DEF OwnInv
<1>2. ASSUME NEW at \in {"drop links", "set active", "set role", "anonymise"}, NEW actor, NEW value,
             Begin(c, At(at, u, actor, value)), UNCHANGED <<users, sessions, links>>
      PROVE  OwnInv'
  <2>1. PasswordIsOwners' /\ Blank' /\ RowsKept
    BY <1>2, RowsAlone
  <2>2. call' = [call EXCEPT ![c] = At(at, u, actor, value)]
    BY <1>2 DEF Begin
  <2> QED
    BY <1>0, <2>1, <2>2, OwnElse DEF OwnInv
<1>3. CASE \E l \in links, fresh \in {"none", "owner"} : Confirm(c, u, l, fresh)
  BY <1>3, ConfirmOwn
<1>4. CASE Login(c, u) \/ GoogleSignIn(c, u)
  <2>1. PasswordIsOwners' /\ Blank' /\ RowsKept
    BY <1>4, RowsAlone DEF Login, GoogleSignIn
  <2>2. call' = [call EXCEPT ![c] = At("open session", u, None, "none")]
    BY <1>4 DEF Login, GoogleSignIn, Begin
  <2>3. verified'[u] = "yes" \/ google'[u] = "yes"
    BY <1>4 DEF Login, GoogleSignIn, users
  <2> QED
    BY <1>0, <2>1, <2>2, <2>3, OwnAfter DEF OwnInv
<1>5. CASE GoogleSignUp(c, u)
  <2>1. PasswordIsOwners' /\ Blank' /\ RowsKept /\ password'[u] = "none"
    BY <1>5, InsertOwn DEF GoogleSignUp
  <2>2. call' = [call EXCEPT ![c] = At("link google", u, None, "new")]
    BY <1>5 DEF GoogleSignUp, Begin
  <2> QED
    BY <1>0, <2>1, <2>2, OwnAfter DEF OwnInv
<1>6. CASE GoogleLink(c, u)
  <2>1. PasswordIsOwners' /\ Blank' /\ RowsKept
    BY <1>6, RowsAlone DEF GoogleLink
  <2>2. call' = [call EXCEPT ![c] = At("link google", u, None, "linked")]
    BY <1>6 DEF GoogleLink, Begin
  <2>3. password'[u] # "typed"
    BY <1>6 DEF GoogleLink, SignedIn, OwnInv, PasswordIsOwners, users
  <2> QED
    BY <1>0, <2>1, <2>2, <2>3, OwnAfter DEF OwnInv
<1>7. CASE \E purpose \in Purposes : RequestLink(c, u, purpose)
  BY <1>2, <1>7 DEF RequestLink
<1>8. ASSUME NEW actor \in Users, NEW at \in {"set active", "set role", "anonymise"}, NEW value,
             BeginStaff(c, actor, u, at, value)
      PROVE  OwnInv'
  BY <1>2, <1>8 DEF BeginStaff
<1> QED
  BY <1>1, <1>3, <1>4, <1>5, <1>6, <1>7, <1>8

LEMMA ProceedsOwn ==
  ASSUME TypeOK, OwnInv, NEW c \in Calls, Proceeds(c) \/ Die(c)
  PROVE  OwnInv'
<1> DEFINE u == call[c].who
<1>0. /\ {"idle", "drop links", "new link"} \subseteq Steps \ {"link google", "mark verified", "open session"}
      /\ {"mark verified", "open session"} \subseteq Steps
      /\ call[c].at # "idle" => u \in Rows /\ u \in Users
  BY CallOf DEF Steps
<1>a. ASSUME PasswordIsOwners', Blank', RowsKept, Goes(c, Idle)
      PROVE  OwnInv'
  <2>1. call' = [call EXCEPT ![c] = At("idle", None, None, "none")]
    BY <1>a DEF Goes, Idle
  <2> QED
    BY <1>0, <1>a, <2>1, OwnElse DEF OwnInv
<1>1. CASE LookUp(c)
  <2>1. PasswordIsOwners' /\ Blank' /\ RowsKept
    BY <1>1, RowsAlone DEF LookUp
  <2>2. CASE Goes(c, At("drop links", u, None, "verify"))
    <3>1. call' = [call EXCEPT ![c] = At("drop links", u, None, "verify")]
      BY <2>2 DEF Goes
    <3> QED
      BY <1>0, <2>1, <3>1, OwnElse DEF OwnInv
  <2> QED
    BY <1>1, <1>a, <2>1, <2>2 DEF LookUp
<1>2. CASE DropLinks(c)
  <2>1. PasswordIsOwners' /\ Blank' /\ RowsKept
    BY <1>2, RowsAlone DEF DropLinks
  <2>2. call' = [call EXCEPT ![c] = At("new link", u, None, call[c].value)]
    BY <1>2 DEF DropLinks, Goes
  <2> QED
    BY <1>0, <2>1, <2>2, OwnElse DEF OwnInv
<1>3. CASE (\E t \in Tokens : NewLink(c, t)) \/ Die(c)
  <2>1. PasswordIsOwners' /\ Blank' /\ RowsKept
    BY <1>3, RowsAlone DEF NewLink, Die
  <2> QED
    BY <1>3, <1>a, <2>1 DEF NewLink, Die
<1>4. CASE OpenSession(c)
  <2>1. u \in Users /\ (life[u] = "member" => Established(u))
    BY <1>0, <1>4 DEF OpenSession, OwnInv, CallsOwn
  <2>2. sessions' = sessions \cup {u} /\ UNCHANGED <<life, active, password, verified, google, role>>
    BY <1>4 DEF OpenSession, users
  <2>3. PasswordIsOwners' /\ Blank' /\ RowsKept
    BY <2>1, <2>2 DEF OwnInv, PasswordIsOwners, Blank, RowsKept, Established
  <2> QED
    BY <1>4, <1>a, <2>3 DEF OpenSession
<1>5. CASE LinkGoogle(c)
  <2>1. u \in Rows /\ u \in Users /\ password[u] # "typed"
    BY <1>0, <1>5 DEF LinkGoogle, OwnInv, CallsOwn
  <2>2. UNCHANGED <<life, active, password, verified, role, sessions, links>>
    BY <1>5 DEF LinkGoogle
  <2>3. CASE UNCHANGED google
    <3>1. UNCHANGED users /\ sessions' \subseteq sessions
      BY <2>2, <2>3 DEF users
    <3>2. PasswordIsOwners' /\ Blank' /\ RowsKept
      BY <3>1, RowsAlone
    <3>3. CASE Goes(c, Idle)
      BY <1>a, <3>2, <3>3
    <3>4. CASE Goes(c, At("mark verified", u, None, call[c].value))
      <4>1. call' = [call EXCEPT ![c] = At("mark verified", u, None, call[c].value)] /\ password'[u] # "typed"
        BY <2>1, <2>2, <3>4 DEF Goes
      <4> QED
        BY <1>0, <3>2, <4>1, OwnAfter DEF OwnInv
    <3> QED
      BY <1>5, <3>3, <3>4 DEF LinkGoogle
  <2>4. CASE Goes(c, At("mark verified", u, None, call[c].value)) /\ google' = [google EXCEPT ![u] = "yes"]
    <3>1. \A v \in Users : google'[v] = IF v = u THEN "yes" ELSE google[v]
      BY <2>4 DEF TypeOK
    <3>2. PasswordIsOwners' /\ Blank' /\ RowsKept
      BY <2>1, <2>2, <3>1 DEF OwnInv, PasswordIsOwners, Blank, RowsKept, Established, Rows
    <3>3. call' = [call EXCEPT ![c] = At("mark verified", u, None, call[c].value)] /\ password'[u] # "typed"
      BY <2>1, <2>2, <2>4 DEF Goes
    <3> QED
      BY <1>0, <3>2, <3>3, OwnAfter DEF OwnInv
  <2> QED
    BY <1>5, <2>3, <2>4 DEF LinkGoogle
<1>6. CASE MarkVerified(c)
  <2>1. u \in Rows /\ u \in Users /\ password[u] # "typed"
    BY <1>0, <1>6 DEF MarkVerified, OwnInv, CallsOwn
  <2>2. UNCHANGED <<life, active, password, google, role, sessions, links>>
    BY <1>6 DEF MarkVerified
  <2>3. \A v \in Users : verified'[v] = IF v = u /\ life[u] = "member" THEN "yes" ELSE verified[v]
    BY <1>6 DEF MarkVerified, SameAddress, TypeOK
  <2>4. PasswordIsOwners' /\ Blank' /\ RowsKept
    BY <2>1, <2>2, <2>3 DEF OwnInv, PasswordIsOwners, Blank, RowsKept, Established, Rows
  <2>5. CASE Goes(c, Idle)
    BY <1>a, <2>4, <2>5
  <2>6. CASE Goes(c, At("open session", u, None, "none"))
    <3>1. call' = [call EXCEPT ![c] = At("open session", u, None, "none")]
      BY <2>6 DEF Goes
    <3>2. life'[u] = "member" => verified'[u] = "yes"
      BY <2>1, <2>2, <2>3
    <3> QED
      BY <1>0, <2>4, <3>1, <3>2, OwnAfter DEF OwnInv
  <2> QED
    BY <1>6, <2>5, <2>6 DEF MarkVerified
<1>7. CASE SetActive(c) \/ SetRole(c)
  <2>1. UNCHANGED <<life, password, verified, google>> /\ sessions' \subseteq sessions /\ Goes(c, Idle)
    BY <1>7 DEF SetActive, SetRole
  <2>2. PasswordIsOwners' /\ Blank' /\ RowsKept
    BY <2>1 DEF OwnInv, PasswordIsOwners, Blank, RowsKept, Established
  <2> QED
    BY <1>a, <2>1, <2>2
<1>8. CASE Anonymise(c)
  <2>1. u \in Rows /\ u \in Users /\ Goes(c, Idle)
    BY <1>0, <1>8 DEF Anonymise
  <2>2. CASE UNCHANGED <<life, active, password, verified, google, sessions, links>>
    <3>1. PasswordIsOwners' /\ Blank' /\ RowsKept
      BY <2>2 DEF OwnInv, PasswordIsOwners, Blank, RowsKept, Established
    <3> QED
      BY <1>a, <2>1, <3>1
  <2>3. CASE SuperAdmin(call[c].actor) /\ role[u] = "none" /\ life[u] = "member"
    <3>1. /\ \A v \in Users : life'[v] = IF v = u THEN "former" ELSE life[v]
          /\ \A v \in Users : password'[v] = IF v = u THEN "none" ELSE password[v]
          /\ \A v \in Users : verified'[v] = IF v = u THEN "no" ELSE verified[v]
          /\ \A v \in Users : google'[v] = IF v = u THEN "no" ELSE google[v]
          /\ sessions' = sessions \ {u}
      BY <1>8, <2>3 DEF Anonymise, TypeOK, WithoutGoogle
    <3>2. PasswordIsOwners' /\ Blank' /\ RowsKept
      BY <2>1, <3>1 DEF OwnInv, PasswordIsOwners, Blank, RowsKept, Established, Rows
    <3> QED
      BY <1>a, <2>1, <3>2
  <2> QED
    BY <1>8, <2>2, <2>3 DEF Anonymise
<1> QED
  BY <1>1, <1>2, <1>3, <1>4, <1>5, <1>6, <1>7, <1>8 DEF Proceeds

LEMMA OwnKept == TypeOK /\ OwnInv /\ [Next]_vars => OwnInv'
<1> SUFFICES ASSUME TypeOK, OwnInv, [Next]_vars
             PROVE  OwnInv'
  OBVIOUS
<1>1. ASSUME UNCHANGED <<users, call>>, sessions' \subseteq sessions
      PROVE  OwnInv'
  <2>1. PasswordIsOwners' /\ Blank' /\ RowsKept
    BY <1>1, RowsAlone
  <2> QED
    BY <1>1, <2>1, OwnElse DEF OwnInv
<1>2. ASSUME NEW l \in links, Reset(l)
      PROVE  OwnInv'
  <2> DEFINE owner == { u \in Users : l.state = "good" /\ Holds(u, l.address) /\ active[u] = "yes" }
  <2>1. /\ \A u \in Users : password'[u] = IF u \in owner THEN "owner" ELSE password[u]
        /\ \A u \in Users : verified'[u] = IF u \in owner THEN "yes" ELSE verified[u]
        /\ sessions' \subseteq sessions /\ UNCHANGED <<life, google, call>>
    BY <1>2 DEF Reset
  <2>2. \A u \in owner : life[u] = "member"
    BY DEF Holds
  <2> HIDE DEF owner
  <2>3. PasswordIsOwners' /\ Blank' /\ RowsKept
    BY <2>1, <2>2 DEF OwnInv, PasswordIsOwners, Blank, RowsKept, Established, Rows
  <2> QED
    BY <2>1, <2>3, OwnElse DEF OwnInv
<1>3. ASSUME NEW l \in links, Expire(l)
      PROVE  OwnInv'
  BY <1>1, <1>3 DEF Expire
<1>4. ASSUME NEW u \in sessions, CloseSession(u)
      PROVE  OwnInv'
  BY <1>1, <1>4 DEF CloseSession
<1>5. CASE UNCHANGED vars
  BY <1>1, <1>5 DEF vars
<1>6. CASE Next
  BY <1>2, <1>3, <1>4, <1>6, StartsOwn, ProceedsOwn DEF Next
<1> QED
  BY <1>5, <1>6

LEMMA InitOwn == Init => OwnInv
<1> SUFFICES ASSUME Init
             PROVE  OwnInv
  OBVIOUS
<1>1. \A u \in Users : password[u] \in {"owner", "none"} /\ life[u] \in {"member", "free"} /\ u \notin sessions
  BY DEF Init
<1>2. \A c \in Calls : call[c].at = "idle"
  BY IdleCall DEF Init
<1> QED
  BY <1>1, <1>2 DEF OwnInv, PasswordIsOwners, Blank, CallsOwn

\* Nobody signs in with a password that another typed at sign-up.
THEOREM PasswordsOwned == Spec => []PasswordIsOwners
<1>1. OwnInv => PasswordIsOwners
  BY DEF OwnInv
<1> QED
  BY <1>1, TypeCorrect, InitOwn, OwnKept, PTL DEF Spec

-----------------------------------------------------------------------------
(* Former members. *)

\* A row that was anonymised while nobody was signing in to it stays closed.
Quiet ==
  \A u \in Users : life[u] = "former" /\ u \notin crossed =>
    google[u] = "no" /\ u \notin sessions /\ ~SigningIn(u)

\* A step of c that neither links nor opens anything of u.
LEMMA QuietAfter ==
  ASSUME TypeOK, NEW c \in Calls, NEW at, NEW who, NEW actor, NEW value, NEW u \in Users,
         call' = [call EXCEPT ![c] = At(at, who, actor, value)],
         \A d \in Calls \ {c} :
           call[d].who = u => call[d].at \notin {"link google", "mark verified", "open session"},
         who = u => at \notin {"link google", "mark verified", "open session"}
  PROVE  ~SigningIn(u)'
<1> DEFINE new == At(at, who, actor, value)
<1>1. new.at = at /\ new.who = who
  BY DEF At
<1> HIDE DEF new
<1>2. \A d \in Calls : call'[d] = IF d = c THEN new ELSE call[d]
  BY DEF TypeOK, new
<1> QED
  BY <1>1, <1>2 DEF SigningIn

LEMMA StartsQuiet ==
  ASSUME TypeOK, Quiet, NEW c \in Calls, Starts(c), NEW u \in Users, life'[u] = "former", u \notin crossed'
  PROVE  google'[u] = "no" /\ u \notin sessions' /\ ~SigningIn(u)'
<1> PICK v \in Users :
    \/ \E typed \in {"none", "typed"} : SignUp(c, v, typed)
    \/ \E purpose \in Purposes : RequestLink(c, v, purpose)
    \/ \E l \in links, fresh \in {"none", "owner"} : Confirm(c, v, l, fresh)
    \/ Login(c, v)
    \/ GoogleSignUp(c, v) \/ GoogleSignIn(c, v) \/ GoogleLink(c, v)
    \/ \E actor \in Users :
         \/ \E value \in {"yes", "no"} : BeginStaff(c, actor, v, "set active", value)
         \/ \E value \in {"none", "staff", "super"} : BeginStaff(c, actor, v, "set role", value)
         \/ BeginStaff(c, actor, v, "anonymise", "none")
  BY DEF Starts
<1>a. ASSUME NEW at, NEW actor, NEW value, Begin(c, At(at, v, actor, value)), life[u] = "former",
             UNCHANGED google, sessions' \subseteq sessions,
             at \in {"link google", "mark verified", "open session"} => u # v
      PROVE  google'[u] = "no" /\ u \notin sessions' /\ ~SigningIn(u)'
  <2>1. call' = [call EXCEPT ![c] = At(at, v, actor, value)] /\ UNCHANGED crossed
    BY <1>a DEF Begin
  <2>2. google[u] = "no" /\ u \notin sessions /\ ~SigningIn(u)
    BY <1>a, <2>1 DEF Quiet
  <2>3. ~SigningIn(u)'
    BY <1>a, <2>1, <2>2, QuietAfter DEF SigningIn
  <2> QED
    BY <1>a, <2>2, <2>3
<1>b. ASSUME UNCHANGED <<life, crossed>>
      PROVE  life[u] = "former" /\ google[u] = "no"
  BY <1>b DEF Quiet
<1>1. ASSUME NEW typed, Insert(v, typed)
      PROVE  life[u] = "former" /\ u # v /\ UNCHANGED <<google, sessions>>
  <2>1. life' = [life EXCEPT ![v] = "member"] /\ UNCHANGED <<google, sessions>>
    BY <1>1 DEF Insert
  <2> QED
    BY <2>1 DEF TypeOK
<1>2. CASE (\E typed \in {"none", "typed"} : SignUp(c, v, typed)) \/ GoogleSignUp(c, v)
  BY <1>1, <1>2, <1>a DEF SignUp, GoogleSignUp
<1>3. CASE \E l \in links, fresh \in {"none", "owner"} : Confirm(c, v, l, fresh)
  <2>1. /\ Begin(c, At("open session", v, None, "none")) /\ life[v] = "member"
        /\ UNCHANGED <<life, google>> /\ sessions' \subseteq sessions
    BY <1>3 DEF Confirm, Holds
  <2>2. life[u] = "former" /\ u # v
    BY <2>1
  <2> QED
    BY <2>1, <2>2, <1>a
<1>4. CASE Login(c, v) \/ GoogleSignIn(c, v)
  <2>1. /\ Begin(c, At("open session", v, None, "none")) /\ (life[v] = "member" \/ google[v] = "yes")
        /\ UNCHANGED <<life, google, sessions, crossed>>
    BY <1>4 DEF Login, GoogleSignIn, users, Begin
  <2>2. life[u] = "former" /\ u # v
    BY <2>1, <1>b
  <2> QED
    BY <2>1, <2>2, <1>a
<1>5. CASE GoogleLink(c, v)
  <2>1. Begin(c, At("link google", v, None, "linked")) /\ life[v] = "member" /\ UNCHANGED <<life, google, sessions>>
    BY <1>5 DEF GoogleLink, users
  <2>2. life[u] = "former" /\ u # v
    BY <2>1
  <2> QED
    BY <2>1, <2>2, <1>a
<1>6. CASE \E purpose \in Purposes : RequestLink(c, v, purpose)
  BY <1>6, <1>a DEF RequestLink, users
<1>7. ASSUME NEW actor \in Users, NEW at \in {"set active", "set role", "anonymise"}, NEW value,
             BeginStaff(c, actor, v, at, value)
      PROVE  google'[u] = "no" /\ u \notin sessions' /\ ~SigningIn(u)'
  BY <1>7, <1>a DEF BeginStaff, users
<1> QED
  BY <1>2, <1>3, <1>4, <1>5, <1>6, <1>7

LEMMA ProceedsQuiet ==
  ASSUME TypeOK, Quiet, NEW c \in Calls, Proceeds(c) \/ Die(c), NEW u \in Users,
         life'[u] = "former", u \notin crossed'
  PROVE  google'[u] = "no" /\ u \notin sessions' /\ ~SigningIn(u)'
<1> DEFINE v == call[c].who
<1>a. ASSUME NEW at, NEW value, Goes(c, At(at, v, None, value)), google'[u] = "no", u \notin sessions',
             ~SigningIn(u), call[c].at \in {"link google", "mark verified"} \/ at \in {"drop links", "new link"}
      PROVE  google'[u] = "no" /\ u \notin sessions' /\ ~SigningIn(u)'
  <2>1. call' = [call EXCEPT ![c] = At(at, v, None, value)]
    BY <1>a DEF Goes
  <2>2. v = u => at \notin {"link google", "mark verified", "open session"}
    BY <1>a DEF SigningIn
  <2>3. ~SigningIn(u)'
    BY <1>a, <2>1, <2>2, QuietAfter DEF SigningIn
  <2> QED
    BY <1>a, <2>3
<1>b. ASSUME Goes(c, Idle), google'[u] = "no", u \notin sessions', ~SigningIn(u)
      PROVE  google'[u] = "no" /\ u \notin sessions' /\ ~SigningIn(u)'
  <2>1. call' = [call EXCEPT ![c] = At("idle", None, None, "none")]
    BY <1>b DEF Goes, Idle
  <2>2. ~SigningIn(u)'
    BY <1>b, <2>1, QuietAfter DEF SigningIn
  <2> QED
    BY <1>b, <2>2
<1>c. ASSUME UNCHANGED <<life, crossed>>
      PROVE  google[u] = "no" /\ u \notin sessions /\ ~SigningIn(u)
  BY <1>c DEF Quiet
<1>1. CASE LookUp(c) \/ DropLinks(c) \/ (\E t \in Tokens : NewLink(c, t)) \/ Die(c)
  <2>1. UNCHANGED <<life, google, sessions, crossed>>
    BY <1>1 DEF LookUp, DropLinks, NewLink, Die, users
  <2>2. \/ Goes(c, Idle)
        \/ \E at \in {"drop links", "new link"}, value \in Values : Goes(c, At(at, v, None, value))
    <3>1. "verify" \in Values /\ call[c].value \in Values
      BY CallOf DEF Values, Purposes
    <3> QED
      BY <1>1, <3>1 DEF LookUp, DropLinks, NewLink, Die
  <2> QED
    BY <2>1, <2>2, <1>a, <1>b, <1>c
<1>2. CASE OpenSession(c)
  <2>1. UNCHANGED <<life, google, crossed>> /\ sessions' = sessions \cup {v} /\ Goes(c, Idle)
    BY <1>2 DEF OpenSession, users
  <2>2. v # u
    BY <1>2, <2>1, <1>c DEF OpenSession, SigningIn
  <2> QED
    BY <2>1, <2>2, <1>b, <1>c
<1>3. CASE LinkGoogle(c)
  <2>1. UNCHANGED <<life, sessions, crossed>> /\ call[c].at = "link google"
    BY <1>3 DEF LinkGoogle
  <2>2. v # u
    BY <2>1, <1>c DEF SigningIn
  <2>3. google'[u] = google[u]
    BY <1>3, <2>2 DEF LinkGoogle, TypeOK
  <2>4. Goes(c, Idle) \/ Goes(c, At("mark verified", v, None, call[c].value))
    BY <1>3 DEF LinkGoogle
  <2> QED
    BY <2>1, <2>3, <2>4, <1>a, <1>b, <1>c
<1>4. CASE MarkVerified(c)
  <2>1. UNCHANGED <<life, google, sessions, crossed>> /\ call[c].at = "mark verified"
    BY <1>4 DEF MarkVerified
  <2>2. Goes(c, Idle) \/ Goes(c, At("open session", v, None, "none"))
    BY <1>4 DEF MarkVerified
  <2> QED
    BY <2>1, <2>2, <1>a, <1>b, <1>c
<1>5. CASE SetActive(c) \/ SetRole(c)
  <2>1. UNCHANGED <<life, google, crossed>> /\ sessions' \subseteq sessions /\ Goes(c, Idle)
    BY <1>5 DEF SetActive, SetRole
  <2> QED
    BY <2>1, <1>b, <1>c
<1>6. CASE Anonymise(c)
  <2>1. Goes(c, Idle)
    BY <1>6 DEF Anonymise
  <2>2. CASE UNCHANGED <<life, active, password, verified, google, sessions, links, crossed>>
    BY <2>1, <2>2, <1>b, <1>c
  <2>3. CASE SuperAdmin(call[c].actor) /\ role[v] = "none" /\ life[v] = "member"
    <3>1. /\ life' = [life EXCEPT ![v] = "former"] /\ google' = [google EXCEPT ![v] = "no"]
          /\ sessions' = sessions \ {v}
          /\ crossed' = IF SigningIn(v) THEN crossed \cup {v} ELSE crossed
      BY <1>6, <2>3 DEF Anonymise, WithoutGoogle
    <3>2. CASE u = v
      <4>1. google'[u] = "no" /\ u \notin sessions' /\ ~SigningIn(u)
        BY <3>1, <3>2 DEF TypeOK
      <4> QED
        BY <2>1, <4>1, <1>b
    <3>3. CASE u # v
      <4>1. life[u] = "former" /\ u \notin crossed /\ google'[u] = google[u]
        BY <3>1, <3>3 DEF TypeOK
      <4>2. google[u] = "no" /\ u \notin sessions /\ ~SigningIn(u)
        BY <4>1 DEF Quiet
      <4> QED
        BY <2>1, <3>1, <4>1, <4>2, <1>b
    <3> QED
      BY <3>2, <3>3
  <2> QED
    BY <1>6, <2>2, <2>3 DEF Anonymise
<1> QED
  BY <1>1, <1>2, <1>3, <1>4, <1>5, <1>6 DEF Proceeds

LEMMA QuietKept == TypeOK /\ Quiet /\ [Next]_vars => Quiet'
<1> SUFFICES ASSUME TypeOK, Quiet, [Next]_vars, NEW u \in Users, life'[u] = "former", u \notin crossed'
             PROVE  google'[u] = "no" /\ u \notin sessions' /\ ~SigningIn(u)'
  BY DEF Quiet
<1>1. ASSUME UNCHANGED <<life, google, call, crossed>>, sessions' \subseteq sessions
      PROVE  google'[u] = "no" /\ u \notin sessions' /\ ~SigningIn(u)'
  BY <1>1 DEF Quiet, SigningIn
<1>2. CASE (\E l \in links : Expire(l) \/ Reset(l)) \/ (\E v \in sessions : CloseSession(v)) \/ UNCHANGED vars
  <2>1. UNCHANGED <<life, google, call, crossed>> /\ sessions' \subseteq sessions
    BY <1>2 DEF Expire, Reset, CloseSession, vars, users
  <2> QED
    BY <1>1, <2>1
<1> QED
  BY <1>2, StartsQuiet, ProceedsQuiet DEF Next

LEMMA InitQuiet == Init => Quiet
  BY DEF Init, Quiet

\* No call gives a former member a password or a known address, and none opens a row that was anonymised while
\* nobody was signing in to it.
THEOREM ErasedForGood == Spec => []ErasedStays
<1>1. OwnInv /\ Quiet => ErasedStays
  BY DEF OwnInv, Blank, Quiet, ErasedStays
<1> QED
  BY <1>1, TypeCorrect, InitOwn, OwnKept, InitQuiet, QuietKept, PTL DEF Spec

=============================================================================

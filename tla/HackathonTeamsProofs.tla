------------------------- MODULE HackathonTeamsProofs -------------------------
(***************************************************************************)
(* What the tables of a hackathon keep for any number of people, teams and *)
(* overlapping calls: one membership each, of a team that is there, and    *)
(* votes for submitted entries only; and what a team keeps on which no     *)
(* calls have met: its leader, its size and its submitted entry.           *)
(***************************************************************************)
EXTENDS HackathonTeams, FiniteSetTheorems, TLAPS

\* A call that inserts a membership is that of a registered person, and one that hands over leadership
\* names a person.
ActorInv ==
  \A c \in Calls :
    /\ call[c].at \in {"insert team", "insert leader", "insert member"} => call[c].who \in registered
    /\ call[c].at \in {"promote", "demote", "rename"} => call[c].other \in Persons

\* A row of an entry that a call remembers is there, and is submitted where the call is about to vote.
RowInv ==
  \A c \in Calls, t \in Teams :
    EntryId(t) \in call[c].rows =>
      /\ entry[t].status # "none"
      /\ call[c].at = "cast" => entry[t].status = "submitted"

IInv == TypeOK /\ OneLiveTeam /\ VotesAreForSubmitted /\ ActorInv /\ RowInv

-----------------------------------------------------------------------------
(* Rows and calls. *)

\* The ids of the three tables differ.
LEMMA IdsDiffer ==
  ASSUME NEW t \in Teams, NEW u \in Teams, NEW p \in Persons
  PROVE  /\ EntryId(t) = EntryId(u) => t = u
         /\ EntryId(t) # MemberId(p)
         /\ EntryId(t) # VoteId(p, u)
  BY DEF EntryId, MemberId, VoteId

LEMMA IdsAreIds ==
  ASSUME NEW t \in Teams, NEW p \in Persons
  PROVE  EntryId(t) \in Ids /\ MemberId(p) \in Ids /\ VoteId(p, t) \in Ids /\ EntryRow(t) \subseteq Ids
<1>1. VoteId(p, t) \in { VoteId(v[1], v[2]) : v \in Persons \X Teams }
  <2>1. <<p, t>> \in Persons \X Teams /\ <<p, t>>[1] = p /\ <<p, t>>[2] = t
    OBVIOUS
  <2>2. QED
    BY <2>1
<1>2. QED
  BY <1>1 DEF Ids, EntryRow

\* The calls after a step of c that Goes describes: their fields are those before, but for where c is, and
\* rows are only forgotten.
LEMMA CallsAfter ==
  ASSUME TypeOK, NEW c \in Calls, NEW at \in Steps, NEW deleted, Goes(c, at, deleted),
         call[c].at # "idle"
  PROVE  /\ call' \in [Calls -> Call]
         /\ \A d \in Calls : call'[d].at # "idle" => call'[d].who \in Persons /\ call'[d].team \in Teams
         /\ \A d \in Calls : call'[d].at # "idle" =>
              /\ call'[d].who = call[d].who /\ call'[d].other = call[d].other
              /\ call'[d].team = call[d].team
         /\ \A d \in Calls : d # c => call'[d].at = call[d].at
         /\ call'[c].at = at
         /\ \A d \in Calls : call'[d].rows \subseteq call[d].rows \ deleted
<1>1. Idle \in Call /\ Idle.at = "idle" /\ Idle.rows = {}
  BY DEF Idle, At, Call, Steps, Contents
<1>2. \A d \in Calls : call[d] \in Call
  BY DEF TypeOK
<1> DEFINE new(d) == At(IF d = c THEN at ELSE call[d].at, call[d].who, call[d].team, call[d].other,
                        call[d].rows \ deleted, call[d].content)
<1>3. \A d \in Calls : new(d) \in Call
  BY <1>2 DEF At, Call
<1>4. \A d \in Calls : call'[d] = IF d = c /\ at = "idle" THEN Idle ELSE new(d)
  BY DEF Goes
<1>5. call' \in [Calls -> Call]
  BY <1>1, <1>3, <1>4 DEF Goes
<1>6. \A d \in Calls : /\ new(d).at = (IF d = c THEN at ELSE call[d].at)
                       /\ new(d).who = call[d].who /\ new(d).team = call[d].team
                       /\ new(d).other = call[d].other /\ new(d).rows = call[d].rows \ deleted
  BY DEF At
<1> HIDE DEF new
<1>7. QED
  BY <1>1, <1>4, <1>5, <1>6 DEF TypeOK

LEMMA OneMore ==
  ASSUME NEW n \in Nat, NEW m \in 0 .. n, m < n
  PROVE  m + 1 \in 0 .. n
  OBVIOUS

\* A call that starts knows what Begin gives it.
LEMMA BeginKeeps ==
  ASSUME IInv, NEW c \in Calls, NEW at \in Steps \ {"idle"}, NEW p \in Persons, NEW t \in Teams,
         NEW other \in Persons \cup {None}, NEW rows \in SUBSET Ids, NEW content \in Contents,
         Begin(c, at, p, t, other, rows, content),
         at \in {"insert team", "insert leader", "insert member"} => p \in registered,
         at \in {"promote", "demote", "rename"} => other \in Persons,
         \A u \in Teams : EntryId(u) \in rows =>
           entry[u].status # "none" /\ (at = "cast" => entry[u].status = "submitted")
  PROVE  IInv'
<1> DEFINE new == At(at, p, t, other, rows, content)
<1>1. new \in Call /\ new.at = at /\ new.who = p /\ new.team = t /\ new.other = other /\ new.rows = rows
  BY DEF At, Call
<1>2. call' = [call EXCEPT ![c] = new]
  BY DEF Begin
<1> HIDE DEF new
<1>0. made' = made + 1 /\ made < MaxCalls
  BY DEF Begin
<1>3. UNCHANGED <<tables, allowed, moves>>
  BY DEF Begin
<1>4. upset' \subseteq Teams
  <2> DEFINE others == { d \in Calls : call[d].at # "idle" /\ (call[d].team = t \/ call[d].who = p) }
  <2>1. { call[d].team : d \in others } \subseteq Teams
    BY DEF IInv, TypeOK
  <2>2. upset \subseteq Teams
    BY DEF IInv, TypeOK
  <2>3. upset' = upset \cup { call[d].team : d \in others } \cup (IF others = {} THEN {} ELSE {t})
                       \cup (IF other = p THEN {t} ELSE {})
    BY DEF Begin
  <2> HIDE DEF others
  <2> QED
    BY <2>1, <2>2, <2>3
<1>5. call' \in [Calls -> Call] /\ \A d \in Calls : call'[d] = IF d = c THEN new ELSE call[d]
  BY <1>1, <1>2 DEF IInv, TypeOK
<1>6. TypeOK'
  <2>1. \A d \in Calls : call'[d].at # "idle" => call'[d].who \in Persons /\ call'[d].team \in Teams
    BY <1>1, <1>5 DEF IInv, TypeOK
  <2>2. made' \in 0 .. MaxCalls
    <3>1. made \in 0 .. MaxCalls /\ MaxCalls \in Nat
      BY TeamsAssumption DEF IInv, TypeOK
    <3> QED
      BY <1>0, <3>1, OneMore
  <2>3. UNCHANGED <<event, registered, team, members, entry, votes, allowed, moves>>
    BY <1>3 DEF tables
  <2> QED
    BY <1>4, <1>5, <2>1, <2>2, <2>3 DEF IInv, TypeOK
<1>7. OneLiveTeam' /\ VotesAreForSubmitted'
  BY <1>3 DEF IInv, OneLiveTeam, VotesAreForSubmitted, RowsOf, Exists, tables
<1>8. ActorInv'
  BY <1>1, <1>3, <1>5 DEF IInv, ActorInv, tables
<1>9. RowInv'
  BY <1>1, <1>3, <1>5 DEF IInv, RowInv, tables
<1> QED
  BY <1>6, <1>7, <1>8, <1>9 DEF IInv

-----------------------------------------------------------------------------
(* A call starts. *)

\* What a call may have read of entries.
LEMMA RowsRead ==
  ASSUME NEW t \in Teams, NEW p \in Persons, NEW q \in Persons, NEW u \in Teams
  PROVE  /\ EntryId(u) \in EntryRow(t) => u = t /\ entry[t].status # "none"
         /\ EntryId(u) \notin {MemberId(p), MemberId(q)}
         /\ EntryId(u) \notin {VoteId(p, t)}
         /\ EntryId(u) \in {EntryId(t)} => u = t
  BY DEF EntryId, MemberId, VoteId, EntryRow

\* A call that neither inserts a membership, nor hands over, nor votes.
LEMMA PlainKeeps ==
  ASSUME IInv, NEW c \in Calls, NEW p \in Persons, NEW t \in Teams,
         NEW at \in {"drop entry", "leave", "disband", "insert draft", "update draft", "submit", "withdraw"},
         NEW rows \in SUBSET Ids, NEW content \in Contents,
         Begin(c, at, p, t, None, rows, content),
         \A u \in Teams : EntryId(u) \in rows => entry[u].status # "none"
  PROVE  IInv'
<1>1. /\ at \in Steps \ {"idle"} /\ at # "cast"
      /\ at \notin {"insert team", "insert leader", "insert member"}
      /\ at \notin {"promote", "demote", "rename"}
  BY DEF Steps
<1>2. None \in Persons \cup {None}
  OBVIOUS
<1>3. at \in {"insert team", "insert leader", "insert member"} => p \in registered
  BY <1>1
<1>4. at \in {"promote", "demote", "rename"} => None \in Persons
  BY <1>1
<1>5. \A u \in Teams : EntryId(u) \in rows =>
        entry[u].status # "none" /\ (at = "cast" => entry[u].status = "submitted")
  BY <1>1
<1> QED
  BY <1>1, <1>2, <1>3, <1>4, <1>5, BeginKeeps

LEMMA StartsKeep ==
  ASSUME IInv, NEW c \in Calls, Starts(c)
  PROVE  IInv'
<1> PICK p \in Persons, t \in Teams :
       \/ BeginCreate(c, p, t)
       \/ BeginJoin(c, p, t)
       \/ BeginDisband(c, p, t)
       \/ \E q \in Persons : BeginTransfer(c, p, q, t)
       \/ BeginLeave(c, p, t)
       \/ \E content \in {"partial", "complete"} : BeginSave(c, p, t, content)
       \/ BeginSubmit(c, p, t)
       \/ BeginVote(c, p, t)
  BY DEF Starts
<1> USE IdsAreIds DEF Steps, Contents
<1>0. /\ \A u \in Teams : EntryId(u) \in EntryRow(t) => u = t /\ entry[t].status # "none"
      /\ \A u \in Teams : EntryId(u) \in {EntryId(t)} => u = t
      /\ \A u \in Teams, q \in Persons : EntryId(u) \notin {MemberId(p), MemberId(q)}
      /\ \A u \in Teams : EntryId(u) \notin {VoteId(p, t)}
  BY RowsRead
<1>1. CASE BeginCreate(c, p, t)
  BY <1>1, BeginKeeps DEF BeginCreate
<1>2. CASE BeginJoin(c, p, t)
  BY <1>2, BeginKeeps DEF BeginJoin
<1>3. CASE BeginDisband(c, p, t)
  BY <1>0, <1>3, PlainKeeps DEF BeginDisband
<1>4. CASE \E q \in Persons : BeginTransfer(c, p, q, t)
  <2>1. PICK q \in Persons : BeginTransfer(c, p, q, t)
    BY <1>4
  <2>2. Begin(c, "promote", p, t, q, {MemberId(p), MemberId(q)}, "nothing")
    BY <2>1 DEF BeginTransfer
  <2>3. /\ {MemberId(p), MemberId(q)} \in SUBSET Ids
        /\ \A u \in Teams : EntryId(u) \in {MemberId(p), MemberId(q)} =>
             entry[u].status # "none" /\ ("promote" = "cast" => entry[u].status = "submitted")
    BY <1>0
  <2> QED
    BY <2>2, <2>3, BeginKeeps
<1>5. CASE BeginLeave(c, p, t)
  <2>1. PICK at \in {"leave", "disband"} : Begin(c, at, p, t, None, {}, "nothing")
    BY <1>5 DEF BeginLeave
  <2>2. "nothing" \in Contents /\ {} \in SUBSET Ids
    OBVIOUS
  <2>3. \A u \in Teams : EntryId(u) \in {} => entry[u].status # "none"
    OBVIOUS
  <2> QED
    BY <2>1, <2>2, <2>3, PlainKeeps, Zenon
<1>6. CASE \E content \in {"partial", "complete"} : BeginSave(c, p, t, content)
  <2>1. PICK content \in {"partial", "complete"} : BeginSave(c, p, t, content)
    BY <1>6
  <2>2. PICK at \in {"insert draft", "update draft"} : Begin(c, at, p, t, None, EntryRow(t), content)
    BY <2>1 DEF BeginSave
  <2>3. EntryRow(t) \in SUBSET Ids /\ \A u \in Teams : EntryId(u) \in EntryRow(t) => entry[u].status # "none"
    BY <1>0
  <2> QED
    BY <2>2, <2>3, PlainKeeps
<1>7. CASE BeginSubmit(c, p, t)
  <2>1. Begin(c, "submit", p, t, None, {EntryId(t)}, "nothing") /\ entry[t].status = "draft"
    BY <1>7 DEF BeginSubmit
  <2>2. /\ {EntryId(t)} \in SUBSET Ids
        /\ \A u \in Teams : EntryId(u) \in {EntryId(t)} => entry[u].status # "none"
    BY <1>0, <2>1
  <2> QED
    BY <2>1, <2>2, PlainKeeps
<1>8. CASE BeginVote(c, p, t)
  <2>1. entry[t].status = "submitted"
    BY <1>8 DEF BeginVote, MayVote
  <2>2. CASE Begin(c, "withdraw", p, t, None, {VoteId(p, t)}, "nothing")
    <3>1. {VoteId(p, t)} \in SUBSET Ids /\ \A u \in Teams : EntryId(u) \notin {VoteId(p, t)}
      BY <1>0
    <3> QED
      BY <2>2, <3>1, PlainKeeps
  <2>3. CASE Begin(c, "cast", p, t, None, {EntryId(t)}, "nothing")
    <3>1. /\ {EntryId(t)} \in SUBSET Ids
          /\ \A u \in Teams : EntryId(u) \in {EntryId(t)} =>
               entry[u].status # "none" /\ entry[u].status = "submitted"
      BY <1>0, <2>1
    <3> QED
      BY <2>3, <3>1, BeginKeeps
  <2> QED
    BY <1>8, <2>2, <2>3 DEF BeginVote
<1> QED
  BY <1>1, <1>2, <1>3, <1>4, <1>5, <1>6, <1>7, <1>8

-----------------------------------------------------------------------------
(* A call goes on. *)

\* What calls know stays true if entries only go forward, or go away with their rows.
LEMMA GoesKeeps ==
  ASSUME IInv, NEW c \in Calls, NEW at \in Steps \ {"cast"}, NEW deleted, Goes(c, at, deleted),
         call[c].at # "idle", registered' = registered,
         at \in {"insert team", "insert leader", "insert member"} => call[c].who \in registered,
         at \in {"promote", "demote", "rename"} => call[c].other \in Persons,
         \A t \in Teams : \/ entry'[t].status = entry[t].status
                         \/ entry'[t].status = "submitted"
                         \/ EntryId(t) \in deleted
                         \/ entry[t].status = "none"
  PROVE  ActorInv' /\ RowInv'
<1>1. /\ \A d \in Calls : call'[d].at # "idle" =>
           call'[d].who = call[d].who /\ call'[d].other = call[d].other
      /\ \A d \in Calls : d # c => call'[d].at = call[d].at
      /\ call'[c].at = at
      /\ \A d \in Calls : call'[d].rows \subseteq call[d].rows \ deleted
  BY CallsAfter DEF IInv
<1>2. ActorInv'
  BY <1>1 DEF IInv, ActorInv
<1>3. ASSUME NEW d \in Calls, NEW t \in Teams, EntryId(t) \in call'[d].rows
      PROVE  entry'[t].status # "none" /\ (call'[d].at = "cast" => entry'[t].status = "submitted")
  <2>1. /\ EntryId(t) \in call[d].rows /\ EntryId(t) \notin deleted
        /\ entry[t].status # "none"
        /\ call[d].at = "cast" => entry[t].status = "submitted"
    BY <1>1, <1>3 DEF IInv, RowInv
  <2>2. entry'[t].status = entry[t].status \/ entry'[t].status = "submitted"
    BY <2>1
  <2>3. call'[d].at = "cast" => call[d].at = "cast"
    BY <1>1
  <2> QED
    BY <2>1, <2>2, <2>3
<1>4. RowInv'
  BY <1>3 DEF RowInv
<1> QED
  BY <1>2, <1>4

\* The types of the tables after a step that Goes describes.
LEMMA GoesTypes ==
  ASSUME IInv, NEW c \in Calls, NEW at \in Steps, NEW deleted, Goes(c, at, deleted),
         call[c].at # "idle", UNCHANGED <<event, registered, allowed, moves, made, upset>>,
         team' \in [Teams -> Persons \cup {"unborn", "gone"}], members' \subseteq Membership,
         entry' \in [Teams -> Entry], votes' \subseteq Persons \X Teams
  PROVE  TypeOK'
<1>1. /\ call' \in [Calls -> Call]
      /\ \A d \in Calls : call'[d].at # "idle" => call'[d].who \in Persons /\ call'[d].team \in Teams
  BY CallsAfter DEF IInv
<1> QED
  BY <1>1 DEF IInv, TypeOK

\* The call of a step that writes is somebody's, about a team.
LEMMA Whose ==
  ASSUME IInv, NEW c \in Calls, call[c].at # "idle"
  PROVE  /\ call[c].who \in Persons /\ call[c].team \in Teams /\ call[c] \in Call
         /\ team \in [Teams -> Persons \cup {"unborn", "gone"}] /\ members \subseteq Membership
         /\ entry \in [Teams -> Entry] /\ votes \subseteq Persons \X Teams
  BY DEF IInv, TypeOK

LEMMA InsertTeamKeeps ==
  ASSUME IInv, NEW c \in Calls, InsertTeam(c)
  PROVE  IInv'
<1>1. /\ call[c].at = "insert team" /\ Goes(c, "insert leader", {})
      /\ team' = [team EXCEPT ![call[c].team] = call[c].who]
      /\ UNCHANGED <<event, registered, members, entry, votes, allowed, moves, made, upset>>
  BY DEF InsertTeam
<1>2. "insert leader" \in Steps /\ "insert leader" # "cast"
  BY DEF Steps
<1>3. TypeOK'
  BY <1>1, <1>2, Whose, GoesTypes
<1>4. call[c].who \in registered
  BY <1>1 DEF IInv, ActorInv
<1>5. ActorInv' /\ RowInv'
  BY <1>1, <1>2, <1>4, GoesKeeps
<1>6. OneLiveTeam'
  BY <1>1, Whose DEF IInv, OneLiveTeam, RowsOf, Exists, Membership
<1>7. VotesAreForSubmitted'
  BY <1>1 DEF IInv, VotesAreForSubmitted
<1> QED
  BY <1>3, <1>5, <1>6, <1>7 DEF IInv

LEMMA InsertMemberKeeps ==
  ASSUME IInv, NEW c \in Calls, InsertMember(c)
  PROVE  IInv'
<1> DEFINE new == [who |-> call[c].who, team |-> call[c].team,
                   role |-> IF call[c].at = "insert leader" THEN "leader" ELSE "member"]
<1>1. /\ call[c].at \in {"insert leader", "insert member"} /\ Goes(c, "idle", {})
      /\ members' = IF UniqueMember(call[c].who) /\ Exists(call[c].team)
                      THEN members \cup {new} ELSE members
      /\ UNCHANGED <<event, registered, team, entry, votes, allowed, moves, made, upset>>
  BY DEF InsertMember
<1>2. "idle" \in Steps /\ "idle" # "cast" /\ call[c].at # "idle"
  BY <1>1 DEF Steps
<1>3. new \in Membership /\ new.who = call[c].who /\ new.team = call[c].team
  BY <1>2, Whose DEF Membership, Roles
<1> HIDE DEF new
<1>4. TypeOK'
  BY <1>1, <1>2, <1>3, Whose, GoesTypes
<1>5. ActorInv' /\ RowInv'
  BY <1>1, <1>2, GoesKeeps
<1>6. OneLiveTeam'
  <2>1. call[c].who \in registered
    BY <1>1 DEF IInv, ActorInv
  <2>2. CASE UniqueMember(call[c].who) /\ Exists(call[c].team)
    <3>1. \A m \in members : m.who # new.who
      BY <1>3, <2>2 DEF UniqueMember, RowsOf
    <3> QED
      BY <1>1, <1>3, <2>1, <2>2, <3>1 DEF IInv, OneLiveTeam, RowsOf, Exists
  <2>3. CASE ~ (UniqueMember(call[c].who) /\ Exists(call[c].team))
    BY <1>1, <2>3 DEF IInv, OneLiveTeam, RowsOf, Exists
  <2> QED
    BY <2>2, <2>3
<1>7. VotesAreForSubmitted'
  BY <1>1 DEF IInv, VotesAreForSubmitted
<1> QED
  BY <1>4, <1>5, <1>6, <1>7 DEF IInv

LEMMA DropEntryKeeps ==
  ASSUME IInv, NEW c \in Calls, DropEntry(c)
  PROVE  IInv'
<1>1. /\ call[c].at = "drop entry"
      /\ \/ /\ entry' = [entry EXCEPT ![call[c].team] = NoEntry]
            /\ votes' = votes \ VotesFor(call[c].team)
            /\ Goes(c, "drop members", {EntryId(call[c].team)} \cup VoteIds(call[c].team))
         \/ UNCHANGED <<entry, votes>> /\ Goes(c, "drop members", {})
      /\ UNCHANGED <<event, registered, team, members, allowed, moves, made, upset>>
  BY DEF DropEntry
<1>2. "drop members" \in Steps /\ "drop members" # "cast" /\ call[c].at # "idle"
  BY <1>1 DEF Steps
<1>3. TypeOK'
  <2>1. NoEntry \in Entry
    BY DEF NoEntry, Entry, Contents
  <2>2. entry' \in [Teams -> Entry] /\ votes' \subseteq Persons \X Teams
    BY <1>1, <1>2, <2>1, Whose
  <2> QED
    BY <1>1, <1>2, <2>2, Whose, GoesTypes
<1>4. ActorInv' /\ RowInv'
  <2>1. CASE UNCHANGED entry /\ Goes(c, "drop members", {})
    BY <1>1, <1>2, <2>1, GoesKeeps
  <2>2. CASE /\ entry' = [entry EXCEPT ![call[c].team] = NoEntry]
             /\ Goes(c, "drop members", {EntryId(call[c].team)} \cup VoteIds(call[c].team))
    <3>1. \A t \in Teams : \/ entry'[t].status = entry[t].status
                           \/ EntryId(t) \in {EntryId(call[c].team)} \cup VoteIds(call[c].team)
      BY <1>2, <2>2, Whose
    <3> QED
      BY <1>1, <1>2, <2>2, <3>1, GoesKeeps
  <2> QED
    BY <1>1, <2>1, <2>2
<1>5. OneLiveTeam'
  BY <1>1 DEF IInv, OneLiveTeam, RowsOf, Exists
<1>6. VotesAreForSubmitted'
  <2>1. CASE UNCHANGED <<entry, votes>>
    BY <2>1 DEF IInv, VotesAreForSubmitted
  <2>2. CASE /\ entry' = [entry EXCEPT ![call[c].team] = NoEntry]
             /\ votes' = votes \ VotesFor(call[c].team)
    <3>1. \A v \in votes' : v \in votes /\ v[2] \in Teams /\ v[2] # call[c].team
      BY <1>2, <2>2, Whose DEF VotesFor
    <3>2. \A v \in votes' : entry'[v[2]] = entry[v[2]]
      BY <1>2, <2>2, <3>1, Whose
    <3> QED
      BY <3>1, <3>2 DEF IInv, VotesAreForSubmitted
  <2> QED
    BY <1>1, <2>1, <2>2
<1> QED
  BY <1>3, <1>4, <1>5, <1>6 DEF IInv

LEMMA DropMembersKeeps ==
  ASSUME IInv, NEW c \in Calls, DropMembers(c)
  PROVE  IInv'
<1>1. /\ call[c].at = "drop members"
      /\ members' = members \ MembersOf(call[c].team)
      /\ Goes(c, "drop team", { MemberId(m.who) : m \in MembersOf(call[c].team) })
      /\ UNCHANGED <<event, registered, team, entry, votes, allowed, moves, made, upset>>
  BY DEF DropMembers
<1>2. "drop team" \in Steps /\ "drop team" # "cast" /\ call[c].at # "idle"
  BY <1>1 DEF Steps
<1>3. TypeOK'
  BY <1>1, <1>2, Whose, GoesTypes
<1>4. ActorInv' /\ RowInv'
  BY <1>1, <1>2, GoesKeeps
<1>5. OneLiveTeam'
  BY <1>1 DEF IInv, OneLiveTeam, RowsOf, Exists
<1>6. VotesAreForSubmitted'
  BY <1>1 DEF IInv, VotesAreForSubmitted
<1> QED
  BY <1>3, <1>4, <1>5, <1>6 DEF IInv

LEMMA DropTeamKeeps ==
  ASSUME IInv, NEW c \in Calls, DropTeam(c)
  PROVE  IInv'
<1> DEFINE deleted == { MemberId(m.who) : m \in MembersOf(call[c].team) } \cup {EntryId(call[c].team)}
                        \cup VoteIds(call[c].team)
<1>1. /\ call[c].at = "drop team"
      /\ team' = [team EXCEPT ![call[c].team] = "gone"]
      /\ members' = members \ MembersOf(call[c].team)
      /\ entry' = [entry EXCEPT ![call[c].team] = NoEntry]
      /\ votes' = votes \ VotesFor(call[c].team)
      /\ Goes(c, "idle", deleted)
      /\ UNCHANGED <<event, registered, allowed, moves, made, upset>>
  BY DEF DropTeam
<1>2. "idle" \in Steps /\ "idle" # "cast" /\ call[c].at # "idle"
  BY <1>1 DEF Steps
<1>3. TypeOK'
  <2>1. NoEntry \in Entry
    BY DEF NoEntry, Entry, Contents
  <2>2. /\ team' \in [Teams -> Persons \cup {"unborn", "gone"}] /\ members' \subseteq Membership
        /\ entry' \in [Teams -> Entry] /\ votes' \subseteq Persons \X Teams
    BY <1>1, <1>2, <2>1, Whose
  <2> QED
    BY <1>1, <1>2, <2>2, GoesTypes
<1>4. ActorInv' /\ RowInv'
  <2>1. \A t \in Teams : entry'[t].status = entry[t].status \/ EntryId(t) \in deleted
    BY <1>1, <1>2, Whose
  <2> HIDE DEF deleted
  <2> QED
    BY <1>1, <1>2, <2>1, GoesKeeps
<1>5. OneLiveTeam'
  <2>1. \A m \in members' : m \in members /\ m.team # call[c].team /\ m.team \in Teams
    BY <1>1, <1>2, Whose DEF MembersOf, Membership
  <2>2. \A m \in members' : team'[m.team] = team[m.team]
    BY <1>1, <1>2, <2>1, Whose
  <2> QED
    BY <1>1, <2>1, <2>2 DEF IInv, OneLiveTeam, RowsOf, Exists
<1>6. VotesAreForSubmitted'
  BY <1>1, <1>2, Whose DEF IInv, VotesAreForSubmitted, VotesFor
<1> QED
  BY <1>3, <1>4, <1>5, <1>6 DEF IInv

\* A change of roles leaves everybody where they are.
LEMMA GiveRoleKeeps ==
  ASSUME IInv, NEW c \in Calls, NEW p \in Persons, NEW role \in Roles, GiveRole(c, p, role),
         UNCHANGED <<registered, team>>
  PROVE  members' \subseteq Membership /\ OneLiveTeam'
<1> DEFINE new(m) == IF m.who = p /\ MemberId(p) \in call[c].rows
                       THEN [who |-> m.who, team |-> m.team, role |-> role] ELSE m
<1>1. members' = { new(m) : m \in members }
  BY DEF GiveRole
<1>2. \A m \in members : new(m) \in Membership /\ new(m).who = m.who /\ new(m).team = m.team
  BY DEF Membership, IInv, TypeOK
<1> HIDE DEF new
<1>3. \A m, n \in members : m.who = n.who => m = n
  BY DEF IInv, OneLiveTeam, RowsOf
<1>4. \A m, n \in members' : m.who = n.who => m = n
  BY <1>1, <1>2, <1>3
<1>5. \A m \in members' : Exists(m.team)' /\ m.who \in registered'
  BY <1>1, <1>2 DEF IInv, OneLiveTeam, Exists
<1> QED
  BY <1>1, <1>2, <1>4, <1>5 DEF OneLiveTeam, RowsOf

LEMMA PromoteKeeps ==
  ASSUME IInv, NEW c \in Calls, Promote(c)
  PROVE  IInv'
<1>1. /\ call[c].at = "promote" /\ GiveRole(c, call[c].other, "leader") /\ Goes(c, "demote", {})
      /\ UNCHANGED <<event, registered, team, entry, votes, allowed, moves, made, upset>>
  BY DEF Promote
<1>2. "demote" \in Steps /\ "demote" # "cast" /\ call[c].at # "idle"
  BY <1>1 DEF Steps
<1>0. members' \subseteq Membership /\ OneLiveTeam'
  <2>1. call[c].other \in Persons /\ "leader" \in Roles
    BY <1>1, <1>2, Whose DEF IInv, ActorInv, Roles
  <2> QED
    BY <1>1, <2>1, GiveRoleKeeps
<1>3. TypeOK'
  BY <1>0, <1>1, <1>2, Whose, GoesTypes
<1>4. ActorInv' /\ RowInv'
  <2>1. call[c].other \in Persons
    BY <1>1 DEF IInv, ActorInv
  <2> QED
    BY <1>1, <1>2, <2>1, GoesKeeps
<1>5. OneLiveTeam'
  BY <1>0
<1>6. VotesAreForSubmitted'
  BY <1>1 DEF IInv, VotesAreForSubmitted
<1> QED
  BY <1>3, <1>4, <1>5, <1>6 DEF IInv

LEMMA DemoteKeeps ==
  ASSUME IInv, NEW c \in Calls, Demote(c)
  PROVE  IInv'
<1>1. /\ call[c].at = "demote" /\ GiveRole(c, call[c].who, "member") /\ Goes(c, "rename", {})
      /\ UNCHANGED <<event, registered, team, entry, votes, allowed, moves, made, upset>>
  BY DEF Demote
<1>2. "rename" \in Steps /\ "rename" # "cast" /\ call[c].at # "idle"
  BY <1>1 DEF Steps
<1>0. members' \subseteq Membership /\ OneLiveTeam'
  <2>1. call[c].who \in Persons /\ "member" \in Roles
    BY <1>1, <1>2, Whose DEF IInv, ActorInv, Roles
  <2> QED
    BY <1>1, <2>1, GiveRoleKeeps
<1>3. TypeOK'
  BY <1>0, <1>1, <1>2, Whose, GoesTypes
<1>4. ActorInv' /\ RowInv'
  <2>1. call[c].other \in Persons
    BY <1>1 DEF IInv, ActorInv
  <2> QED
    BY <1>1, <1>2, <2>1, GoesKeeps
<1>5. OneLiveTeam'
  BY <1>0
<1>6. VotesAreForSubmitted'
  BY <1>1 DEF IInv, VotesAreForSubmitted
<1> QED
  BY <1>3, <1>4, <1>5, <1>6 DEF IInv

LEMMA RenameKeeps ==
  ASSUME IInv, NEW c \in Calls, Rename(c)
  PROVE  IInv'
<1>1. /\ call[c].at = "rename" /\ Goes(c, "idle", {})
      /\ team' = (IF Exists(call[c].team) THEN [team EXCEPT ![call[c].team] = call[c].other] ELSE team)
      /\ UNCHANGED <<event, registered, members, entry, votes, allowed, moves, made, upset>>
  BY DEF Rename
<1>2. "idle" \in Steps /\ "idle" # "cast" /\ call[c].at # "idle"
  BY <1>1 DEF Steps
<1>0. call[c].other \in Persons
  BY <1>1 DEF IInv, ActorInv
<1>3. TypeOK'
  BY <1>0, <1>1, <1>2, Whose, GoesTypes
<1>4. ActorInv' /\ RowInv'
  BY <1>1, <1>2, GoesKeeps
<1>5. OneLiveTeam'
  BY <1>0, <1>1, <1>2, Whose DEF IInv, OneLiveTeam, RowsOf, Exists, Membership
<1>6. VotesAreForSubmitted'
  BY <1>1 DEF IInv, VotesAreForSubmitted
<1> QED
  BY <1>3, <1>4, <1>5, <1>6 DEF IInv

LEMMA DeleteMineKeeps ==
  ASSUME IInv, NEW c \in Calls, DeleteMine(c)
  PROVE  IInv'
<1>1. /\ call[c].at = "leave" /\ Goes(c, "idle", {MemberId(call[c].who)})
      /\ members' = members \ RowsOf(call[c].who)
      /\ UNCHANGED <<event, registered, team, entry, votes, allowed, moves, made, upset>>
  BY DEF DeleteMine
<1>2. "idle" \in Steps /\ "idle" # "cast" /\ call[c].at # "idle"
  BY <1>1 DEF Steps
<1>3. TypeOK'
  BY <1>1, <1>2, Whose, GoesTypes
<1>4. ActorInv' /\ RowInv'
  BY <1>1, <1>2, GoesKeeps
<1>5. OneLiveTeam'
  BY <1>1 DEF IInv, OneLiveTeam, RowsOf, Exists
<1>6. VotesAreForSubmitted'
  BY <1>1 DEF IInv, VotesAreForSubmitted
<1> QED
  BY <1>3, <1>4, <1>5, <1>6 DEF IInv

LEMMA InsertDraftKeeps ==
  ASSUME IInv, NEW c \in Calls, InsertDraft(c)
  PROVE  IInv'
<1> DEFINE t == call[c].team
           new == [status |-> "draft", content |-> call[c].content]
<1>1. /\ call[c].at = "insert draft" /\ Goes(c, "idle", {})
      /\ entry' = IF Exists(t) /\ entry[t].status = "none" THEN [entry EXCEPT ![t] = new] ELSE entry
      /\ UNCHANGED <<event, registered, team, members, votes, allowed, moves, made, upset>>
  BY DEF InsertDraft
<1>2. "idle" \in Steps /\ "idle" # "cast" /\ call[c].at # "idle"
  BY <1>1 DEF Steps
<1>7. t \in Teams /\ new \in Entry /\ new.status = "draft"
  BY <1>1, <1>2, Whose DEF Call, Entry
<1>8. \A u \in Teams : \/ entry'[u].status = entry[u].status
                      \/ entry'[u].status = "submitted"
                      \/ entry[u].status = "none"
  BY <1>1, <1>2, <1>7, Whose
<1> HIDE DEF new
<1>3. TypeOK'
  BY <1>1, <1>2, <1>7, Whose, GoesTypes
<1>4. ActorInv' /\ RowInv'
  BY <1>1, <1>2, <1>8, GoesKeeps
<1>5. OneLiveTeam'
  BY <1>1 DEF IInv, OneLiveTeam, RowsOf, Exists
<1>6. VotesAreForSubmitted'
  <2>1. \A u \in Teams : entry[u].status = "submitted" => entry'[u].status = "submitted"
    BY <1>8
  <2> QED
    BY <1>1, <1>2, <2>1, Whose DEF IInv, VotesAreForSubmitted
<1> QED
  BY <1>3, <1>4, <1>5, <1>6 DEF IInv

LEMMA UpdateDraftKeeps ==
  ASSUME IInv, NEW c \in Calls, UpdateDraft(c)
  PROVE  IInv'
<1> DEFINE t == call[c].team
           new == [status |-> entry[t].status, content |-> call[c].content]
<1>1. /\ call[c].at = "update draft" /\ Goes(c, "idle", {})
      /\ entry' = IF EntryId(t) \in call[c].rows THEN [entry EXCEPT ![t] = new] ELSE entry
      /\ UNCHANGED <<event, registered, team, members, votes, allowed, moves, made, upset>>
  BY DEF UpdateDraft
<1>2. "idle" \in Steps /\ "idle" # "cast" /\ call[c].at # "idle"
  BY <1>1 DEF Steps
<1>7. t \in Teams /\ new \in Entry /\ new.status = entry[t].status
  BY <1>1, <1>2, Whose DEF Call, Entry
<1>8. \A u \in Teams : \/ entry'[u].status = entry[u].status
                      \/ entry'[u].status = "submitted"
                      \/ entry[u].status = "none"
  BY <1>1, <1>2, <1>7, Whose
<1> HIDE DEF new
<1>3. TypeOK'
  BY <1>1, <1>2, <1>7, Whose, GoesTypes
<1>4. ActorInv' /\ RowInv'
  BY <1>1, <1>2, <1>8, GoesKeeps
<1>5. OneLiveTeam'
  BY <1>1 DEF IInv, OneLiveTeam, RowsOf, Exists
<1>6. VotesAreForSubmitted'
  <2>1. \A u \in Teams : entry[u].status = "submitted" => entry'[u].status = "submitted"
    BY <1>8
  <2> QED
    BY <1>1, <1>2, <2>1, Whose DEF IInv, VotesAreForSubmitted
<1> QED
  BY <1>3, <1>4, <1>5, <1>6 DEF IInv

LEMMA SubmitKeeps ==
  ASSUME IInv, NEW c \in Calls, Submit(c)
  PROVE  IInv'
<1> DEFINE t == call[c].team
           new == [status |-> "submitted", content |-> entry[t].content]
<1>1. /\ call[c].at = "submit" /\ Goes(c, "idle", {})
      /\ entry' = IF EntryId(t) \in call[c].rows THEN [entry EXCEPT ![t] = new] ELSE entry
      /\ UNCHANGED <<event, registered, team, members, votes, allowed, moves, made, upset>>
  BY DEF Submit
<1>2. "idle" \in Steps /\ "idle" # "cast" /\ call[c].at # "idle"
  BY <1>1 DEF Steps
<1>7. t \in Teams /\ new \in Entry /\ new.status = "submitted"
  BY <1>1, <1>2, Whose DEF Call, Entry
<1>8. \A u \in Teams : \/ entry'[u].status = entry[u].status
                      \/ entry'[u].status = "submitted"
                      \/ entry[u].status = "none"
  BY <1>1, <1>2, <1>7, Whose
<1> HIDE DEF new
<1>3. TypeOK'
  BY <1>1, <1>2, <1>7, Whose, GoesTypes
<1>4. ActorInv' /\ RowInv'
  BY <1>1, <1>2, <1>8, GoesKeeps
<1>5. OneLiveTeam'
  BY <1>1 DEF IInv, OneLiveTeam, RowsOf, Exists
<1>6. VotesAreForSubmitted'
  <2>1. \A u \in Teams : entry[u].status = "submitted" => entry'[u].status = "submitted"
    BY <1>8
  <2> QED
    BY <1>1, <1>2, <2>1, Whose DEF IInv, VotesAreForSubmitted
<1> QED
  BY <1>3, <1>4, <1>5, <1>6 DEF IInv

LEMMA CastKeeps ==
  ASSUME IInv, NEW c \in Calls, Cast(c)
  PROVE  IInv'
<1> DEFINE t == call[c].team
<1>1. /\ call[c].at = "cast" /\ Goes(c, "idle", {})
      /\ votes' = IF EntryId(t) \in call[c].rows THEN votes \cup {<<call[c].who, t>>} ELSE votes
      /\ UNCHANGED <<event, registered, team, members, entry, allowed, moves, made, upset>>
  BY DEF Cast
<1>2. "idle" \in Steps /\ "idle" # "cast" /\ call[c].at # "idle"
  BY <1>1 DEF Steps
<1>3. TypeOK'
  BY <1>1, <1>2, Whose, GoesTypes
<1>4. ActorInv' /\ RowInv'
  BY <1>1, <1>2, GoesKeeps
<1>5. OneLiveTeam'
  BY <1>1 DEF IInv, OneLiveTeam, RowsOf, Exists
<1>6. VotesAreForSubmitted'
  <2>1. EntryId(t) \in call[c].rows => entry[t].status = "submitted"
    BY <1>1, <1>2, Whose DEF IInv, RowInv
  <2> QED
    BY <1>1, <2>1 DEF IInv, VotesAreForSubmitted
<1> QED
  BY <1>3, <1>4, <1>5, <1>6 DEF IInv

LEMMA WithdrawKeeps ==
  ASSUME IInv, NEW c \in Calls, Withdraw(c)
  PROVE  IInv'
<1>1. /\ call[c].at = "withdraw" /\ Goes(c, "idle", {VoteId(call[c].who, call[c].team)})
      /\ votes' \subseteq votes
      /\ UNCHANGED <<event, registered, team, members, entry, allowed, moves, made, upset>>
  BY DEF Withdraw
<1>2. "idle" \in Steps /\ "idle" # "cast" /\ call[c].at # "idle"
  BY <1>1 DEF Steps
<1>3. TypeOK'
  BY <1>1, <1>2, Whose, GoesTypes
<1>4. ActorInv' /\ RowInv'
  BY <1>1, <1>2, GoesKeeps
<1>5. OneLiveTeam'
  BY <1>1 DEF IInv, OneLiveTeam, RowsOf, Exists
<1>6. VotesAreForSubmitted'
  BY <1>1 DEF IInv, VotesAreForSubmitted
<1> QED
  BY <1>3, <1>4, <1>5, <1>6 DEF IInv

LEMMA RereadKeeps ==
  ASSUME IInv, NEW c \in Calls, Reread(c)
  PROVE  IInv'
<1>1. call[c].at = "disband" /\ call[c].at # "idle" /\ UNCHANGED <<tables, allowed, moves, made>>
  BY DEF Reread
<1>2. UNCHANGED <<event, registered, team, members, entry, votes, allowed, moves, made>>
  BY <1>1 DEF tables
<1>3. CASE Goes(c, "idle", {}) /\ UNCHANGED upset
  <2>1. "idle" \in Steps /\ "idle" # "cast"
    BY DEF Steps
  <2>2. TypeOK'
    BY <1>1, <1>2, <1>3, <2>1, Whose, GoesTypes
  <2>3. ActorInv' /\ RowInv'
    BY <1>1, <1>2, <1>3, <2>1, GoesKeeps
  <2>4. OneLiveTeam' /\ VotesAreForSubmitted'
    BY <1>2 DEF IInv, OneLiveTeam, RowsOf, Exists, VotesAreForSubmitted
  <2> QED
    BY <2>2, <2>3, <2>4 DEF IInv
<1>4. ASSUME NEW t \in Teams,
             call' = [call EXCEPT ![c] = At("drop entry", call[c].who, t, None, EntryRow(t), "nothing")],
             upset' = IF \E d \in Calls \ {c} : call[d].team = t THEN upset \cup {t} ELSE upset
      PROVE  IInv'
  <2> DEFINE new == At("drop entry", call[c].who, t, None, EntryRow(t), "nothing")
  <2>1. EntryRow(t) \subseteq Ids
    BY <1>1, Whose, IdsAreIds
  <2>2. /\ new \in Call /\ new.at = "drop entry" /\ new.who \in Persons /\ new.team = t
        /\ new.rows = EntryRow(t)
    BY <1>1, <2>1, Whose DEF At, Call, Steps, Contents
  <2> HIDE DEF new
  <2>3. call' \in [Calls -> Call] /\ \A d \in Calls : call'[d] = IF d = c THEN new ELSE call[d]
    BY <1>4, <2>2 DEF IInv, TypeOK, new
  <2>4. upset' \subseteq Teams
    BY <1>4 DEF IInv, TypeOK
  <2>5. \A d \in Calls : call'[d].at # "idle" => call'[d].who \in Persons /\ call'[d].team \in Teams
    BY <2>2, <2>3 DEF IInv, TypeOK
  <2>6. TypeOK'
    BY <1>2, <2>3, <2>4, <2>5 DEF IInv, TypeOK
  <2>7. OneLiveTeam' /\ VotesAreForSubmitted'
    BY <1>2 DEF IInv, OneLiveTeam, RowsOf, Exists, VotesAreForSubmitted
  <2>8. ActorInv'
    BY <1>2, <2>2, <2>3 DEF IInv, ActorInv
  <2>9. \A u \in Teams : EntryId(u) \in new.rows => entry[u].status # "none"
    <3>1. \A u \in Teams : EntryId(u) \in EntryRow(t) => u = t /\ entry[t].status # "none"
      BY DEF EntryId, EntryRow
    <3> QED
      BY <2>2, <3>1
  <2>10. RowInv'
    BY <1>2, <2>2, <2>3, <2>9 DEF IInv, RowInv
  <2> QED
    BY <2>6, <2>7, <2>8, <2>10 DEF IInv
<1> QED
  BY <1>1, <1>3, <1>4 DEF Reread

LEMMA DieKeeps ==
  ASSUME IInv, NEW c \in Calls, Die(c)
  PROVE  IInv'
<1>1. /\ call[c].at # "idle" /\ upset' = upset \cup {call[c].team}
      /\ call' = [call EXCEPT ![c] = Idle]
      /\ UNCHANGED <<event, registered, team, members, entry, votes, allowed, moves, made>>
  BY DEF Die, tables
<1>2. Idle \in Call /\ Idle.at = "idle" /\ Idle.rows = {}
  BY DEF Idle, At, Call, Steps, Contents
<1>3. call' \in [Calls -> Call] /\ \A d \in Calls : call'[d] = IF d = c THEN Idle ELSE call[d]
  BY <1>1, <1>2 DEF IInv, TypeOK
<1>4. upset' \subseteq Teams
  BY <1>1, Whose DEF IInv, TypeOK
<1>5. \A d \in Calls : call'[d].at # "idle" => call'[d].who \in Persons /\ call'[d].team \in Teams
  BY <1>2, <1>3 DEF IInv, TypeOK
<1>6. TypeOK'
  BY <1>1, <1>3, <1>4, <1>5 DEF IInv, TypeOK
<1>7. OneLiveTeam' /\ VotesAreForSubmitted'
  BY <1>1 DEF IInv, OneLiveTeam, RowsOf, Exists, VotesAreForSubmitted
<1>8. ActorInv' /\ RowInv'
  BY <1>1, <1>2, <1>3 DEF IInv, ActorInv, RowInv
<1> QED
  BY <1>6, <1>7, <1>8 DEF IInv

LEMMA WritesKeep ==
  ASSUME IInv, NEW c \in Calls, Writes(c)
  PROVE  IInv'
<1>1. CASE InsertTeam(c) \/ InsertMember(c)
  BY <1>1, InsertTeamKeeps, InsertMemberKeeps
<1>2. CASE Reread(c) \/ DropEntry(c) \/ DropMembers(c) \/ DropTeam(c)
  BY <1>2, RereadKeeps, DropEntryKeeps, DropMembersKeeps, DropTeamKeeps
<1>3. CASE Promote(c) \/ Demote(c) \/ Rename(c)
  BY <1>3, PromoteKeeps, DemoteKeeps, RenameKeeps
<1>4. CASE DeleteMine(c)
  BY <1>4, DeleteMineKeeps
<1>5. CASE InsertDraft(c) \/ UpdateDraft(c) \/ Submit(c)
  BY <1>5, InsertDraftKeeps, UpdateDraftKeeps, SubmitKeeps
<1>6. CASE Cast(c) \/ Withdraw(c)
  BY <1>6, CastKeeps, WithdrawKeeps
<1> QED
  BY <1>1, <1>2, <1>3, <1>4, <1>5, <1>6 DEF Writes

-----------------------------------------------------------------------------
(* The theorems. *)

LEMMA InitKeeps == Init => IInv
<1> SUFFICES ASSUME Init PROVE IInv
  OBVIOUS
<1>1. Idle \in Call /\ Idle.at = "idle" /\ Idle.rows = {}
  BY DEF Idle, At, Call, Steps, Contents
<1>2. NoEntry \in Entry
  BY DEF NoEntry, Entry, Contents
<1>3. moves \in 0 .. MaxMoves /\ made \in 0 .. MaxCalls
  BY TeamsAssumption DEF Init
<1>4. call = [c \in Calls |-> Idle] /\ entry = [t \in Teams |-> NoEntry]
  BY DEF Init
<1>8. event \in Event /\ allowed \in Sizes /\ event.maxTeamSize <= allowed
  BY TeamsAssumption, SavesAssumption DEF Init, Event
<1>5. TypeOK
  BY <1>1, <1>2, <1>3, <1>4, <1>8 DEF Init, TypeOK
<1>6. OneLiveTeam /\ VotesAreForSubmitted
  BY DEF Init, OneLiveTeam, VotesAreForSubmitted
<1>7. ActorInv /\ RowInv
  BY <1>1, <1>4 DEF ActorInv, RowInv
<1> QED
  BY <1>5, <1>6, <1>7 DEF IInv

LEMMA NextKeeps == IInv /\ [Next]_vars => IInv'
<1> SUFFICES ASSUME IInv, [Next]_vars PROVE IInv'
  OBVIOUS
<1>1. ASSUME NEW e \in Saves, SaveEvent(e) PROVE IInv'
  <2>1. /\ event' = e /\ moves' = moves + 1 /\ moves < MaxMoves
        /\ allowed' = IF e.maxTeamSize > allowed THEN e.maxTeamSize ELSE allowed
        /\ UNCHANGED <<registered, team, members, entry, votes, call, made, upset>>
    BY <1>1 DEF SaveEvent
  <2>2. MaxMoves \in Nat /\ moves \in 0 .. MaxMoves /\ e \in Event
    BY TeamsAssumption, SavesAssumption DEF IInv, TypeOK
  <2>3. moves' \in 0 .. MaxMoves
    BY <2>1, <2>2, OneMore
  <2>4. allowed' \in Sizes /\ event'.maxTeamSize <= allowed'
    <3>1. allowed \in Nat /\ e.maxTeamSize \in Nat /\ allowed \in Sizes /\ e.maxTeamSize \in Sizes
      BY <2>2, TeamsAssumption DEF IInv, TypeOK, Event
    <3> QED
      BY <2>1, <3>1
  <2>5. TypeOK'
    BY <2>1, <2>2, <2>3, <2>4 DEF IInv, TypeOK
  <2> QED
    BY <2>1, <2>5 DEF IInv, OneLiveTeam, RowsOf, Exists, VotesAreForSubmitted, ActorInv, RowInv
<1>2. ASSUME NEW p \in Persons, Register(p) PROVE IInv'
  BY <1>2 DEF Register, IInv, TypeOK, OneLiveTeam, RowsOf, Exists, VotesAreForSubmitted, ActorInv, RowInv
<1>3. ASSUME NEW c \in Calls, Starts(c) \/ Writes(c) \/ Die(c) PROVE IInv'
  BY <1>3, StartsKeep, WritesKeep, DieKeeps
<1>4. CASE UNCHANGED vars
  BY <1>4 DEF vars, tables, IInv, TypeOK, OneLiveTeam, RowsOf, Exists, VotesAreForSubmitted, ActorInv, RowInv
<1> QED
  BY <1>1, <1>2, <1>3, <1>4 DEF Next

LEMMA Inductive == Spec => []IInv
  BY InitKeeps, NextKeeps, PTL DEF Spec

\* The tables and the calls keep their shape.
THEOREM TypeCorrect == Spec => []TypeOK
<1>1. IInv => TypeOK
  BY DEF IInv
<1> QED
  BY <1>1, Inductive, PTL

\* Whatever calls overlap, and wherever they die, a person has one membership, of a team that is there.
THEOREM OneTeamEach == Spec => []OneLiveTeam
<1>1. IInv => OneLiveTeam
  BY DEF IInv
<1> QED
  BY <1>1, Inductive, PTL

\* No vote stands for an entry that is not submitted, however late it is cast.
THEOREM VotesStand == Spec => []VotesAreForSubmitted
<1>1. IInv => VotesAreForSubmitted
  BY DEF IInv
<1> QED
  BY <1>1, Inductive, PTL

-----------------------------------------------------------------------------
(* Submitted entries. *)

\* The steps of a call that is to end or change an entry that is not submitted.
Ending == {"drop entry", "drop members", "drop team", "insert draft", "update draft"}

\* On a team that is not upset one call is at work, and such a call found no submitted entry.
QuietInv ==
  \A t \in Teams \ upset : \A c \in Calls :
    call[c].at # "idle" /\ call[c].team = t =>
      /\ \A d \in Calls : call[d].at # "idle" /\ call[d].team = t => d = c
      /\ call[c].at \in Ending => entry[t].status # "submitted"

LEMMA BeginQuiet ==
  ASSUME IInv, QuietInv, NEW c \in Calls, NEW at, NEW p, NEW t \in Teams, NEW other, NEW rows, NEW content,
         Begin(c, at, p, t, other, rows, content),
         at \in Ending => entry[t].status # "submitted"
  PROVE  QuietInv' /\ UNCHANGED entry
<1> DEFINE new == At(at, p, t, other, rows, content)
           others == { d \in Calls : call[d].at # "idle" /\ (call[d].team = t \/ call[d].who = p) }
<1>1. new.at = at /\ new.team = t
  BY DEF At
<1>2. \A d \in Calls : call'[d] = IF d = c THEN new ELSE call[d]
  BY DEF Begin, IInv, TypeOK
<1>3. UNCHANGED entry /\ upset \subseteq upset' /\ (others # {} => t \in upset')
  BY DEF Begin, tables
<1>4. \A d \in Calls : call[d].at # "idle" /\ call[d].team = t => d \in others
  OBVIOUS
<1> HIDE DEF new, others
<1>5. ASSUME NEW u \in Teams \ upset', NEW d \in Calls, call'[d].at # "idle", call'[d].team = u
      PROVE  /\ \A e \in Calls : call'[e].at # "idle" /\ call'[e].team = u => e = d
             /\ call'[d].at \in Ending => entry'[u].status # "submitted"
  <2>1. CASE u = t
    <3>1. \A e \in Calls \ {c} : ~ (call'[e].at # "idle" /\ call'[e].team = u)
      BY <1>2, <1>3, <1>4, <1>5, <2>1
    <3>2. d = c
      BY <1>5, <3>1
    <3> QED
      BY <1>1, <1>2, <1>3, <2>1, <3>1, <3>2
  <2>2. CASE u # t
    <3>1. \A e \in Calls : call'[e].team = u => e # c /\ call'[e] = call[e]
      BY <1>1, <1>2, <2>2
    <3>2. u \in Teams \ upset
      BY <1>3, <1>5
    <3> QED
      BY <1>3, <1>5, <3>1, <3>2 DEF QuietInv
  <2> QED
    BY <2>1, <2>2
<1> QED
  BY <1>3, <1>5 DEF QuietInv

LEMMA StartsQuiet ==
  ASSUME IInv, QuietInv, NEW c \in Calls, Starts(c)
  PROVE  QuietInv' /\ UNCHANGED entry
<1>1. PICK p \in Persons, t \in Teams :
        \/ BeginCreate(c, p, t)
        \/ BeginJoin(c, p, t)
        \/ BeginDisband(c, p, t)
        \/ \E q \in Persons : BeginTransfer(c, p, q, t)
        \/ BeginLeave(c, p, t)
        \/ \E content \in {"partial", "complete"} : BeginSave(c, p, t, content)
        \/ BeginSubmit(c, p, t)
        \/ BeginVote(c, p, t)
  BY DEF Starts
<1>2. \E at, other, rows, content :
        /\ Begin(c, at, p, t, other, rows, content)
        /\ at \in Ending => entry[t].status # "submitted"
  <2>0. {"insert team", "insert member", "promote", "submit", "cast", "withdraw"} \cap Ending = {}
    BY DEF Ending
  <2>1. CASE BeginCreate(c, p, t) \/ BeginJoin(c, p, t)
    <3>1. \/ Begin(c, "insert team", p, t, None, {}, "nothing")
          \/ Begin(c, "insert member", p, t, None, {}, "nothing")
      BY <2>1 DEF BeginCreate, BeginJoin
    <3>2. "insert team" \notin Ending /\ "insert member" \notin Ending
      BY <2>0
    <3> QED
      BY <3>1, <3>2, Zenon
  <2>2. CASE BeginDisband(c, p, t)
    BY <2>2 DEF BeginDisband, MayDisband
  <2>3. CASE \E q \in Persons : BeginTransfer(c, p, q, t)
    <3>1. \E q \in Persons : Begin(c, "promote", p, t, q, {MemberId(p), MemberId(q)}, "nothing")
      BY <2>3 DEF BeginTransfer
    <3>2. "promote" \notin Ending
      BY <2>0
    <3> QED
      BY <3>1, <3>2, Zenon
  <2>4. CASE BeginLeave(c, p, t)
    <3>1. (IF Leads(p, t) THEN "disband" ELSE "leave") \notin Ending
      BY DEF Ending
    <3> QED
      BY <2>4, <3>1 DEF BeginLeave
  <2>5. CASE \E content \in {"partial", "complete"} : BeginSave(c, p, t, content)
    BY <2>5 DEF BeginSave
  <2>6. CASE BeginSubmit(c, p, t)
    BY <2>6 DEF BeginSubmit, Ending
  <2>7. CASE BeginVote(c, p, t)
    <3>1. \/ Begin(c, "withdraw", p, t, None, {VoteId(p, t)}, "nothing")
          \/ Begin(c, "cast", p, t, None, {EntryId(t)}, "nothing")
      BY <2>7 DEF BeginVote
    <3>2. "withdraw" \notin Ending /\ "cast" \notin Ending
      BY <2>0
    <3> QED
      BY <3>1, <3>2, Zenon
  <2> QED
    BY <1>1, <2>1, <2>2, <2>3, <2>4, <2>5, <2>6, <2>7
<1> QED
  BY <1>2, BeginQuiet

\* What a step of a call c does to the entries.
EntryAfter(c) ==
  \A t \in Teams : entry'[t] # entry[t] =>
    /\ call[c].at # "idle" /\ call[c].team = t
    /\ \/ /\ call[c].at \in Ending
          /\ \/ entry'[t].status = "none" \/ entry'[t].status = entry[t].status
             \/ entry[t].status = "none" /\ entry'[t].status = "draft"
       \/ /\ call[c].at = "submit"
          /\ entry'[t] = [status |-> "submitted", content |-> entry[t].content]

\* A call goes on with the team it has, and is only ending something if it was before.
GoesOn(c) ==
  /\ \A d \in Calls : call'[d].at # "idle" => call[d].at # "idle" /\ call'[d].team = call[d].team
  /\ \A d \in Calls : call'[d].at \in Ending => call[d].at \in Ending
  /\ upset \subseteq upset'

LEMMA GoesQuiet ==
  ASSUME IInv, QuietInv, NEW c \in Calls, GoesOn(c), EntryAfter(c)
  PROVE  QuietInv'
<1> SUFFICES ASSUME NEW t \in Teams \ upset', NEW d \in Calls, call'[d].at # "idle", call'[d].team = t
             PROVE  /\ \A e \in Calls : call'[e].at # "idle" /\ call'[e].team = t => e = d
                    /\ call'[d].at \in Ending => entry'[t].status # "submitted"
  BY DEF QuietInv
<1>1. t \in Teams \ upset /\ call[d].at # "idle" /\ call[d].team = t
  BY DEF GoesOn
<1>2. \A e \in Calls : call[e].at # "idle" /\ call[e].team = t => e = d
  BY <1>1 DEF QuietInv
<1>3. ASSUME call'[d].at \in Ending
      PROVE  entry'[t].status # "submitted"
  <2>1. call[d].at \in Ending /\ entry[t].status # "submitted"
    BY <1>1, <1>3 DEF GoesOn, QuietInv
  <2>2. CASE entry'[t] # entry[t]
    <3>1. c = d
      BY <1>2, <2>2 DEF EntryAfter
    <3>2. call[d].at # "submit"
      BY <2>1 DEF Ending
    <3> QED
      BY <2>1, <2>2, <3>1, <3>2 DEF EntryAfter
  <2> QED
    BY <2>1, <2>2
<1> QED
  BY <1>2, <1>3 DEF GoesOn

LEMMA GoesGoesOn ==
  ASSUME IInv, NEW c \in Calls, NEW at \in Steps, NEW deleted, Goes(c, at, deleted),
         call[c].at # "idle", at \in Ending => call[c].at \in Ending, upset' = upset
  PROVE  GoesOn(c)
<1>1. "idle" \notin Ending
  BY DEF Ending
<1> QED
  BY <1>1, CallsAfter DEF IInv, GoesOn

\* No step of a call spoils what is known of a quiet team, nor changes entries but as EntryAfter says.
LEMMA WritesQuiet ==
  ASSUME IInv, QuietInv, NEW c \in Calls, Writes(c)
  PROVE  QuietInv' /\ EntryAfter(c)
<1>0. {"idle", "insert leader", "demote", "rename", "drop members", "drop team"} \subseteq Steps
  BY DEF Steps
<1>1. ASSUME NEW at \in {"idle", "insert leader", "demote", "rename"}, NEW deleted, Goes(c, at, deleted),
             call[c].at # "idle", upset' = upset, EntryAfter(c)
      PROVE  QuietInv' /\ EntryAfter(c)
  <2>1. at \notin Ending
    BY DEF Ending
  <2> QED
    BY <1>0, <1>1, <2>1, GoesGoesOn, GoesQuiet
<1>2. ASSUME NEW at \in {"drop members", "drop team"}, NEW deleted, Goes(c, at, deleted),
             call[c].at \in {"drop entry", "drop members"}, upset' = upset, EntryAfter(c)
      PROVE  QuietInv' /\ EntryAfter(c)
  <2>1. call[c].at # "idle" /\ call[c].at \in Ending
    BY <1>2 DEF Ending
  <2> QED
    BY <1>0, <1>2, <2>1, GoesGoesOn, GoesQuiet
<1>3. CASE InsertTeam(c) \/ InsertMember(c) \/ Promote(c) \/ Demote(c) \/ Rename(c) \/ DeleteMine(c)
             \/ Cast(c) \/ Withdraw(c)
  <2>1. EntryAfter(c) /\ upset' = upset /\ call[c].at # "idle"
    BY <1>3 DEF InsertTeam, InsertMember, Promote, Demote, Rename, DeleteMine, Cast, Withdraw, EntryAfter
  <2>2. \E at \in {"idle", "insert leader", "demote", "rename"}, deleted \in {{}, {MemberId(call[c].who)},
                      {VoteId(call[c].who, call[c].team)}} : Goes(c, at, deleted)
    BY <1>3 DEF InsertTeam, InsertMember, Promote, Demote, Rename, DeleteMine, Cast, Withdraw
  <2> QED
    BY <1>1, <2>1, <2>2
<1>4. CASE DropEntry(c)
  <2>1. call[c].at = "drop entry" /\ upset' = upset /\ call[c].team \in Teams
    BY <1>4, Whose DEF DropEntry
  <2>2. EntryAfter(c)
    <3>1. entry' = entry \/ entry' = [entry EXCEPT ![call[c].team] = NoEntry]
      BY <1>4 DEF DropEntry
    <3>2. NoEntry.status = "none" /\ entry \in [Teams -> Entry]
      BY <2>1, Whose DEF NoEntry
    <3>3. call[c].at \in Ending /\ call[c].at # "idle"
      BY <2>1 DEF Ending
    <3> QED
      BY <2>1, <3>1, <3>2, <3>3 DEF EntryAfter
  <2>3. \E deleted : Goes(c, "drop members", deleted)
    BY <1>4 DEF DropEntry
  <2> QED
    BY <1>2, <2>1, <2>2, <2>3
<1>5. CASE DropMembers(c)
  <2>1. call[c].at = "drop members" /\ upset' = upset /\ EntryAfter(c)
    BY <1>5 DEF DropMembers, EntryAfter
  <2>2. \E deleted : Goes(c, "drop team", deleted)
    BY <1>5 DEF DropMembers
  <2> QED
    BY <1>2, <2>1, <2>2
<1>6. CASE DropTeam(c)
  <2>1. call[c].at = "drop team" /\ upset' = upset /\ call[c].team \in Teams
    BY <1>6, Whose DEF DropTeam
  <2>2. EntryAfter(c)
    BY <1>6, <2>1, Whose DEF DropTeam, EntryAfter, Ending, NoEntry
  <2>3. \E deleted : Goes(c, "idle", deleted)
    BY <1>6 DEF DropTeam
  <2> QED
    BY <1>1, <2>1, <2>2, <2>3
<1>7. CASE InsertDraft(c) \/ UpdateDraft(c) \/ Submit(c)
  <2>1. /\ call[c].at \in {"insert draft", "update draft", "submit"} /\ upset' = upset
        /\ call[c].team \in Teams /\ Goes(c, "idle", {}) /\ entry \in [Teams -> Entry]
    BY <1>7, Whose DEF InsertDraft, UpdateDraft, Submit
  <2>2. EntryAfter(c)
    <3>1. CASE InsertDraft(c)
      BY <2>1, <3>1 DEF InsertDraft, EntryAfter, Ending
    <3>2. CASE UpdateDraft(c)
      BY <2>1, <3>2 DEF UpdateDraft, EntryAfter, Ending
    <3>3. CASE Submit(c)
      BY <2>1, <3>3 DEF Submit, EntryAfter
    <3> QED
      BY <1>7, <3>1, <3>2, <3>3
  <2> QED
    BY <1>1, <2>1, <2>2
<1>8. CASE Reread(c)
  <2>1. call[c].at = "disband" /\ UNCHANGED entry /\ EntryAfter(c)
    BY <1>8 DEF Reread, tables, EntryAfter
  <2>2. CASE Goes(c, "idle", {}) /\ UNCHANGED upset
    BY <1>1, <2>1, <2>2
  <2>3. ASSUME NEW t \in Teams, MayDisband(call[c].who, t),
               call' = [call EXCEPT ![c] = At("drop entry", call[c].who, t, None, EntryRow(t), "nothing")],
               upset' = IF \E d \in Calls \ {c} : call[d].team = t THEN upset \cup {t} ELSE upset
        PROVE  QuietInv'
    <3> DEFINE new == At("drop entry", call[c].who, t, None, EntryRow(t), "nothing")
    <3>1. new.at = "drop entry" /\ new.team = t
      BY DEF At
    <3>2. \A d \in Calls : call'[d] = IF d = c THEN new ELSE call[d]
      BY <2>3 DEF IInv, TypeOK
    <3> HIDE DEF new
    <3>3. upset \subseteq upset' /\ (t \notin upset' => \A d \in Calls \ {c} : call[d].team # t)
      BY <2>3
    <3>4. entry[t].status # "submitted"
      BY <2>3 DEF MayDisband
    <3>5. ASSUME NEW u \in Teams \ upset', NEW d \in Calls, call'[d].at # "idle", call'[d].team = u
          PROVE  /\ \A e \in Calls : call'[e].at # "idle" /\ call'[e].team = u => e = d
                 /\ call'[d].at \in Ending => entry'[u].status # "submitted"
      <4>1. CASE u = t
        BY <2>1, <3>2, <3>3, <3>4, <3>5, <4>1
      <4>2. CASE u # t
        <5>1. \A e \in Calls : call'[e].team = u => e # c /\ call'[e] = call[e]
          BY <3>1, <3>2, <4>2
        <5>2. u \in Teams \ upset
          BY <3>3, <3>5
        <5> QED
          BY <2>1, <3>5, <5>1, <5>2 DEF QuietInv
      <4> QED
        BY <4>1, <4>2
    <3> QED
      BY <3>5 DEF QuietInv
  <2> QED
    BY <1>8, <2>1, <2>2, <2>3 DEF Reread
<1> QED
  BY <1>3, <1>4, <1>5, <1>6, <1>7, <1>8 DEF Writes

LEMMA QuietStep ==
  ASSUME IInv, QuietInv, [Next]_vars
  PROVE  QuietInv' /\ (UNCHANGED entry \/ \E c \in Calls : EntryAfter(c) /\ upset \subseteq upset')
<1>1. CASE UNCHANGED <<entry, call, upset>>
  BY <1>1 DEF QuietInv
<1>2. ASSUME NEW c \in Calls, Die(c)
      PROVE  QuietInv' /\ UNCHANGED entry
  <2>1. UNCHANGED entry /\ call' = [call EXCEPT ![c] = Idle] /\ upset \subseteq upset'
    BY <1>2 DEF Die, tables
  <2>2. Idle.at = "idle" /\ "idle" \notin Ending
    BY DEF Idle, At, Ending
  <2>3. \A d \in Calls : call'[d] = IF d = c THEN Idle ELSE call[d]
    BY <2>1 DEF IInv, TypeOK
  <2>4. GoesOn(c) /\ EntryAfter(c)
    BY <2>1, <2>2, <2>3 DEF GoesOn, EntryAfter
  <2> QED
    BY <2>1, <2>4, GoesQuiet
<1>3. ASSUME NEW c \in Calls, Writes(c)
      PROVE  upset \subseteq upset'
  <2>1. ASSUME Reread(c) PROVE upset \subseteq upset'
    BY <2>1 DEF Reread
  <2> QED
    BY <1>3, <2>1 DEF Writes, InsertTeam, InsertMember, DropEntry, DropMembers, DropTeam, Promote, Demote,
                      Rename, DeleteMine, InsertDraft, UpdateDraft, Submit, Cast, Withdraw
<1>4. CASE (\E e \in Saves : SaveEvent(e)) \/ (\E p \in Persons : Register(p)) \/ UNCHANGED vars
  BY <1>1, <1>4 DEF SaveEvent, Register, vars, tables
<1> QED
  BY <1>2, <1>3, <1>4, StartsQuiet, WritesQuiet DEF Next

LEMMA SubmittedStep ==
  ASSUME IInv, QuietInv, [Next]_vars, NEW t \in Teams, entry[t].status = "submitted"
  PROVE  /\ entry'[t].status # "draft"
         /\ t \notin upset' => entry'[t] = entry[t]
<1>1. CASE entry'[t] = entry[t]
  BY <1>1
<1>2. CASE entry'[t] # entry[t]
  <2>1. PICK c \in Calls : EntryAfter(c) /\ upset \subseteq upset'
    BY <1>2, QuietStep
  <2>2. entry[t] \in Entry
    BY DEF IInv, TypeOK
  <2>3. entry[t] = [status |-> "submitted", content |-> entry[t].content]
    BY <2>2 DEF Entry
  <2>4. /\ call[c].at # "idle" /\ call[c].team = t /\ call[c].at \in Ending
        /\ entry'[t].status # "draft"
    BY <1>2, <2>1, <2>3 DEF EntryAfter
  <2>5. t \in upset
    BY <2>4 DEF QuietInv
  <2> QED
    BY <2>1, <2>4, <2>5
<1> QED
  BY <1>1, <1>2

\* A submitted entry never turns into a draft, and stays as it is while the calls about its team come one
\* at a time: the checks of a call only fail to hold when it writes if another came between.
THEOREM SubmittedStands == Spec => SubmittedKept
<1>1. Init => QuietInv
  BY DEF Init, QuietInv, Idle, At
<1>2. IInv /\ QuietInv /\ [Next]_vars =>
        \A t \in Teams : entry[t].status = "submitted" =>
          /\ entry'[t].status # "draft"
          /\ t \notin upset' => entry'[t] = entry[t]
  BY SubmittedStep
<1>3. IInv /\ QuietInv /\ [Next]_vars => QuietInv'
  BY QuietStep
<1> QED
  BY <1>1, <1>2, <1>3, InitKeeps, NextKeeps, PTL DEF Spec, SubmittedKept

-----------------------------------------------------------------------------
(* Leaders. *)

\* One call makes a team, and only a team that was made is dropped.
FreshInv ==
  \A c \in Calls :
    /\ call[c].at = "insert team" =>
         /\ team[call[c].team] = "unborn"
         /\ \A d \in Calls : call[d].at = "insert team" /\ call[d].team = call[c].team => d = c
    /\ call[c].at \in {"drop entry", "drop members", "drop team"} => team[call[c].team] # "unborn"

\* The memberships that a call handing over remembers are of its team.
HandInv ==
  \A c \in Calls, p \in Persons :
    call[c].at \in {"promote", "demote"} /\ MemberId(p) \in call[c].rows => OnTeam(p, call[c].team)

Coming == {"insert team", "insert leader", "insert member"}

\* On a team that is not upset: a person about to come has no membership, and no other call under way
\* that gives or ends one; and who is about to leave while on that team leaves it, and does not lead it.
ComeAndGo ==
  \A t \in Teams \ upset, c \in Calls :
    /\ call[c].at \in Coming /\ call[c].team = t =>
         /\ \A m \in members : m.who # call[c].who
         /\ \A d \in Calls : call[d].at \in Coming \cup {"leave"} /\ call[d].who = call[c].who => d = c
    /\ call[c].at = "leave" /\ OnTeam(call[c].who, t) => call[c].team = t
    /\ call[c].at = "leave" /\ call[c].team = t => ~ Leads(call[c].who, t)

\* Who leads a team that is not upset, at each step of the call about it.
LeadAt(t) ==
  /\ (\A c \in Calls : call[c].team = t => call[c].at \notin {"insert leader", "demote", "rename", "drop team"})
       => \A p \in Persons : Leads(p, t) <=> p = team[t]
  /\ \A c \in Calls : call[c].team = t =>
       /\ call[c].at = "insert leader" => team[t] = call[c].who /\ \A m \in members : m.team # t
       /\ call[c].at = "promote" =>
            /\ team[t] = call[c].who /\ call[c].other # call[c].who
            /\ MemberId(call[c].who) \in call[c].rows /\ MemberId(call[c].other) \in call[c].rows
       /\ call[c].at = "demote" =>
            /\ \A p \in Persons : Leads(p, t) <=> p \in {call[c].who, call[c].other}
            /\ call[c].other # call[c].who /\ MemberId(call[c].who) \in call[c].rows
       /\ call[c].at = "rename" => \A p \in Persons : Leads(p, t) <=> p = call[c].other

LeadInv == \A t \in Teams \ upset : Exists(t) => LeadAt(t)

LInv == IInv /\ QuietInv /\ FreshInv /\ HandInv /\ ComeAndGo /\ LeadInv

\* What a step of a writing call c does to the calls.
CallStep(c) ==
  /\ upset' = upset /\ call[c].at # "idle"
  /\ \A d \in Calls : call'[d].at # "idle" =>
       /\ call[d].at # "idle" /\ call'[d].who = call[d].who /\ call'[d].team = call[d].team
       /\ call'[d].other = call[d].other
  /\ \A d \in Calls \ {c} : call'[d].at = call[d].at
  /\ \/ call'[c].at = "idle"
     \/ call[c].at = "insert team" /\ call'[c].at = "insert leader"
     \/ call[c].at = "promote" /\ call'[c].at = "demote"
     \/ call[c].at = "demote" /\ call'[c].at = "rename"
     \/ call[c].at = "drop entry" /\ call'[c].at = "drop members"
     \/ call[c].at = "drop members" /\ call'[c].at = "drop team"

\* The membership of p goes in the step of c.
Gone(c, p) ==
  \/ call[c].at \in {"drop members", "drop team"} /\ OnTeam(p, call[c].team)
  \/ call[c].at = "leave" /\ p = call[c].who

\* The memberships that go are forgotten, and no others.
RowStep(c) ==
  \A d \in Calls, p \in Persons : call'[d].at # "idle" =>
    (MemberId(p) \in call'[d].rows <=> MemberId(p) \in call[d].rows /\ ~ Gone(c, p))

\* The call c is giving the membership of p a role.
Handing(c, p) == call[c].at \in {"promote", "demote"} /\ MemberId(p) \in call[c].rows

MemberStep(c) ==
  /\ \A m \in members : ~ Gone(c, m.who) =>
       /\ \E n \in members' : n.who = m.who /\ n.team = m.team
       /\ ~ Handing(c, m.who) => m \in members'
  /\ \A n \in members' :
       \/ call[c].at \in {"insert leader", "insert member"} /\ n.who = call[c].who /\ n.team = call[c].team
       \/ n \in members
       \/ /\ Handing(c, n.who)
          /\ \E m \in members : /\ m.who = n.who /\ m.team = n.team
                                /\ n.role = "leader" => m.role = "leader" \/ call[c].at = "promote"

TeamStep(c) ==
  \A t \in Teams : team'[t] # team[t] =>
    /\ t = call[c].team /\ team'[t] # "unborn"
    /\ call[c].at \in {"insert team", "drop team", "rename"} /\ (call[c].at = "rename" => Exists(t))

StepFacts(c) == CallStep(c) /\ RowStep(c) /\ MemberStep(c) /\ TeamStep(c)

-----------------------------------------------------------------------------
(* Each write is such a step. *)

LEMMA GoesRows ==
  ASSUME NEW c \in Calls, NEW at, NEW deleted, Goes(c, at, deleted)
  PROVE  \A d \in Calls : call'[d].at # "idle" => call'[d].rows = call[d].rows \ deleted
  BY DEF Goes, At, Idle

LEMMA GoesStep ==
  ASSUME IInv, NEW c \in Calls, NEW at \in Steps, upset' = upset, call[c].at # "idle",
         \/ at = "idle"
         \/ call[c].at = "insert team" /\ at = "insert leader"
         \/ call[c].at = "promote" /\ at = "demote"
         \/ call[c].at = "demote" /\ at = "rename"
         \/ call[c].at = "drop entry" /\ at = "drop members"
         \/ call[c].at = "drop members" /\ at = "drop team",
         \E deleted : Goes(c, at, deleted) /\ \A p \in Persons : MemberId(p) \in deleted <=> Gone(c, p)
  PROVE  CallStep(c) /\ RowStep(c)
<1>0. PICK deleted : Goes(c, at, deleted) /\ \A p \in Persons : MemberId(p) \in deleted <=> Gone(c, p)
  OBVIOUS
<1>1. /\ \A d \in Calls : call'[d].at # "idle" =>
           /\ call'[d].who = call[d].who /\ call'[d].other = call[d].other /\ call'[d].team = call[d].team
      /\ \A d \in Calls : d # c => call'[d].at = call[d].at
      /\ call'[c].at = at
  BY <1>0, CallsAfter DEF IInv
<1>2. CallStep(c)
  BY <1>1 DEF CallStep
<1>3. \A d \in Calls : call'[d].at # "idle" => call'[d].rows = call[d].rows \ deleted
  BY <1>0, GoesRows, Zenon
<1>4. RowStep(c)
  BY <1>0, <1>3 DEF RowStep
<1> QED
  BY <1>2, <1>4

LEMMA SameId ==
  ASSUME NEW p, NEW q, MemberId(p) = MemberId(q)
  PROVE  p = q
  BY DEF MemberId

\* A step that leaves the memberships alone.
LEMMA StillStep ==
  ASSUME IInv, NEW c \in Calls, NEW at \in Steps, upset' = upset,
         \E deleted : Goes(c, at, deleted) /\ \A p \in Persons : MemberId(p) \notin deleted,
         call[c].at \notin {"idle", "drop members", "drop team", "leave"},
         \/ at = "idle"
         \/ call[c].at = "insert team" /\ at = "insert leader"
         \/ call[c].at = "drop entry" /\ at = "drop members",
         members' = members, TeamStep(c)
  PROVE  StepFacts(c)
<1>1. \A p \in Persons : ~ Gone(c, p)
  BY DEF Gone
<1>2. \E deleted : Goes(c, at, deleted) /\ \A p \in Persons : MemberId(p) \in deleted <=> Gone(c, p)
  BY <1>1, Zenon
<1>4. CallStep(c) /\ RowStep(c)
  BY <1>2, GoesStep
<1>3. MemberStep(c)
  BY <1>1 DEF MemberStep
<1> QED
  BY <1>3, <1>4 DEF StepFacts

LEMMA NoneForgotten ==
  ASSUME NEW c \in Calls, NEW at, Goes(c, at, {})
  PROVE  /\ \E deleted : Goes(c, at, deleted) /\ \A p \in Persons : MemberId(p) \notin deleted
         /\ (\A p \in Persons : ~ Gone(c, p)) =>
              \E deleted : Goes(c, at, deleted) /\ \A p \in Persons : MemberId(p) \in deleted <=> Gone(c, p)
<1>1. \E deleted : Goes(c, at, deleted) /\ \A p \in Persons : MemberId(p) \notin deleted
  <2> WITNESS {}
  <2> QED
    OBVIOUS
<1>2. ASSUME \A p \in Persons : ~ Gone(c, p)
      PROVE  \E deleted : Goes(c, at, deleted) /\ \A p \in Persons : MemberId(p) \in deleted <=> Gone(c, p)
  <2> WITNESS {}
  <2> QED
    BY <1>2
<1> QED
  BY <1>1, <1>2

LEMMA StillSteps ==
  ASSUME IInv, NEW c \in Calls,
         \/ InsertTeam(c) \/ Rename(c) \/ DropEntry(c) \/ InsertDraft(c) \/ UpdateDraft(c) \/ Submit(c)
         \/ Cast(c) \/ Withdraw(c) \/ (Reread(c) /\ Goes(c, "idle", {}) /\ UNCHANGED upset)
  PROVE  StepFacts(c)
<1>0. "idle" \in Steps /\ "insert leader" \in Steps /\ "drop members" \in Steps
  BY DEF Steps
<1>1. \A p, q \in Persons, t \in Teams :
        MemberId(p) # EntryId(t) /\ MemberId(p) # VoteId(q, t)
  BY DEF MemberId, EntryId, VoteId
<1>2. CASE InsertTeam(c)
  <2>1. /\ call[c].at = "insert team" /\ Goes(c, "insert leader", {}) /\ members' = members
        /\ upset' = upset /\ team' = [team EXCEPT ![call[c].team] = call[c].who]
    BY <1>2 DEF InsertTeam
  <2>2. call[c].who # "unborn"
    BY <2>1, Whose, TeamsAssumption
  <2>3. TeamStep(c)
    BY <2>1, <2>2, Whose DEF TeamStep
  <2>4. \E deleted : Goes(c, "insert leader", deleted) /\ \A p \in Persons : MemberId(p) \notin deleted
    BY <2>1, NoneForgotten
  <2> QED
    BY <1>0, <2>1, <2>3, <2>4, StillStep
<1>3. CASE Rename(c)
  <2>1. /\ call[c].at = "rename" /\ Goes(c, "idle", {}) /\ members' = members /\ upset' = upset
        /\ team' = IF Exists(call[c].team) THEN [team EXCEPT ![call[c].team] = call[c].other] ELSE team
    BY <1>3 DEF Rename
  <2>2. call[c].other # "unborn"
    BY <2>1, TeamsAssumption DEF IInv, ActorInv
  <2>3. TeamStep(c)
    BY <2>1, <2>2, Whose DEF TeamStep
  <2>4. \E deleted : Goes(c, "idle", deleted) /\ \A p \in Persons : MemberId(p) \notin deleted
    BY <2>1, NoneForgotten
  <2> QED
    BY <1>0, <2>1, <2>3, <2>4, StillStep
<1>4. CASE DropEntry(c)
  <2>1. /\ call[c].at = "drop entry" /\ members' = members /\ upset' = upset /\ team' = team
        /\ \/ Goes(c, "drop members", {})
           \/ Goes(c, "drop members", {EntryId(call[c].team)} \cup VoteIds(call[c].team))
    BY <1>4 DEF DropEntry
  <2>2. \A p \in Persons : MemberId(p) \notin {EntryId(call[c].team)} \cup VoteIds(call[c].team)
    <3>1. votes \subseteq Persons \X Teams /\ call[c].team \in Teams
      BY <2>1, Whose
    <3>2. \A v \in votes : v[1] \in Persons /\ v[2] \in Teams
      BY <3>1
    <3> QED
      BY <1>1, <3>1, <3>2 DEF VoteIds, VotesFor
  <2>3. TeamStep(c)
    BY <2>1 DEF TeamStep
  <2>4. \E deleted : Goes(c, "drop members", deleted) /\ \A p \in Persons : MemberId(p) \notin deleted
    <3>1. CASE Goes(c, "drop members", {})
      BY <3>1, NoneForgotten
    <3>2. CASE Goes(c, "drop members", {EntryId(call[c].team)} \cup VoteIds(call[c].team))
      BY <2>2, <3>2, Zenon
    <3> QED
      BY <2>1, <3>1, <3>2
  <2> QED
    BY <1>0, <2>1, <2>3, <2>4, StillStep
<1>5. CASE InsertDraft(c) \/ UpdateDraft(c) \/ Submit(c) \/ Cast(c)
           \/ (Reread(c) /\ Goes(c, "idle", {}) /\ UNCHANGED upset)
  <2>1. /\ call[c].at \in {"insert draft", "update draft", "submit", "cast", "disband"}
        /\ members' = members /\ upset' = upset /\ team' = team /\ Goes(c, "idle", {})
    BY <1>5 DEF InsertDraft, UpdateDraft, Submit, Cast, Reread, tables
  <2>2. TeamStep(c)
    BY <2>1 DEF TeamStep
  <2>4. \E deleted : Goes(c, "idle", deleted) /\ \A p \in Persons : MemberId(p) \notin deleted
    BY <2>1, NoneForgotten
  <2> QED
    BY <1>0, <2>1, <2>2, <2>4, StillStep
<1>6. CASE Withdraw(c)
  <2>1. /\ call[c].at = "withdraw" /\ members' = members /\ upset' = upset /\ team' = team
        /\ Goes(c, "idle", {VoteId(call[c].who, call[c].team)})
    BY <1>6 DEF Withdraw
  <2>2. \A p \in Persons : MemberId(p) \notin {VoteId(call[c].who, call[c].team)}
    BY <1>1, <2>1, Whose
  <2>3. TeamStep(c)
    BY <2>1 DEF TeamStep
  <2>4. \E deleted : Goes(c, "idle", deleted) /\ \A p \in Persons : MemberId(p) \notin deleted
    BY <2>1, <2>2, Zenon
  <2> QED
    BY <1>0, <2>1, <2>3, <2>4, StillStep
<1> QED
  BY <1>2, <1>3, <1>4, <1>5, <1>6

LEMMA MovingSteps ==
  ASSUME IInv, NEW c \in Calls,
         InsertMember(c) \/ DropMembers(c) \/ DropTeam(c) \/ DeleteMine(c) \/ Promote(c) \/ Demote(c)
  PROVE  StepFacts(c)
<1>0. "idle" \in Steps /\ "drop team" \in Steps /\ "demote" \in Steps /\ "rename" \in Steps
  BY DEF Steps
<1>1. \A p, q \in Persons, t \in Teams :
        MemberId(p) # EntryId(t) /\ MemberId(p) # VoteId(q, t)
  BY DEF MemberId, EntryId, VoteId
<1>2. CASE InsertMember(c)
  <2>1. /\ call[c].at \in {"insert leader", "insert member"} /\ Goes(c, "idle", {}) /\ upset' = upset
        /\ team' = team
    BY <1>2 DEF InsertMember
  <2> DEFINE new == [who |-> call[c].who, team |-> call[c].team,
                     role |-> IF call[c].at = "insert leader" THEN "leader" ELSE "member"]
  <2>5. members' = members \/ members' = members \cup {new}
    BY <1>2 DEF InsertMember
  <2>6. new.who = call[c].who /\ new.team = call[c].team
    OBVIOUS
  <2> HIDE DEF new
  <2>2. \A p : ~ Gone(c, p)
    BY <2>1 DEF Gone
  <2>7. \E deleted : Goes(c, "idle", deleted) /\ \A p \in Persons : MemberId(p) \in deleted <=> Gone(c, p)
    BY <2>1, <2>2, NoneForgotten
  <2>3. CallStep(c) /\ RowStep(c)
    BY <1>0, <2>1, <2>7, GoesStep
  <2>4. MemberStep(c) /\ TeamStep(c)
    BY <2>1, <2>5, <2>6 DEF MemberStep, TeamStep
  <2> QED
    BY <2>3, <2>4 DEF StepFacts
<1>3. CASE DropMembers(c) \/ DropTeam(c)
  <2> DEFINE ids == { MemberId(m.who) : m \in MembersOf(call[c].team) }
             more == {EntryId(call[c].team)} \cup VoteIds(call[c].team)
  <2>1. /\ \/ call[c].at = "drop members" /\ Goes(c, "drop team", ids)
           \/ call[c].at = "drop team" /\ Goes(c, "idle", ids \cup more)
        /\ members' = members \ MembersOf(call[c].team) /\ upset' = upset
    BY <1>3 DEF DropMembers, DropTeam
  <2>2. call[c].team \in Teams /\ votes \subseteq Persons \X Teams /\ members \subseteq Membership
        /\ team \in [Teams -> Persons \cup {"unborn", "gone"}]
    BY <2>1, Whose
  <2>3. \A p \in Persons : MemberId(p) \notin more
    <3>1. \A v \in votes : v[1] \in Persons /\ v[2] \in Teams
      BY <2>2
    <3> QED
      BY <1>1, <2>2, <3>1 DEF VoteIds, VotesFor
  <2>4. \A p : MemberId(p) \in ids <=> OnTeam(p, call[c].team)
    BY SameId DEF MembersOf, OnTeam
  <2>5. \A p : OnTeam(p, call[c].team) <=> Gone(c, p)
    BY <2>1 DEF Gone
  <2> HIDE DEF ids, more
  <2>6. CallStep(c) /\ RowStep(c)
    <3>1. CASE call[c].at = "drop members" /\ Goes(c, "drop team", ids)
      <4>1. \A p \in Persons : MemberId(p) \in ids <=> Gone(c, p)
        BY <2>4, <2>5
      <4> QED
        BY <1>0, <2>1, <3>1, <4>1, GoesStep
    <3>2. CASE call[c].at = "drop team" /\ Goes(c, "idle", ids \cup more)
      <4> DEFINE both == ids \cup more
      <4>1. \A p \in Persons : MemberId(p) \in both <=> Gone(c, p)
        BY <2>3, <2>4, <2>5
      <4>2. Goes(c, "idle", both)
        BY <3>2
      <4> HIDE DEF both
      <4> QED
        BY <1>0, <2>1, <3>2, <4>1, <4>2, GoesStep
    <3> QED
      BY <2>1, <3>1, <3>2
  <2>7. MemberStep(c)
    BY <2>1, <2>5 DEF MemberStep, MembersOf, OnTeam
  <2>8. TeamStep(c)
    <3>1. team' = team \/ (call[c].at = "drop team" /\ team' = [team EXCEPT ![call[c].team] = "gone"])
      BY <1>3 DEF DropMembers, DropTeam
    <3> QED
      BY <2>2, <3>1 DEF TeamStep
  <2> QED
    BY <2>6, <2>7, <2>8 DEF StepFacts
<1>4. CASE DeleteMine(c)
  <2>1. /\ call[c].at = "leave" /\ Goes(c, "idle", {MemberId(call[c].who)}) /\ upset' = upset
        /\ team' = team /\ members' = members \ RowsOf(call[c].who)
    BY <1>4 DEF DeleteMine
  <2>2. \A p : Gone(c, p) <=> p = call[c].who
    BY <2>1 DEF Gone
  <2>3. \A p \in Persons : MemberId(p) \in {MemberId(call[c].who)} <=> Gone(c, p)
    BY <2>2, SameId
  <2>4. CallStep(c) /\ RowStep(c)
    BY <1>0, <2>1, <2>3, GoesStep
  <2>5. MemberStep(c) /\ TeamStep(c)
    BY <2>1, <2>2 DEF MemberStep, TeamStep, RowsOf
  <2> QED
    BY <2>4, <2>5 DEF StepFacts
<1>5. CASE Promote(c) \/ Demote(c)
  <2>1. PICK p, role :
          /\ GiveRole(c, p, role) /\ (role = "leader" => call[c].at = "promote")
          /\ \/ call[c].at = "promote" /\ Goes(c, "demote", {})
             \/ call[c].at = "demote" /\ Goes(c, "rename", {})
          /\ team' = team /\ upset' = upset
    <3>1. "member" # "leader"
      OBVIOUS
    <3> QED
      BY <1>5, <3>1, ZenonT(40) DEF Promote, Demote
  <2> DEFINE new(m) == IF m.who = p /\ MemberId(p) \in call[c].rows
                         THEN [who |-> m.who, team |-> m.team, role |-> role] ELSE m
  <2>2. members' = { new(m) : m \in members }
    BY <2>1 DEF GiveRole
  <2>3. \A m \in members :
          /\ new(m).who = m.who /\ new(m).team = m.team
          /\ ~ Handing(c, m.who) => new(m) = m
          /\ new(m) = m \/ (Handing(c, m.who) /\ (new(m).role = "leader" => call[c].at = "promote"))
    BY <2>1 DEF Handing
  <2> HIDE DEF new
  <2>4. \A q : ~ Gone(c, q)
    BY <2>1 DEF Gone
  <2>8. ASSUME NEW at, Goes(c, at, {})
        PROVE  \E deleted : Goes(c, at, deleted) /\ \A q \in Persons : MemberId(q) \in deleted <=> Gone(c, q)
    BY <2>4, <2>8, NoneForgotten
  <2>5. CallStep(c) /\ RowStep(c)
    <3>1. CASE call[c].at = "promote" /\ Goes(c, "demote", {})
      BY <1>0, <2>1, <2>8, <3>1, GoesStep
    <3>2. CASE call[c].at = "demote" /\ Goes(c, "rename", {})
      BY <1>0, <2>1, <2>8, <3>2, GoesStep
    <3> QED
      BY <2>1, <3>1, <3>2
  <2>6. MemberStep(c)
    <3>1. \A m \in members : new(m) \in members'
      BY <2>2
    <3>2. \A n \in members' : \E m \in members : n = new(m)
      BY <2>2
    <3>3. ASSUME NEW m \in members
          PROVE  /\ \E n \in members' : n.who = m.who /\ n.team = m.team
                 /\ ~ Handing(c, m.who) => m \in members'
      BY <2>3, <3>1
    <3>4. ASSUME NEW n \in members', n \notin members
          PROVE  /\ Handing(c, n.who)
                 /\ \E m \in members : /\ m.who = n.who /\ m.team = n.team
                                       /\ n.role = "leader" => m.role = "leader" \/ call[c].at = "promote"
      BY <2>3, <3>2, <3>4
    <3> QED
      BY <3>3, <3>4 DEF MemberStep
  <2>7. TeamStep(c)
    BY <2>1 DEF TeamStep
  <2> QED
    BY <2>5, <2>6, <2>7 DEF StepFacts
<1> QED
  BY <1>2, <1>3, <1>4, <1>5


-----------------------------------------------------------------------------
(* What such a step keeps. *)

\* What the invariants say of the memberships, in the form the proofs below use.
LEMMA Whole ==
  ASSUME IInv
  PROVE  /\ members \subseteq Membership
         /\ \A m \in members : m.who \in Persons /\ m.team \in Teams /\ Exists(m.team)
         /\ \A m, n \in members : m.who = n.who => m = n
         /\ call \in [Calls -> Call] /\ upset \subseteq Teams
         /\ \A c \in Calls : call[c].at # "idle" => call[c].who \in Persons /\ call[c].team \in Teams
  BY DEF IInv, TypeOK, OneLiveTeam, RowsOf, Membership

LEMMA FreshKept ==
  ASSUME LInv, NEW c \in Calls, StepFacts(c)
  PROVE  FreshInv'
<1>1. CallStep(c) /\ TeamStep(c)
  BY DEF StepFacts
<1>2. ASSUME NEW d \in Calls, call'[d].at = "insert team"
      PROVE  /\ team'[call'[d].team] = "unborn"
             /\ \A e \in Calls : call'[e].at = "insert team" /\ call'[e].team = call'[d].team => e = d
  <2>1. \A e \in Calls : call'[e].at = "insert team" =>
          e # c /\ call[e].at = "insert team" /\ call'[e].team = call[e].team
    BY <1>1 DEF CallStep
  <2>2. call[d].at = "insert team" /\ d # c /\ call'[d].team = call[d].team /\ team[call[d].team] = "unborn"
    BY <1>2, <2>1 DEF LInv, FreshInv
  <2>3. call[d].team \in Teams
    BY <2>2, Whole DEF LInv
  <2>4. team'[call[d].team] = team[call[d].team]
    <3>1. SUFFICES ASSUME team'[call[d].team] # team[call[d].team]
                   PROVE  FALSE
      OBVIOUS
    <3>2. /\ call[c].team = call[d].team
          /\ call[c].at \in {"insert team", "drop team", "rename"}
          /\ call[c].at = "rename" => Exists(call[d].team)
      BY <1>1, <2>3, <3>1 DEF TeamStep
    <3>3. CASE call[c].at = "insert team"
      BY <2>2, <3>2, <3>3 DEF LInv, FreshInv
    <3>4. CASE call[c].at = "drop team"
      BY <2>2, <3>2, <3>4 DEF LInv, FreshInv
    <3>5. CASE call[c].at = "rename"
      BY <2>2, <3>2, <3>5, TeamsAssumption DEF Exists
    <3> QED
      BY <3>2, <3>3, <3>4, <3>5
  <2> QED
    BY <2>1, <2>2, <2>4 DEF LInv, FreshInv
<1>3. ASSUME NEW d \in Calls, call'[d].at \in {"drop entry", "drop members", "drop team"}
      PROVE  team'[call'[d].team] # "unborn"
  <2>1. call[d].at \in {"drop entry", "drop members", "drop team"} /\ call'[d].team = call[d].team
    BY <1>1, <1>3 DEF CallStep
  <2>2. call[d].team \in Teams /\ team[call[d].team] # "unborn"
    BY <2>1, Whole DEF LInv, FreshInv
  <2> QED
    BY <1>1, <2>1, <2>2 DEF TeamStep
<1> QED
  BY <1>2, <1>3 DEF FreshInv

LEMMA HandKept ==
  ASSUME LInv, NEW c \in Calls, StepFacts(c)
  PROVE  HandInv'
<1>1. CallStep(c) /\ RowStep(c) /\ MemberStep(c)
  BY DEF StepFacts
<1> SUFFICES ASSUME NEW d \in Calls, NEW p \in Persons, call'[d].at \in {"promote", "demote"},
                    MemberId(p) \in call'[d].rows
             PROVE  \E n \in members' : n.who = p /\ n.team = call'[d].team
  BY DEF HandInv, OnTeam
<1>2. call[d].at \in {"promote", "demote"} /\ call'[d].team = call[d].team /\ call'[d].at # "idle"
  BY <1>1 DEF CallStep
<1>3. MemberId(p) \in call[d].rows /\ ~ Gone(c, p)
  BY <1>1, <1>2 DEF RowStep
<1>4. PICK m \in members : m.who = p /\ m.team = call[d].team
  BY <1>2, <1>3 DEF LInv, HandInv, OnTeam
<1>5. m.team = call'[d].team /\ ~ Gone(c, m.who)
  BY <1>2, <1>3, <1>4
<1>6. \E n \in members' : n.who = m.who /\ n.team = m.team
  BY <1>1, <1>5 DEF MemberStep
<1> QED
  BY <1>4, <1>5, <1>6

\* A membership on a team that is not upset, and a lead of it, were there before, but where c inserts it
\* or hands the lead over.
LEMMA LeadsFrom ==
  ASSUME LInv, NEW c \in Calls, StepFacts(c), NEW t \in Teams, NEW p,
         NEW n \in members', n.who = p, n.team = t
  PROVE  \/ call[c].at \in {"insert leader", "insert member"} /\ p = call[c].who /\ t = call[c].team
         \/ /\ OnTeam(p, t)
            /\ n.role = "leader" => Leads(p, t) \/ (call[c].at = "promote" /\ t = call[c].team)
<1>1. MemberStep(c)
  BY DEF StepFacts
<1>2. CASE n \in members
  BY <1>2 DEF OnTeam, Leads
<1>3. CASE /\ Handing(c, n.who)
           /\ \E m \in members : /\ m.who = n.who /\ m.team = n.team
                                 /\ n.role = "leader" => m.role = "leader" \/ call[c].at = "promote"
  <2>1. PICK m \in members : /\ m.who = n.who /\ m.team = n.team
                             /\ n.role = "leader" => m.role = "leader" \/ call[c].at = "promote"
    BY <1>3
  <2>2. p \in Persons
    BY <2>1, Whole DEF LInv
  <2>3. OnTeam(p, call[c].team)
    BY <1>3, <2>2 DEF Handing, LInv, HandInv
  <2>4. t = call[c].team
    BY <2>1, <2>3, Whole DEF LInv, OnTeam
  <2> QED
    BY <2>1, <2>4 DEF OnTeam, Leads
<1> QED
  BY <1>1, <1>2, <1>3 DEF MemberStep

LEMMA ComeKept ==
  ASSUME LInv, NEW c \in Calls, StepFacts(c)
  PROVE  ComeAndGo'
<1>1. CallStep(c)
  BY DEF StepFacts
<1>2. \A e \in Calls : call'[e].at \in Coming =>
        /\ call[e].at \in Coming /\ call'[e].who = call[e].who /\ call'[e].team = call[e].team
        /\ e = c => call[c].at = "insert team"
  BY <1>1 DEF CallStep, Coming
<1>3. \A e \in Calls : call'[e].at = "leave" =>
        call[e].at = "leave" /\ call'[e].who = call[e].who /\ call'[e].team = call[e].team /\ e # c
  BY <1>1 DEF CallStep
<1>4. upset' = upset
  BY <1>1 DEF CallStep
<1>5. ASSUME NEW t \in Teams \ upset, NEW d \in Calls, call'[d].at \in Coming, call'[d].team = t
      PROVE  /\ \A n \in members' : n.who # call'[d].who
             /\ \A e \in Calls : call'[e].at \in Coming \cup {"leave"} /\ call'[e].who = call'[d].who => e = d
  <2>1. /\ \A m \in members : m.who # call[d].who
        /\ \A e \in Calls : call[e].at \in Coming \cup {"leave"} /\ call[e].who = call[d].who => e = d
    BY <1>2, <1>5 DEF LInv, ComeAndGo
  <2>2. ASSUME NEW n \in members', n.who = call[d].who
        PROVE  FALSE
    <3>1. CASE call[c].at \in {"insert leader", "insert member"} /\ n.who = call[c].who
      <4>1. c = d
        BY <2>1, <2>2, <3>1 DEF Coming
      <4> QED
        BY <1>2, <1>5, <3>1, <4>1
    <3>2. CASE \E m \in members : m.who = n.who
      BY <2>1, <2>2, <3>2
    <3> QED
      BY <3>1, <3>2 DEF StepFacts, MemberStep
  <2> QED
    BY <1>2, <1>3, <1>5, <2>1, <2>2
<1>6. ASSUME NEW t \in Teams \ upset, NEW d \in Calls, call'[d].at = "leave", NEW n \in members',
             n.who = call'[d].who, n.team = t
      PROVE  call'[d].team = t
  <2>1. call[d].at = "leave" /\ call'[d].who = call[d].who /\ call'[d].team = call[d].team /\ d # c
    BY <1>3, <1>6
  <2>2. CASE call[c].at \in {"insert leader", "insert member"} /\ n.who = call[c].who /\ t = call[c].team
    <3>1. call[c].at \in Coming
      BY <2>2 DEF Coming
    <3>2. d = c
      BY <1>6, <2>1, <2>2, <3>1 DEF LInv, ComeAndGo
    <3> QED
      BY <2>1, <3>2
  <2>3. CASE OnTeam(n.who, t)
    BY <1>6, <2>1, <2>3 DEF LInv, ComeAndGo
  <2> QED
    BY <1>6, <2>2, <2>3, LeadsFrom
<1>7. ASSUME NEW t \in Teams \ upset, NEW d \in Calls, call'[d].at = "leave", call'[d].team = t,
             NEW n \in members', n.who = call'[d].who, n.team = t, n.role = "leader"
      PROVE  FALSE
  <2>1. call[d].at = "leave" /\ call'[d].who = call[d].who /\ call[d].team = t /\ d # c
    BY <1>3, <1>7
  <2>2. call[c].team # t
    BY <1>1, <2>1 DEF CallStep, LInv, QuietInv
  <2>3. Leads(n.who, t)
    BY <1>7, <2>2, LeadsFrom
  <2> QED
    BY <1>7, <2>1, <2>3 DEF LInv, ComeAndGo
<1> QED
  BY <1>4, <1>5, <1>6, <1>7 DEF ComeAndGo, OnTeam, Leads


-----------------------------------------------------------------------------
(* Leaders, on the teams that a step is not about, and on the one it is. *)

LEMMA ElsewhereKept ==
  ASSUME LInv, NEW c \in Calls, StepFacts(c), NEW t \in Teams \ upset, t # call[c].team, Exists(t)'
  PROVE  LeadAt(t)'
<1>1. CallStep(c) /\ RowStep(c) /\ MemberStep(c) /\ team'[t] = team[t]
  BY DEF StepFacts, TeamStep
<1>2. LeadAt(t)
  BY <1>1 DEF LInv, LeadInv, Exists
<1>3. ASSUME NEW p \in Persons, OnTeam(p, t)
      PROVE  ~ Gone(c, p) /\ ~ Handing(c, p)
  <2>1. ~ OnTeam(p, call[c].team)
    BY <1>3, Whole DEF LInv, OnTeam
  <2>2. ~ (call[c].at = "leave" /\ p = call[c].who)
    BY <1>3 DEF LInv, ComeAndGo
  <2> QED
    BY <2>1, <2>2 DEF Gone, Handing, LInv, HandInv
<1>4. \A m \in members : m.team = t => m.who \in Persons /\ m \in members'
  <2>1. ASSUME NEW m \in members, m.team = t
        PROVE  m.who \in Persons /\ ~ Gone(c, m.who) /\ ~ Handing(c, m.who)
    BY <1>3, <2>1, Whole DEF LInv, OnTeam
  <2> QED
    BY <1>1, <2>1 DEF MemberStep
<1>5. \A n \in members' : n.team = t => n \in members
  <2> SUFFICES ASSUME NEW n \in members', n.team = t, n \notin members
               PROVE  FALSE
    OBVIOUS
  <2>1. PICK m \in members : m.who = n.who /\ m.team = n.team /\ Handing(c, n.who)
    BY <1>1 DEF MemberStep
  <2>2. n.who \in Persons /\ OnTeam(n.who, t)
    BY <2>1, Whole DEF LInv, OnTeam
  <2> QED
    BY <1>3, <2>1, <2>2
<1>6. /\ \A p : (\E n \in members' : n.who = p /\ n.team = t /\ n.role = "leader") <=> Leads(p, t)
      /\ (\A m \in members : m.team # t) => \A n \in members' : n.team # t
  BY <1>4, <1>5 DEF Leads
<1>7. \A d \in Calls : call'[d].at # "idle" /\ call'[d].team = t =>
        /\ d # c /\ call[d].team = t /\ call'[d].at = call[d].at /\ call'[d].who = call[d].who
        /\ call'[d].other = call[d].other
  BY <1>1 DEF CallStep
<1>8. \A d \in Calls : call[d].team = t /\ call[d].at # "idle" /\ call'[d].at # "idle" =>
        call'[d].team = t /\ call'[d].at = call[d].at
  BY <1>1 DEF CallStep
<1>9. \A d \in Calls : call[d].team = t => call'[d].at = call[d].at
  BY <1>1 DEF CallStep
<1>10. ASSUME NEW d \in Calls, call'[d].at \in {"promote", "demote"}, call'[d].team = t, NEW p \in Persons,
              MemberId(p) \in call[d].rows
       PROVE  MemberId(p) \in call'[d].rows
  <2>1. call[d].at \in {"promote", "demote"} /\ call[d].team = t /\ call'[d].at # "idle"
    BY <1>7, <1>10
  <2>2. OnTeam(p, t)
    BY <1>10, <2>1 DEF LInv, HandInv
  <2> QED
    BY <1>1, <1>3, <1>10, <2>1, <2>2 DEF RowStep
<1>11. ASSUME \A d \in Calls : call'[d].team = t =>
                call'[d].at \notin {"insert leader", "demote", "rename", "drop team"}
       PROVE  \A p \in Persons : (\E n \in members' : n.who = p /\ n.team = t /\ n.role = "leader")
                                   <=> p = team'[t]
  <2>1. \A d \in Calls : call[d].team = t =>
          call[d].at \notin {"insert leader", "demote", "rename", "drop team"}
    BY <1>8, <1>9, <1>11
  <2> QED
    BY <1>1, <1>2, <1>6, <2>1 DEF LeadAt
<1>12. ASSUME NEW d \in Calls, call'[d].team = t, call'[d].at # "idle"
       PROVE  /\ call'[d].at = "insert leader" => team'[t] = call'[d].who /\ \A n \in members' : n.team # t
              /\ call'[d].at = "promote" =>
                   /\ team'[t] = call'[d].who /\ call'[d].other # call'[d].who
                   /\ MemberId(call'[d].who) \in call'[d].rows /\ MemberId(call'[d].other) \in call'[d].rows
              /\ call'[d].at = "demote" =>
                   /\ \A p \in Persons : (\E n \in members' : n.who = p /\ n.team = t /\ n.role = "leader")
                                           <=> p \in {call'[d].who, call'[d].other}
                   /\ call'[d].other # call'[d].who /\ MemberId(call'[d].who) \in call'[d].rows
              /\ call'[d].at = "rename" =>
                   \A p \in Persons : (\E n \in members' : n.who = p /\ n.team = t /\ n.role = "leader")
                                        <=> p = call'[d].other
  <2>1. /\ call[d].team = t /\ call'[d].at = call[d].at /\ call'[d].who = call[d].who
        /\ call'[d].other = call[d].other
    BY <1>7, <1>12
  <2>2. call[d].who \in Persons /\ (call[d].at = "promote" => call[d].other \in Persons)
    BY <1>12, <2>1, Whole DEF LInv, IInv, ActorInv
  <2>3. CASE call[d].at = "insert leader"
    BY <1>1, <1>2, <1>6, <2>1, <2>3 DEF LeadAt
  <2>4. CASE call[d].at = "promote"
    <3>1. /\ team[t] = call[d].who /\ call[d].other # call[d].who
          /\ MemberId(call[d].who) \in call[d].rows /\ MemberId(call[d].other) \in call[d].rows
      BY <1>2, <2>1, <2>4 DEF LeadAt
    <3>2. MemberId(call[d].who) \in call'[d].rows /\ MemberId(call[d].other) \in call'[d].rows
      BY <1>10, <1>12, <2>1, <2>2, <2>4, <3>1
    <3> QED
      BY <1>1, <2>1, <2>4, <3>1, <3>2
  <2>5. CASE call[d].at = "demote"
    <3>1. /\ \A p \in Persons : Leads(p, t) <=> p \in {call[d].who, call[d].other}
          /\ call[d].other # call[d].who /\ MemberId(call[d].who) \in call[d].rows
      BY <1>2, <2>1, <2>5 DEF LeadAt
    <3>2. MemberId(call[d].who) \in call'[d].rows
      BY <1>10, <1>12, <2>1, <2>2, <2>5, <3>1
    <3> QED
      BY <1>6, <2>1, <2>5, <3>1, <3>2
  <2>6. CASE call[d].at = "rename"
    <3>1. \A p \in Persons : Leads(p, t) <=> p = call[d].other
      BY <1>2, <2>1, <2>6 DEF LeadAt
    <3> QED
      BY <1>6, <2>1, <2>6, <3>1
  <2> QED
    BY <2>1, <2>3, <2>4, <2>5, <2>6
<1>13. \A d \in Calls : call'[d].at = "idle" =>
         call'[d].at \notin {"insert leader", "promote", "demote", "rename"}
  OBVIOUS
<1> QED
  BY <1>11, <1>12, <1>13 DEF LeadAt, Leads

\* The call c is the only one about its team, before and after.
LEMMA AtHome ==
  ASSUME LInv, NEW c \in Calls, StepFacts(c), NEW t \in Teams \ upset, t = call[c].team
  PROVE  /\ \A d \in Calls : call[d].team = t /\ call[d].at # "idle" => d = c
         /\ \A d \in Calls : call'[d].team = t /\ call'[d].at # "idle" =>
              d = c /\ call'[d].who = call[c].who /\ call'[d].other = call[c].other
         /\ call[c].at # "idle" /\ call[c].who \in Persons
         /\ call'[c].at # "idle" => call'[c].team = t
<1>1. CallStep(c)
  BY DEF StepFacts
<1>2. \A d \in Calls : call[d].team = t /\ call[d].at # "idle" => d = c
  BY <1>1 DEF CallStep, LInv, QuietInv
<1> QED
  BY <1>1, <1>2, Whole DEF CallStep, LInv

\* No step of handing over or of making the team is under way: the leader is the one the row names.
LEMMA PlainLead ==
  ASSUME LInv, NEW c \in Calls, StepFacts(c), NEW t \in Teams \ upset, t = call[c].team, Exists(t),
         call[c].at \notin {"insert leader", "demote", "rename", "drop team"}
  PROVE  \A p \in Persons : Leads(p, t) <=> p = team[t]
<1>1. LeadAt(t)
  BY DEF LInv, LeadInv
<1>2. \A d \in Calls : call[d].team = t =>
        call[d].at \notin {"insert leader", "demote", "rename", "drop team"}
  <2>1. call[c].at # "idle"
    BY DEF StepFacts, CallStep
  <2>2. \A d \in Calls : call[d].team = t /\ call[d].at # "idle" => d = c
    BY <2>1 DEF LInv, QuietInv
  <2> QED
    BY <2>2
<1> QED
  BY <1>1, <1>2 DEF LeadAt

\* Nor is it after the step.
LEMMA PlainAfter ==
  ASSUME LInv, NEW c \in Calls, StepFacts(c), NEW t \in Teams \ upset, t = call[c].team,
         call'[c].at \in {"idle", "drop members"},
         \A p \in Persons : Leads(p, t)' <=> p = team'[t]
  PROVE  LeadAt(t)'
<1>1. \A d \in Calls : call'[d].team = t =>
        call'[d].at \notin {"insert leader", "promote", "demote", "rename", "drop team"}
  <2>1. /\ call[c].at # "idle"
        /\ \A d \in Calls : call'[d].at # "idle" => call[d].at # "idle" /\ call'[d].team = call[d].team
    BY DEF StepFacts, CallStep
  <2>2. \A d \in Calls : call'[d].team = t /\ call'[d].at # "idle" => d = c
    BY <2>1 DEF LInv, QuietInv
  <2> QED
    BY <2>2
<1> QED
  BY <1>1 DEF LeadAt

LEMMA StillHome ==
  ASSUME LInv, NEW c \in Calls, StepFacts(c), NEW t \in Teams \ upset, t = call[c].team, Exists(t)',
         call[c].at \notin {"insert leader", "demote", "rename", "drop team"},
         call'[c].at \in {"idle", "drop members"}, members' = members, team' = team
  PROVE  LeadAt(t)'
<1>1. \A p \in Persons : Leads(p, t) <=> p = team[t]
  BY PlainLead DEF Exists
<1>2. \A p \in Persons : Leads(p, t)' <=> Leads(p, t)
  BY DEF Leads
<1> QED
  BY <1>1, <1>2, PlainAfter

LEMMA HomeKept ==
  ASSUME LInv, NEW c \in Calls, Writes(c), StepFacts(c),
         ~ Reread(c) \/ Goes(c, "idle", {}),
         NEW t \in Teams \ upset, t = call[c].team, Exists(t)'
  PROVE  LeadAt(t)'
<1>0. /\ \A d \in Calls : call'[d].team = t /\ call'[d].at # "idle" =>
           d = c /\ call'[d].who = call[c].who /\ call'[d].other = call[c].other
      /\ call[c].at # "idle" /\ call[c].who \in Persons
      /\ call'[c].at # "idle" => call'[c].team = t
  BY AtHome
<1>00. team \in [Teams -> Persons \cup {"unborn", "gone"}] /\ call \in [Calls -> Call]
  BY DEF LInv, IInv, TypeOK
<1>01. ASSUME NEW at, NEW deleted, Goes(c, at, deleted)
       PROVE  call'[c].at = at
  BY <1>01 DEF Goes, At, Idle
<1>1. CASE InsertDraft(c) \/ UpdateDraft(c) \/ Submit(c) \/ Cast(c) \/ Withdraw(c) \/ DropEntry(c)
            \/ (Reread(c) /\ Goes(c, "idle", {}))
  <2>1. /\ call[c].at \in {"insert draft", "update draft", "submit", "cast", "withdraw", "drop entry", "disband"}
        /\ members' = members /\ team' = team
        /\ \E at \in {"idle", "drop members"}, deleted \in {{}, {VoteId(call[c].who, call[c].team)},
                {EntryId(call[c].team)} \cup VoteIds(call[c].team)} : Goes(c, at, deleted)
    BY <1>1 DEF InsertDraft, UpdateDraft, Submit, Cast, Withdraw, DropEntry, Reread, tables
  <2>2. call'[c].at \in {"idle", "drop members"}
    BY <1>01, <2>1
  <2> QED
    BY <2>1, <2>2, StillHome
<1>2. CASE InsertTeam(c)
  <2>1. /\ call[c].at = "insert team" /\ members' = members /\ Goes(c, "insert leader", {})
        /\ team' = [team EXCEPT ![t] = call[c].who]
    BY <1>2 DEF InsertTeam
  <2>2. call'[c].at = "insert leader" /\ team'[t] = call[c].who
    BY <1>00, <1>01, <2>1
  <2>3. \A m \in members : m.team # t
    <3>1. team[t] = "unborn"
      BY <2>1 DEF LInv, FreshInv
    <3> QED
      BY <3>1, Whole, TeamsAssumption DEF LInv, Exists
  <2> QED
    BY <1>0, <2>1, <2>2, <2>3 DEF LeadAt
<1>3. CASE InsertMember(c)
  <2> DEFINE new == [who |-> call[c].who, team |-> call[c].team,
                     role |-> IF call[c].at = "insert leader" THEN "leader" ELSE "member"]
  <2>1. /\ call[c].at \in {"insert leader", "insert member"} /\ Goes(c, "idle", {}) /\ team' = team
        /\ members' = IF UniqueMember(call[c].who) /\ Exists(call[c].team)
                        THEN members \cup {new} ELSE members
    BY <1>3 DEF InsertMember
  <2>2. call'[c].at = "idle" /\ Exists(t)
    BY <1>01, <2>1 DEF Exists
  <2>3. new.who = call[c].who /\ new.team = t /\ (new.role = "leader" <=> call[c].at = "insert leader")
    OBVIOUS
  <2> HIDE DEF new
  <2>4. \A p \in Persons : Leads(p, t)' <=> p = team'[t]
    <3>1. CASE call[c].at = "insert member"
      <4>1. \A p \in Persons : Leads(p, t) <=> p = team[t]
        BY <2>2, <3>1, PlainLead
      <4> QED
        BY <2>1, <2>3, <3>1, <4>1 DEF Leads
    <3>2. CASE call[c].at = "insert leader"
      <4>1. team[t] = call[c].who /\ \A m \in members : m.team # t
        BY <2>2, <3>2 DEF LInv, LeadInv, LeadAt
      <4>2. UniqueMember(call[c].who)
        BY <3>2 DEF LInv, ComeAndGo, Coming, UniqueMember, RowsOf
      <4>3. members' = members \cup {new}
        BY <2>1, <2>2, <4>2
      <4> QED
        BY <2>1, <2>3, <3>2, <4>1, <4>3 DEF Leads
    <3> QED
      BY <2>1, <3>1, <3>2
  <2> QED
    BY <2>2, <2>4, PlainAfter
<1>4. CASE DropMembers(c)
  <2>1. call'[c].at = "drop team"
    BY <1>01, <1>4 DEF DropMembers
  <2> QED
    BY <1>0, <2>1 DEF LeadAt
<1>5. CASE DropTeam(c)
  <2>1. team'[t] = "gone"
    BY <1>00, <1>5 DEF DropTeam
  <2> QED
    BY <2>1, TeamsAssumption DEF Exists
<1>6. CASE DeleteMine(c)
  <2>1. /\ call[c].at = "leave" /\ team' = team /\ members' = members \ RowsOf(call[c].who)
        /\ Goes(c, "idle", {MemberId(call[c].who)})
    BY <1>6 DEF DeleteMine
  <2>2. call'[c].at = "idle" /\ Exists(t)
    BY <1>01, <2>1 DEF Exists
  <2>3. ~ Leads(call[c].who, t)
    BY <2>1 DEF LInv, ComeAndGo
  <2>4. \A p \in Persons : Leads(p, t) <=> p = team[t]
    BY <2>1, <2>2, PlainLead
  <2>5. \A p \in Persons : Leads(p, t)' <=> Leads(p, t)
    BY <2>1, <2>3 DEF Leads, RowsOf
  <2>6. \A p \in Persons : Leads(p, t)' <=> p = team'[t]
    BY <2>1, <2>4, <2>5
  <2> QED
    BY <2>2, <2>6, PlainAfter
<1>7. CASE Rename(c)
  <2>1. /\ call[c].at = "rename" /\ members' = members /\ Goes(c, "idle", {})
        /\ team' = IF Exists(t) THEN [team EXCEPT ![t] = call[c].other] ELSE team
    BY <1>7 DEF Rename
  <2>2. call'[c].at = "idle" /\ Exists(t) /\ team'[t] = call[c].other
    BY <1>00, <1>01, <2>1 DEF Exists
  <2>3. \A p \in Persons : Leads(p, t) <=> p = call[c].other
    BY <2>1, <2>2 DEF LInv, LeadInv, LeadAt
  <2>4. \A p \in Persons : Leads(p, t)' <=> p = team'[t]
    BY <2>1, <2>2, <2>3 DEF Leads
  <2> QED
    BY <2>2, <2>4, PlainAfter
<1>8. CASE Promote(c) \/ Demote(c)
  <2>1. team' = team /\ Exists(t) /\ call[c].at \in {"promote", "demote"}
    BY <1>8 DEF Promote, Demote, Exists
  <2>2. LeadAt(t)
    BY <2>1 DEF LInv, LeadInv
  <2>3. call[c].other \in Persons /\ call[c].other # call[c].who
    BY <2>1, <2>2 DEF LInv, IInv, ActorInv, LeadAt
  <2>4. MemberId(call[c].who) \in call[c].rows /\ OnTeam(call[c].who, t)
    BY <1>0, <2>1, <2>2 DEF LInv, HandInv, LeadAt
  <2>5. ASSUME NEW p, NEW role, GiveRole(c, p, role), MemberId(p) \in call[c].rows, OnTeam(p, t)
        PROVE  \A q : Leads(q, t)' <=> IF q = p THEN role = "leader" ELSE Leads(q, t)
    <3> DEFINE new(m) == IF m.who = p /\ MemberId(p) \in call[c].rows
                           THEN [who |-> m.who, team |-> m.team, role |-> role] ELSE m
    <3>1. members' = { new(m) : m \in members }
      BY <2>5 DEF GiveRole
    <3>2. \A m \in members : /\ new(m).who = m.who /\ new(m).team = m.team
                             /\ new(m).role = IF m.who = p THEN role ELSE m.role
      BY <2>5
    <3> HIDE DEF new
    <3> QED
      BY <2>5, <3>1, <3>2 DEF Leads, OnTeam
  <2>6. CASE Promote(c)
    <3>1. /\ call[c].at = "promote" /\ GiveRole(c, call[c].other, "leader") /\ Goes(c, "demote", {})
      BY <2>6 DEF Promote
    <3>2. MemberId(call[c].other) \in call[c].rows /\ OnTeam(call[c].other, t) /\ team[t] = call[c].who
      BY <2>2, <2>3, <3>1 DEF LInv, HandInv, LeadAt
    <3>3. \A p \in Persons : Leads(p, t) <=> p = call[c].who
      BY <2>1, <3>1, <3>2, PlainLead
    <3>4. \A p \in Persons : Leads(p, t)' <=> p \in {call[c].who, call[c].other}
      BY <2>3, <2>5, <3>1, <3>2, <3>3
    <3>5. call'[c].at = "demote" /\ MemberId(call[c].who) \in call'[c].rows
      <4>1. call'[c].at = "demote"
        BY <1>01, <3>1
      <4>2. call'[c].rows = call[c].rows \ {}
        BY <3>1, <4>1, GoesRows
      <4> QED
        BY <2>4, <4>1, <4>2
    <3> QED
      BY <1>0, <2>3, <3>4, <3>5 DEF LeadAt
  <2>7. CASE Demote(c)
    <3>1. /\ call[c].at = "demote" /\ GiveRole(c, call[c].who, "member") /\ Goes(c, "rename", {})
      BY <2>7 DEF Demote
    <3>2. \A p \in Persons : Leads(p, t) <=> p \in {call[c].who, call[c].other}
      BY <2>2, <3>1 DEF LeadAt
    <3>3. \A p \in Persons : Leads(p, t)' <=> p = call[c].other
      BY <2>3, <2>4, <2>5, <3>1, <3>2
    <3>4. call'[c].at = "rename"
      BY <1>01, <3>1
    <3> QED
      BY <1>0, <3>3, <3>4 DEF LeadAt
  <2> QED
    BY <1>8, <2>6, <2>7
<1> QED
  BY <1>1, <1>2, <1>3, <1>4, <1>5, <1>6, <1>7, <1>8 DEF Writes


-----------------------------------------------------------------------------
(* A call starts, goes on to disband the team of a leader who leaves, or dies. *)

LInvParts == FreshInv /\ HandInv /\ ComeAndGo /\ LeadInv

\* The call c goes on as new, about the team t.
NewIs(c, new, t) ==
  /\ new.team = t /\ new.who \in Persons /\ new.at \in Steps
  /\ new.at \notin {"idle", "insert leader", "demote", "rename", "drop members", "drop team"}
  /\ call[c].at \in {"idle", "disband"}
  /\ call' = [call EXCEPT ![c] = new] /\ UNCHANGED <<team, members>> /\ upset \subseteq upset'

\* If another call is about that team, or its person's, that is an upset.
NewAlone(c, new, t) ==
  /\ \A d \in Calls \ {c} : call[d].at # "idle" /\ call[d].team = t => t \in upset'
  /\ \A d \in Calls \ {c} : new.at \in Coming \cup {"leave"} /\ call[d].at # "idle" /\ call[d].who = new.who =>
       t \in upset' /\ call[d].team \in upset'

\* What it has found.
NewFinds(c, new, t) ==
  /\ new.at \in Coming => \A m \in members : m.who # new.who
  /\ new.at = "insert team" =>
       team[t] = "unborn" /\ \A d \in Calls : call[d].at = "insert team" => call[d].team # t
  /\ new.at = "drop entry" => Exists(t)
  /\ new.at = "leave" => OnTeam(new.who, t) /\ ~ Leads(new.who, t)
  /\ new.at = "promote" =>
       /\ new.other \in Persons /\ new.rows = {MemberId(new.who), MemberId(new.other)}
       /\ Leads(new.who, t) /\ OnTeam(new.other, t)
       /\ new.other = new.who => t \in upset'

\* Calls that come to be about other teams do not matter.
LEMMA LeadStays ==
  ASSUME NEW u \in Teams, LeadAt(u), team' = team, members' = members,
         \A d \in Calls : call'[d].team = u => call'[d] = call[d],
         \A d \in Calls : call[d].team = u => call'[d] = call[d] \/ call[d].at \in {"idle", "disband"}
  PROVE  LeadAt(u)'
<1>2. \A p : Leads(p, u)' <=> Leads(p, u)
  BY DEF Leads
<1>3. ASSUME \A d \in Calls : call'[d].team = u =>
               call'[d].at \notin {"insert leader", "demote", "rename", "drop team"}
      PROVE  \A p \in Persons : Leads(p, u)' <=> p = team'[u]
  <2>1. \A d \in Calls : call[d].team = u =>
          call[d].at \notin {"insert leader", "demote", "rename", "drop team"}
    BY <1>3
  <2> QED
    BY <1>2, <2>1 DEF LeadAt
<1>4. ASSUME NEW d \in Calls, call'[d].team = u
      PROVE  /\ call'[d].at = "insert leader" => team'[u] = call'[d].who /\ \A m \in members' : m.team # u
             /\ call'[d].at = "promote" =>
                  /\ team'[u] = call'[d].who /\ call'[d].other # call'[d].who
                  /\ MemberId(call'[d].who) \in call'[d].rows /\ MemberId(call'[d].other) \in call'[d].rows
             /\ call'[d].at = "demote" =>
                  /\ \A p \in Persons : Leads(p, u) <=> p \in {call'[d].who, call'[d].other}
                  /\ call'[d].other # call'[d].who /\ MemberId(call'[d].who) \in call'[d].rows
             /\ call'[d].at = "rename" => \A p \in Persons : Leads(p, u) <=> p = call'[d].other
  <2>1. call'[d] = call[d] /\ call[d].team = u
    BY <1>4
  <2>2. /\ call[d].at = "insert leader" => team[u] = call[d].who /\ \A m \in members : m.team # u
        /\ call[d].at = "promote" =>
             /\ team[u] = call[d].who /\ call[d].other # call[d].who
             /\ MemberId(call[d].who) \in call[d].rows /\ MemberId(call[d].other) \in call[d].rows
        /\ call[d].at = "demote" =>
             /\ \A p \in Persons : Leads(p, u) <=> p \in {call[d].who, call[d].other}
             /\ call[d].other # call[d].who /\ MemberId(call[d].who) \in call[d].rows
        /\ call[d].at = "rename" => \A p \in Persons : Leads(p, u) <=> p = call[d].other
    BY <2>1 DEF LeadAt
  <2>3. team'[u] = team[u] /\ members' = members
    OBVIOUS
  <2>4. CASE call[d].at = "insert leader"
    BY <2>1, <2>2, <2>3, <2>4
  <2>5. CASE call[d].at = "promote"
    BY <2>1, <2>2, <2>3, <2>5
  <2>6. CASE call[d].at = "demote"
    BY <2>1, <2>2, <2>6
  <2>7. CASE call[d].at = "rename"
    BY <2>1, <2>2, <2>7
  <2>8. CASE call[d].at \notin {"insert leader", "promote", "demote", "rename"}
    BY <2>1, <2>8
  <2> QED
    BY <2>4, <2>5, <2>6, <2>7, <2>8
<1>5. LeadAt(u)' <=>
        /\ (\A d \in Calls : call'[d].team = u =>
              call'[d].at \notin {"insert leader", "demote", "rename", "drop team"})
             => \A p \in Persons : Leads(p, u)' <=> p = team'[u]
        /\ \A d \in Calls : call'[d].team = u =>
             /\ call'[d].at = "insert leader" => team'[u] = call'[d].who /\ \A m \in members' : m.team # u
             /\ call'[d].at = "promote" =>
                  /\ team'[u] = call'[d].who /\ call'[d].other # call'[d].who
                  /\ MemberId(call'[d].who) \in call'[d].rows /\ MemberId(call'[d].other) \in call'[d].rows
             /\ call'[d].at = "demote" =>
                  /\ \A p \in Persons : Leads(p, u)' <=> p \in {call'[d].who, call'[d].other}
                  /\ call'[d].other # call'[d].who /\ MemberId(call'[d].who) \in call'[d].rows
             /\ call'[d].at = "rename" => \A p \in Persons : Leads(p, u)' <=> p = call'[d].other
  BY DEF LeadAt
<1> QED
  BY <1>2, <1>3, <1>4, <1>5

LEMMA NewCall ==
  ASSUME LInv, NEW c \in Calls, NEW new, NEW t \in Teams,
         NewIs(c, new, t), NewAlone(c, new, t), NewFinds(c, new, t)
  PROVE  LInvParts'
<1>0. /\ new.team = t /\ new.who \in Persons /\ new.at \in Steps
      /\ new.at \notin {"idle", "insert leader", "demote", "rename", "drop members", "drop team"}
      /\ call[c].at \in {"idle", "disband"}
      /\ team' = team /\ members' = members /\ upset \subseteq upset'
  BY DEF NewIs
<1>1. /\ call'[c] = new
      /\ \A d \in Calls : d # c => call'[d] = call[d]
  BY Whole DEF LInv, NewIs
<1>2. FreshInv'
  <2>1. new.at = "drop entry" => team[t] # "unborn"
    BY TeamsAssumption DEF Exists, NewFinds
  <2>2. new.at = "insert team" =>
          team[t] = "unborn" /\ \A d \in Calls : call[d].at = "insert team" => call[d].team # t
    BY DEF NewFinds
  <2>3. ASSUME NEW d \in Calls, call'[d].at = "insert team"
        PROVE  /\ team'[call'[d].team] = "unborn"
               /\ \A e \in Calls : call'[e].at = "insert team" /\ call'[e].team = call'[d].team => e = d
    <3>1. CASE d = c
      BY <1>0, <1>1, <2>2, <2>3, <3>1
    <3>2. CASE d # c
      <4>1. /\ team[call[d].team] = "unborn" /\ call[d].at = "insert team" /\ call'[d] = call[d]
            /\ \A e \in Calls : call[e].at = "insert team" /\ call[e].team = call[d].team => e = d
        BY <1>1, <2>3, <3>2 DEF LInv, FreshInv
      <4>2. ~ (new.at = "insert team" /\ new.team = call[d].team)
        BY <1>0, <2>2, <4>1
      <4> QED
        BY <1>0, <1>1, <4>1, <4>2
    <3> QED
      BY <3>1, <3>2
  <2>4. ASSUME NEW d \in Calls, call'[d].at \in {"drop entry", "drop members", "drop team"}
        PROVE  team'[call'[d].team] # "unborn"
    <3>1. CASE d = c
      BY <1>0, <1>1, <2>1, <2>4, <3>1
    <3>2. CASE d # c
      BY <1>0, <1>1, <2>4, <3>2 DEF LInv, FreshInv
    <3> QED
      BY <3>1, <3>2
  <2> QED
    BY <2>3, <2>4 DEF FreshInv
<1>3. HandInv'
  <2>1. ASSUME NEW d \in Calls, NEW p \in Persons, call'[d].at \in {"promote", "demote"},
               MemberId(p) \in call'[d].rows
        PROVE  \E m \in members' : m.who = p /\ m.team = call'[d].team
    <3>1. CASE d = c
      <4>1. call'[d] = new /\ new.at = "promote"
        BY <1>0, <1>1, <2>1, <3>1
      <4>2. MemberId(p) = MemberId(new.who) \/ MemberId(p) = MemberId(new.other)
        BY <2>1, <4>1 DEF NewFinds
      <4>3. p = new.who \/ p = new.other
        BY <4>2, SameId
      <4>4. /\ \E m \in members : m.who = new.who /\ m.team = t
            /\ \E m \in members : m.who = new.other /\ m.team = t
        BY <4>1 DEF Leads, OnTeam, NewFinds
      <4> QED
        BY <1>0, <4>1, <4>3, <4>4
    <3>2. CASE d # c
      <4>1. call'[d] = call[d]
        BY <1>1, <3>2
      <4>2. OnTeam(p, call[d].team)
        BY <2>1, <4>1 DEF LInv, HandInv
      <4> QED
        BY <1>0, <4>1, <4>2 DEF OnTeam
    <3> QED
      BY <3>1, <3>2
  <2>2. \A d \in Calls, p \in Persons :
          call'[d].at \in {"promote", "demote"} /\ MemberId(p) \in call'[d].rows =>
            \E m \in members' : m.who = p /\ m.team = call'[d].team
    BY <2>1
  <2> QED
    BY <2>2 DEF HandInv, OnTeam
<1>4. ComeAndGo'
  <2>0. "idle" \notin Coming \cup {"leave"} /\ "disband" \notin Coming \cup {"leave"} /\ upset \subseteq upset'
    BY <1>0 DEF Coming
  <2>1. ASSUME NEW u \in Teams \ upset', NEW d \in Calls, call'[d].at \in Coming, call'[d].team = u
        PROVE  /\ \A n \in members' : n.who # call'[d].who
               /\ \A e \in Calls : call'[e].at \in Coming \cup {"leave"} /\ call'[e].who = call'[d].who => e = d
    <3>1. CASE d = c
      <4>1. call'[d] = new /\ u = t
        BY <1>0, <1>1, <2>1, <3>1
      <4>2. \A e \in Calls \ {c} : ~ (call[e].at \in Coming \cup {"leave"} /\ call[e].who = new.who)
        BY <2>0, <2>1, <4>1 DEF NewAlone
      <4>3. \A m \in members : m.who # new.who
        BY <2>1, <4>1 DEF NewFinds
      <4> QED
        BY <1>0, <1>1, <2>1, <3>1, <4>1, <4>2, <4>3
    <3>2. CASE d # c
      <4>1. call'[d] = call[d]
        BY <1>1, <3>2
      <4>2. /\ \A m \in members : m.who # call[d].who
            /\ \A e \in Calls : call[e].at \in Coming \cup {"leave"} /\ call[e].who = call[d].who => e = d
        <5>1. u \in Teams \ upset /\ call[d].at \in Coming /\ call[d].team = u
          BY <2>0, <2>1, <4>1
        <5> QED
          BY <5>1 DEF LInv, ComeAndGo
      <4>3. ~ (new.at \in Coming \cup {"leave"} /\ new.who = call[d].who)
        BY <2>0, <2>1, <3>2, <4>1 DEF NewAlone
      <4> QED
        BY <1>0, <1>1, <4>1, <4>2, <4>3
    <3> QED
      BY <3>1, <3>2
  <2>2. ASSUME NEW u \in Teams \ upset', NEW d \in Calls, call'[d].at = "leave", NEW n \in members',
               n.who = call'[d].who, n.team = u
        PROVE  call'[d].team = u
    <3>1. CASE d = c
      <4>1. call'[d] = new /\ new.at = "leave"
        BY <1>1, <2>2, <3>1
      <4>2. PICK m \in members : m.who = new.who /\ m.team = t
        BY <4>1 DEF OnTeam, NewFinds
      <4>3. m = n
        BY <1>0, <2>2, <4>1, <4>2, Whole DEF LInv
      <4> QED
        BY <1>0, <2>2, <4>1, <4>2, <4>3
    <3>2. CASE d # c
      <4>1. call'[d] = call[d]
        BY <1>1, <3>2
      <4>2. OnTeam(call[d].who, u)
        BY <1>0, <2>2, <4>1 DEF OnTeam
      <4>3. \A v \in Teams \ upset, e \in Calls :
              call[e].at = "leave" /\ OnTeam(call[e].who, v) => call[e].team = v
        BY DEF LInv, ComeAndGo
      <4> QED
        BY <2>0, <2>2, <4>1, <4>2, <4>3
    <3> QED
      BY <3>1, <3>2
  <2>3. ASSUME NEW u \in Teams \ upset', NEW d \in Calls, call'[d].at = "leave", call'[d].team = u,
               NEW n \in members', n.who = call'[d].who, n.team = u, n.role = "leader"
        PROVE  FALSE
    <3>1. Leads(call'[d].who, u)
      BY <1>0, <2>3 DEF Leads
    <3>2. CASE d = c
      BY <1>0, <1>1, <2>3, <3>1, <3>2 DEF NewFinds
    <3>3. CASE d # c
      <4>1. call'[d] = call[d]
        BY <1>1, <3>3
      <4> QED
        BY <2>0, <2>3, <3>1, <4>1 DEF LInv, ComeAndGo
    <3> QED
      BY <3>2, <3>3
  <2> QED
    BY <2>1, <2>2, <2>3 DEF ComeAndGo, OnTeam, Leads
<1>5. LeadInv'
  <2> SUFFICES ASSUME NEW u \in Teams \ upset', Exists(u)'
               PROVE  LeadAt(u)'
    BY DEF LeadInv
  <2>1. LeadAt(u)
    BY <1>0 DEF LInv, LeadInv, Exists
  <2>2. \A p : Leads(p, u)' <=> Leads(p, u)
    BY <1>0 DEF Leads
  <2>3. CASE u # t
    <3>1. \A d \in Calls : call'[d].team = u => d # c /\ call'[d] = call[d]
      BY <1>0, <1>1, <2>3
    <3>2. \A d \in Calls : call[d].team = u => call'[d] = call[d] \/ call[d].at \in {"idle", "disband"}
      BY <1>0, <1>1
    <3> QED
      BY <1>0, <2>1, <3>1, <3>2, LeadStays
  <2>4. CASE u = t
    <3>1. \A d \in Calls : call[d].team = u =>
            call[d].at \notin {"insert leader", "demote", "rename", "drop team"}
      <4>1. \A d \in Calls \ {c} : call[d].team = u => call[d].at = "idle"
        BY <2>4 DEF NewAlone
      <4> QED
        BY <1>0, <4>1
    <3>2. \A p \in Persons : Leads(p, u) <=> p = team[u]
      BY <2>1, <3>1 DEF LeadAt
    <3>3. \A d \in Calls : call'[d].team = u /\ call'[d].at # "idle" => d = c
      BY <1>1, <2>4 DEF NewAlone
    <3>4. new.at = "promote" =>
            /\ new.who = team[u] /\ new.other # new.who
            /\ MemberId(new.who) \in new.rows /\ MemberId(new.other) \in new.rows
      BY <1>0, <2>4, <3>2 DEF NewFinds
    <3>5. call'[c] = new
      BY <1>1
    <3>6. \A d \in Calls : call'[d].team = u =>
            call'[d].at \notin {"insert leader", "demote", "rename", "drop team"}
      BY <1>0, <3>3, <3>5
    <3>7. \A d \in Calls : call'[d].team = u /\ call'[d].at = "promote" =>
            /\ team'[u] = call'[d].who /\ call'[d].other # call'[d].who
            /\ MemberId(call'[d].who) \in call'[d].rows /\ MemberId(call'[d].other) \in call'[d].rows
      BY <1>0, <2>4, <3>3, <3>4, <3>5
    <3> QED
      BY <1>0, <2>2, <3>2, <3>6, <3>7 DEF LeadAt
  <2> QED
    BY <2>3, <2>4
<1> QED
  BY <1>2, <1>3, <1>4, <1>5 DEF LInvParts

LEMMA BeginLeads ==
  ASSUME LInv, NEW c \in Calls, NEW at \in Steps, NEW p \in Persons, NEW t \in Teams, NEW other, NEW rows,
         NEW content, Begin(c, at, p, t, other, rows, content),
         at \notin {"idle", "insert leader", "demote", "rename", "drop members", "drop team"},
         at \in Coming => RowsOf(p) = {},
         at = "insert team" => /\ team[t] = "unborn"
                               /\ \A d \in Calls : call[d].at = "insert team" => call[d].team # t,
         at = "drop entry" => Leads(p, t),
         at = "leave" => OnTeam(p, t) /\ ~ Leads(p, t),
         at = "promote" => /\ other \in Persons /\ rows = {MemberId(p), MemberId(other)}
                           /\ Leads(p, t) /\ OnTeam(other, t)
  PROVE  LInvParts'
<1> DEFINE new == At(at, p, t, other, rows, content)
           others == { d \in Calls : call[d].at # "idle" /\ (call[d].team = t \/ call[d].who = p) }
<1>1. new.at = at /\ new.team = t /\ new.who = p /\ new.other = other /\ new.rows = rows
  BY DEF At
<1>2. /\ call' = [call EXCEPT ![c] = new] /\ UNCHANGED <<team, members>> /\ call[c].at = "idle"
      /\ upset \subseteq upset' /\ (others # {} => t \in upset') /\ (other = p => t \in upset')
      /\ \A d \in others : call[d].team \in upset'
  BY DEF Begin, tables
<1>3. \A d \in Calls : call[d].at # "idle" /\ (call[d].team = t \/ call[d].who = p) => d \in others
  OBVIOUS
<1>4. at = "drop entry" => Exists(t)
  BY Whole DEF LInv, Leads
<1>5. at \in Coming => \A m \in members : m.who # p
  BY DEF RowsOf
<1> HIDE DEF new, others
<1>6. NewIs(c, new, t)
  BY <1>1, <1>2 DEF NewIs
<1>7. NewAlone(c, new, t)
  BY <1>1, <1>2, <1>3 DEF NewAlone
<1>8. NewFinds(c, new, t)
  BY <1>1, <1>2, <1>4, <1>5 DEF NewFinds
<1> QED
  BY <1>6, <1>7, <1>8, NewCall


\* The handlers that start.
LEMMA StartsLeads ==
  ASSUME LInv, NEW c \in Calls, Starts(c)
  PROVE  LInvParts'
<1>0. /\ "insert team" \in Steps /\ "insert member" \in Steps /\ "drop entry" \in Steps /\ "promote" \in Steps
      /\ "leave" \in Steps /\ "disband" \in Steps /\ "insert draft" \in Steps /\ "update draft" \in Steps
      /\ "submit" \in Steps /\ "cast" \in Steps /\ "withdraw" \in Steps
  BY DEF Steps
<1>1. PICK p \in Persons, t \in Teams :
        \/ BeginCreate(c, p, t) \/ BeginJoin(c, p, t) \/ BeginDisband(c, p, t)
        \/ \E q \in Persons : BeginTransfer(c, p, q, t)
        \/ BeginLeave(c, p, t)
        \/ \E content \in {"partial", "complete"} : BeginSave(c, p, t, content)
        \/ BeginSubmit(c, p, t) \/ BeginVote(c, p, t)
  BY DEF Starts
<1>2. CASE BeginCreate(c, p, t)
  <2>1. Begin(c, "insert team", p, t, None, {}, "nothing") /\ RowsOf(p) = {} /\ team[t] = "unborn"
    BY <1>2 DEF BeginCreate
  <2>2. \A d \in Calls : call[d].at = "insert team" => call[d].team # t
    BY <1>2 DEF BeginCreate
  <2> QED
    BY <1>0, <2>1, <2>2, BeginLeads
<1>3. CASE BeginJoin(c, p, t)
  <2>1. Begin(c, "insert member", p, t, None, {}, "nothing") /\ RowsOf(p) = {}
    BY <1>3 DEF BeginJoin
  <2> QED
    BY <1>0, <2>1, BeginLeads
<1>4. CASE BeginDisband(c, p, t)
  <2>1. Begin(c, "drop entry", p, t, None, EntryRow(t), "nothing") /\ Leads(p, t)
    BY <1>4 DEF BeginDisband, MayDisband
  <2>2. "drop entry" \notin Coming
    BY DEF Coming
  <2> QED
    BY <1>0, <2>1, <2>2, BeginLeads
<1>5. CASE \E q \in Persons : BeginTransfer(c, p, q, t)
  <2>1. PICK q \in Persons : BeginTransfer(c, p, q, t)
    BY <1>5
  <2>2. /\ Begin(c, "promote", p, t, q, {MemberId(p), MemberId(q)}, "nothing")
        /\ Leads(p, t) /\ OnTeam(q, t)
    BY <2>1 DEF BeginTransfer
  <2>3. "promote" \notin Coming
    BY DEF Coming
  <2> QED
    BY <1>0, <2>2, <2>3, BeginLeads
<1>6. CASE BeginLeave(c, p, t)
  <2>1. CASE Leads(p, t)
    <3>1. Begin(c, "disband", p, t, None, {}, "nothing")
      BY <1>6, <2>1 DEF BeginLeave
    <3>2. "disband" \notin Coming
      BY DEF Coming
    <3> QED
      BY <1>0, <3>1, <3>2, BeginLeads
  <2>2. CASE ~ Leads(p, t)
    <3>1. Begin(c, "leave", p, t, None, {}, "nothing") /\ OnTeam(p, t)
      BY <1>6, <2>2 DEF BeginLeave
    <3>2. "leave" \notin Coming
      BY DEF Coming
    <3> QED
      BY <1>0, <2>2, <3>1, <3>2, BeginLeads
  <2> QED
    BY <2>1, <2>2
<1>7. CASE \/ \E content \in {"partial", "complete"} : BeginSave(c, p, t, content)
           \/ BeginSubmit(c, p, t) \/ BeginVote(c, p, t)
  <2>1. ASSUME NEW at \in {"insert draft", "update draft", "submit", "cast", "withdraw"}, NEW rows, NEW content,
               Begin(c, at, p, t, None, rows, content)
        PROVE  LInvParts'
    <3>1. /\ at \in Steps /\ at \notin Coming
          /\ at \notin {"idle", "insert leader", "demote", "rename", "drop members", "drop team", "insert team",
                        "drop entry", "leave", "promote"}
      BY <1>0 DEF Coming
    <3> QED
      BY <2>1, <3>1, BeginLeads
  <2>2. CASE \E content \in {"partial", "complete"} : BeginSave(c, p, t, content)
    <3>1. PICK content \in {"partial", "complete"} : BeginSave(c, p, t, content)
      BY <2>2
    <3>2. \/ Begin(c, "insert draft", p, t, None, EntryRow(t), content)
          \/ Begin(c, "update draft", p, t, None, EntryRow(t), content)
      BY <3>1, Zenon DEF BeginSave
    <3> QED
      BY <2>1, <3>2
  <2>3. CASE BeginSubmit(c, p, t)
    <3>1. Begin(c, "submit", p, t, None, {EntryId(t)}, "nothing")
      BY <2>3 DEF BeginSubmit
    <3> QED
      BY <2>1, <3>1
  <2>4. CASE BeginVote(c, p, t)
    <3>1. \/ Begin(c, "withdraw", p, t, None, {VoteId(p, t)}, "nothing")
          \/ Begin(c, "cast", p, t, None, {EntryId(t)}, "nothing")
      BY <2>4, Zenon DEF BeginVote
    <3> QED
      BY <2>1, <3>1
  <2> QED
    BY <1>7, <2>2, <2>3, <2>4
<1> QED
  BY <1>1, <1>2, <1>3, <1>4, <1>5, <1>6, <1>7

LEMMA RereadLeads ==
  ASSUME LInv, NEW c \in Calls, Reread(c), ~ (Goes(c, "idle", {}) /\ UNCHANGED upset)
  PROVE  LInvParts'
<1>1. PICK t \in Teams :
        /\ MayDisband(call[c].who, t)
        /\ call' = [call EXCEPT ![c] = At("drop entry", call[c].who, t, None, EntryRow(t), "nothing")]
        /\ upset' = IF \E d \in Calls \ {c} : call[d].team = t THEN upset \cup {t} ELSE upset
  BY DEF Reread
<1>2. call[c].at = "disband" /\ team' = team /\ members' = members
  BY DEF Reread, tables
<1>3. call[c].who \in Persons /\ Exists(t)
  BY <1>1, <1>2, Whole DEF LInv, MayDisband, Leads
<1> DEFINE new == At("drop entry", call[c].who, t, None, EntryRow(t), "nothing")
<1>4. new.at = "drop entry" /\ new.team = t /\ new.who = call[c].who /\ call' = [call EXCEPT ![c] = new]
  BY <1>1 DEF At
<1> HIDE DEF new
<1>5. NewIs(c, new, t)
  BY <1>1, <1>2, <1>3, <1>4 DEF NewIs, Steps
<1>6. NewAlone(c, new, t)
  BY <1>1, <1>4 DEF NewAlone, Coming
<1>7. NewFinds(c, new, t)
  BY <1>3, <1>4 DEF NewFinds, Coming
<1> QED
  BY <1>5, <1>6, <1>7, NewCall

\* A call that dies upsets its team.
LEMMA DieLeads ==
  ASSUME LInv, NEW c \in Calls, Die(c)
  PROVE  LInvParts'
<1>0. /\ call[c].at # "idle" /\ team' = team /\ members' = members
      /\ upset' = upset \cup {call[c].team} /\ call' = [call EXCEPT ![c] = Idle]
  BY DEF Die, tables
<1>1. /\ call'[c].at = "idle"
      /\ \A d \in Calls : d # c => call'[d] = call[d]
  BY <1>0, Whole DEF LInv, Idle, At
<1>2. FreshInv'
  <2>1. \A d \in Calls : call'[d].at # "idle" => call'[d] = call[d]
    BY <1>1
  <2>2. \A d \in Calls :
          /\ call[d].at = "insert team" =>
               /\ team[call[d].team] = "unborn"
               /\ \A e \in Calls : call[e].at = "insert team" /\ call[e].team = call[d].team => e = d
          /\ call[d].at \in {"drop entry", "drop members", "drop team"} => team[call[d].team] # "unborn"
    BY DEF LInv, FreshInv
  <2>3. ASSUME NEW d \in Calls, call'[d].at = "insert team"
        PROVE  /\ team'[call'[d].team] = "unborn"
               /\ \A e \in Calls : call'[e].at = "insert team" /\ call'[e].team = call'[d].team => e = d
    BY <1>0, <2>1, <2>2, <2>3
  <2>4. ASSUME NEW d \in Calls, call'[d].at \in {"drop entry", "drop members", "drop team"}
        PROVE  team'[call'[d].team] # "unborn"
    BY <1>0, <2>1, <2>2, <2>4
  <2> QED
    BY <2>3, <2>4 DEF FreshInv
<1>3. HandInv'
  <2>1. \A d \in Calls : call'[d].at # "idle" => call'[d] = call[d]
    BY <1>1
  <2> QED
    BY <1>0, <2>1 DEF LInv, HandInv, OnTeam
<1>4. ComeAndGo'
  <2>1. \A d \in Calls : call'[d].at # "idle" => call'[d] = call[d]
    BY <1>1
  <2>2. "idle" \notin Coming \cup {"leave"}
    BY DEF Coming
  <2> QED
    BY <1>0, <2>1, <2>2 DEF LInv, ComeAndGo, OnTeam, Leads
<1>5. LeadInv'
  <2> SUFFICES ASSUME NEW u \in Teams \ upset', Exists(u)'
               PROVE  LeadAt(u)'
    BY DEF LeadInv
  <2>1. LeadAt(u) /\ u # call[c].team
    BY <1>0 DEF LInv, LeadInv, Exists
  <2>2. /\ \A d \in Calls : call'[d].team = u => call'[d] = call[d]
        /\ \A d \in Calls : call[d].team = u => call'[d] = call[d]
    <3>1. call'[c].team # u
      BY <1>0, TeamsAssumption, Whole DEF LInv, Idle, At
    <3> QED
      BY <1>1, <2>1, <3>1
  <2> QED
    BY <1>0, <2>1, <2>2, LeadStays
<1> QED
  BY <1>2, <1>3, <1>4, <1>5 DEF LInvParts

\* A step that touches neither calls nor teams.
LEMMA OutsideLeads ==
  ASSUME LInv, UNCHANGED <<team, members, call, upset>>
  PROVE  LInvParts'
<1>1. FreshInv' /\ HandInv' /\ ComeAndGo'
  <2>1. FreshInv'
    BY DEF LInv, FreshInv
  <2>2. HandInv'
    BY DEF LInv, HandInv, OnTeam
  <2>3. ComeAndGo'
    BY DEF LInv, ComeAndGo, OnTeam, Leads
  <2> QED
    BY <2>1, <2>2, <2>3
<1>2. LeadInv'
  BY LeadStays DEF LInv, LeadInv, Exists
<1> QED
  BY <1>1, <1>2 DEF LInvParts

-----------------------------------------------------------------------------
(* The theorem. *)

\* Every write but the re-reading that goes on is such a step.
LEMMA WritesLead ==
  ASSUME LInv, NEW c \in Calls, Writes(c), ~ Reread(c) \/ (Goes(c, "idle", {}) /\ UNCHANGED upset)
  PROVE  LInvParts'
<1>0. IInv
  BY DEF LInv
<1>1. StepFacts(c)
  <2>1. CASE \/ InsertTeam(c) \/ Rename(c) \/ DropEntry(c) \/ InsertDraft(c) \/ UpdateDraft(c) \/ Submit(c)
             \/ Cast(c) \/ Withdraw(c) \/ (Reread(c) /\ Goes(c, "idle", {}) /\ UNCHANGED upset)
    BY <1>0, <2>1, StillSteps
  <2>2. CASE InsertMember(c) \/ DropMembers(c) \/ DropTeam(c) \/ DeleteMine(c) \/ Promote(c) \/ Demote(c)
    BY <1>0, <2>2, MovingSteps
  <2> QED
    BY <2>1, <2>2 DEF Writes
<1>2. FreshInv' /\ HandInv' /\ ComeAndGo'
  BY <1>1, FreshKept, HandKept, ComeKept
<1>3. ASSUME NEW t \in Teams \ upset, Exists(t)'
      PROVE  LeadAt(t)'
  <2>1. CASE t = call[c].team
    BY <1>1, <1>3, <2>1, HomeKept
  <2>2. CASE t # call[c].team
    BY <1>1, <1>3, <2>2, ElsewhereKept
  <2> QED
    BY <2>1, <2>2
<1>4. upset' = upset
  BY <1>1 DEF StepFacts, CallStep
<1> QED
  BY <1>2, <1>3, <1>4 DEF LInvParts, LeadInv

LEMMA LeadStart == Init => QuietInv /\ LInvParts
<1> SUFFICES ASSUME Init
             PROVE  QuietInv /\ LInvParts
  OBVIOUS
<1>1. \A c \in Calls : call[c].at = "idle"
  BY DEF Init, Idle, At
<1>2. \A t \in Teams : ~ Exists(t)
  BY TeamsAssumption DEF Init, Exists
<1> QED
  BY <1>1, <1>2 DEF QuietInv, LInvParts, FreshInv, HandInv, ComeAndGo, Coming, LeadInv

LEMMA LeadStep == LInv /\ [Next]_vars => LInv'
<1> SUFFICES ASSUME LInv, [Next]_vars
             PROVE  LInv'
  OBVIOUS
<1>1. IInv' /\ QuietInv'
  BY NextKeeps, QuietStep DEF LInv
<1>2. LInvParts'
  <2>1. CASE UNCHANGED vars \/ (\E e \in Saves : SaveEvent(e)) \/ (\E p \in Persons : Register(p))
    <3>1. UNCHANGED <<team, members, call, upset>>
      BY <2>1 DEF vars, tables, SaveEvent, Register
    <3> QED
      BY <3>1, OutsideLeads
  <2>2. ASSUME NEW c \in Calls, Starts(c) \/ Writes(c) \/ Die(c)
        PROVE  LInvParts'
    <3>1. CASE Starts(c)
      BY <3>1, StartsLeads
    <3>2. CASE Writes(c) /\ (~ Reread(c) \/ (Goes(c, "idle", {}) /\ UNCHANGED upset))
      BY <3>2, WritesLead
    <3>3. CASE Reread(c) /\ ~ (Goes(c, "idle", {}) /\ UNCHANGED upset)
      BY <3>3, RereadLeads
    <3>4. CASE Die(c)
      BY <3>4, DieLeads
    <3> QED
      BY <2>2, <3>1, <3>2, <3>3, <3>4
  <2> QED
    BY <2>1, <2>2 DEF Next
<1> QED
  BY <1>1, <1>2 DEF LInv, LInvParts

\* A team that no calls met on, that no call died on and that its leader has not handed to themself has exactly
\* one leader, the one its row names, when no call is about it.
THEOREM LeadersStand == Spec => []LeaderOfTeam
<1>1. Init => LInv
  BY InitKeeps, LeadStart DEF LInv, LInvParts
<1>2. LInv => LeaderOfTeam
  <2> SUFFICES ASSUME LInv, NEW t \in Teams, Exists(t), t \notin upset, \A c \in Calls : call[c].team # t
               PROVE  { m.who : m \in { n \in MembersOf(t) : n.role = "leader" } } = {team[t]}
    BY DEF LeaderOfTeam
  <2>1. \A p \in Persons : Leads(p, t) <=> p = team[t]
    BY DEF LInv, LeadInv, LeadAt
  <2>2. \A m \in members : m.who \in Persons
    BY Whole DEF LInv
  <2>3. team[t] \in Persons
    BY DEF Exists
  <2> QED
    BY <2>1, <2>2, <2>3 DEF Leads, MembersOf
<1>3. LInv /\ [Next]_vars => LInv'
  BY LeadStep
<1> QED
  BY <1>1, <1>2, <1>3, PTL DEF Spec

-----------------------------------------------------------------------------
(* How many members. *)

People(t) == { p \in Persons : OnTeam(p, t) }

\* The calls that are about to put somebody on the team t, or to make it.
Joiners(t) == { c \in Calls : call[c].at \in Coming /\ call[c].team = t }

\* Each call that is about to join found room. So whatever calls there are, all but one of them may find the
\* last place gone when they write; and on a team that is not upset, there is still room for the one.
RoomAt(t) ==
  /\ Cardinality(People(t)) + Cardinality(Joiners(t)) <= allowed - 1 + Cardinality(Calls)
  /\ t \notin upset =>
       /\ Cardinality(People(t)) <= allowed
       /\ Joiners(t) # {} => Cardinality(People(t)) < allowed

RoomInv == \A t \in Teams : RoomAt(t)

LEMMA Counts ==
  ASSUME NEW t
  PROVE  /\ IsFiniteSet(People(t)) /\ Cardinality(People(t)) \in Nat
         /\ IsFiniteSet(Joiners(t)) /\ Cardinality(Joiners(t)) \in Nat
         /\ Cardinality(Joiners(t)) <= Cardinality(Calls) /\ Cardinality(Calls) \in Nat
<1>1. People(t) \in SUBSET Persons /\ Joiners(t) \in SUBSET Calls
  BY DEF People, Joiners
<1>2. IsFiniteSet(Persons) /\ IsFiniteSet(Calls)
  BY TeamsAssumption
<1> QED
  BY <1>1, <1>2, FS_Subset, FS_CardinalityType

\* The limit that counts is a number, and the present one is no larger.
LEMMA LimitIsNat ==
  ASSUME TypeOK
  PROVE  allowed \in Nat \ {0} /\ event.maxTeamSize \in Nat /\ event.maxTeamSize <= allowed
  BY TeamsAssumption DEF TypeOK, Event

\* Nobody has two memberships, so that the members of a team are as many as the people on it.
LEMMA MembersArePeople ==
  ASSUME IInv, NEW t
  PROVE  Cardinality(MembersOf(t)) = Cardinality(People(t))
<1> DEFINE whose == [m \in MembersOf(t) |-> m.who]
<1>1. whose \in [MembersOf(t) -> People(t)]
  BY Whole DEF MembersOf, People, OnTeam
<1>2. \A m, n \in MembersOf(t) : whose[m] = whose[n] => m = n
  BY Whole DEF MembersOf
<1>3. \A p \in People(t) : \E m \in MembersOf(t) : whose[m] = p
  BY DEF MembersOf, People, OnTeam
<1> HIDE DEF whose
<1>4. whose \in Injection(MembersOf(t), People(t)) /\ whose \in Surjection(MembersOf(t), People(t))
  BY <1>1, <1>2, <1>3 DEF Injection, IsInjective, Surjection
<1> QED
  BY <1>4, Counts, FS_Injection

\* Where nobody comes and no call turns to the team, there is room as before.
LEMMA RoomStays ==
  ASSUME NEW t, RoomAt(t), People(t)' \subseteq People(t), Joiners(t)' \subseteq Joiners(t),
         upset \subseteq upset', allowed \in Nat, allowed' \in Nat, allowed <= allowed'
  PROVE  RoomAt(t)'
<1>1. /\ Cardinality(People(t)') <= Cardinality(People(t)) /\ Cardinality(People(t)') \in Nat
      /\ Cardinality(Joiners(t)') <= Cardinality(Joiners(t)) /\ Cardinality(Joiners(t)') \in Nat
  BY Counts, FS_Subset, FS_CardinalityType
<1>2. Cardinality(People(t)') + Cardinality(Joiners(t)') <= Cardinality(People(t)) + Cardinality(Joiners(t))
  BY <1>1, Counts
<1>3. Joiners(t)' # {} => Joiners(t) # {}
  OBVIOUS
<1>4. t \notin upset' => t \notin upset
  OBVIOUS
<1> QED
  BY <1>1, <1>2, <1>3, <1>4, Counts DEF RoomAt

\* A call that starts leaves everybody where they are.
LEMMA BeginRoom ==
  ASSUME LInv, RoomInv, NEW c \in Calls, NEW at, NEW p, NEW t \in Teams, NEW other, NEW rows, NEW content,
         Begin(c, at, p, t, other, rows, content), at \in Coming => Cardinality(People(t)) < allowed
  PROVE  RoomInv'
<1> DEFINE new == At(at, p, t, other, rows, content)
<1>1. new.at = at /\ new.team = t
  BY DEF At
<1>2. /\ call' = [call EXCEPT ![c] = new] /\ members' = members /\ upset \subseteq upset'
      /\ allowed' = allowed /\ allowed \in Nat
  BY LimitIsNat DEF Begin, tables, LInv, IInv
<1> HIDE DEF new
<1>3. \A d \in Calls : call'[d] = IF d = c THEN new ELSE call[d]
  BY <1>2, Whole DEF LInv
<1>4. \A u : People(u)' = People(u)
  BY <1>2 DEF People, OnTeam
<1>5. ASSUME NEW u \in Teams
      PROVE  RoomAt(u)'
  <2>1. CASE u = t /\ at \in Coming
    <3>1. Cardinality(People(u)') < allowed
      BY <1>4, <2>1
    <3>2. Joiners(u)' \in SUBSET Calls
      BY DEF Joiners
    <3>3. /\ Cardinality(Joiners(u)') <= Cardinality(Calls) /\ Cardinality(Joiners(u)') \in Nat
          /\ Cardinality(Calls) \in Nat
      BY <3>2, TeamsAssumption, FS_Subset, FS_CardinalityType
    <3>4. Cardinality(People(u)') \in Nat /\ allowed \in Nat /\ allowed' = allowed
      BY <1>2, <1>4, Counts
    <3> QED
      BY <3>1, <3>3, <3>4 DEF RoomAt
  <2>2. CASE ~ (u = t /\ at \in Coming)
    <3>1. Joiners(u)' \subseteq Joiners(u)
      BY <1>1, <1>3, <2>2 DEF Joiners
    <3> QED
      BY <1>2, <1>4, <3>1, RoomStays DEF RoomInv
  <2> QED
    BY <2>1, <2>2
<1> QED
  BY <1>5 DEF RoomInv

LEMMA StartsRoom ==
  ASSUME LInv, RoomInv, NEW c \in Calls, Starts(c)
  PROVE  RoomInv'
<1>1. PICK p \in Persons, t \in Teams :
        \/ BeginCreate(c, p, t)
        \/ BeginJoin(c, p, t)
        \/ BeginDisband(c, p, t)
        \/ \E q \in Persons : BeginTransfer(c, p, q, t)
        \/ BeginLeave(c, p, t)
        \/ \E content \in {"partial", "complete"} : BeginSave(c, p, t, content)
        \/ BeginSubmit(c, p, t)
        \/ BeginVote(c, p, t)
  BY DEF Starts
<1>2. CASE BeginCreate(c, p, t)
  <2>1. ~ Exists(t) /\ Begin(c, "insert team", p, t, None, {}, "nothing")
    BY <1>2, TeamsAssumption DEF BeginCreate, Exists
  <2>2. People(t) = {}
    BY <2>1, Whole DEF LInv, People, OnTeam
  <2>3. Cardinality(People(t)) < allowed
    BY <2>2, FS_EmptySet, LimitIsNat DEF LInv, IInv
  <2> QED
    BY <2>1, <2>3, BeginRoom
<1>3. CASE BeginJoin(c, p, t)
  <2>1. /\ Cardinality(MembersOf(t)) < event.maxTeamSize
        /\ Begin(c, "insert member", p, t, None, {}, "nothing")
    BY <1>3 DEF BeginJoin, HasRoom
  <2>2. Cardinality(People(t)) < event.maxTeamSize
    BY <2>1, MembersArePeople DEF LInv
  <2>3. Cardinality(People(t)) < allowed
    BY <2>2, Counts, LimitIsNat DEF LInv, IInv
  <2> QED
    BY <2>1, <2>3, BeginRoom
<1>4. CASE ~ BeginCreate(c, p, t) /\ ~ BeginJoin(c, p, t)
  <2>1. ASSUME NEW at \in Steps \ Coming, NEW other, NEW rows, NEW content,
               Begin(c, at, p, t, other, rows, content)
        PROVE  RoomInv'
    BY <2>1, BeginRoom
  <2>2. {"drop entry", "promote", "disband", "leave", "insert draft", "update draft", "submit", "cast",
         "withdraw"} \subseteq Steps \ Coming
    BY DEF Steps, Coming
  <2>3. CASE BeginDisband(c, p, t) \/ BeginSubmit(c, p, t)
    <3>1. \/ Begin(c, "drop entry", p, t, None, EntryRow(t), "nothing")
          \/ Begin(c, "submit", p, t, None, {EntryId(t)}, "nothing")
      BY <2>3, Zenon DEF BeginDisband, BeginSubmit
    <3> QED
      BY <2>1, <2>2, <3>1
  <2>4. CASE \E q \in Persons : BeginTransfer(c, p, q, t)
    <3>1. PICK q \in Persons : Begin(c, "promote", p, t, q, {MemberId(p), MemberId(q)}, "nothing")
      BY <2>4 DEF BeginTransfer
    <3> QED
      BY <2>1, <2>2, <3>1
  <2>5. CASE BeginLeave(c, p, t)
    <3>1. \/ Begin(c, "disband", p, t, None, {}, "nothing")
          \/ Begin(c, "leave", p, t, None, {}, "nothing")
      BY <2>5, Zenon DEF BeginLeave
    <3> QED
      BY <2>1, <2>2, <3>1
  <2>6. CASE \E content \in {"partial", "complete"} : BeginSave(c, p, t, content)
    <3>1. PICK content \in {"partial", "complete"} : BeginSave(c, p, t, content)
      BY <2>6
    <3>2. \/ Begin(c, "insert draft", p, t, None, EntryRow(t), content)
          \/ Begin(c, "update draft", p, t, None, EntryRow(t), content)
      BY <3>1, Zenon DEF BeginSave
    <3> QED
      BY <2>1, <2>2, <3>2
  <2>7. CASE BeginVote(c, p, t)
    <3>1. \/ Begin(c, "withdraw", p, t, None, {VoteId(p, t)}, "nothing")
          \/ Begin(c, "cast", p, t, None, {EntryId(t)}, "nothing")
      BY <2>7, Zenon DEF BeginVote
    <3> QED
      BY <2>1, <2>2, <3>1
  <2> QED
    BY <1>1, <1>4, <2>3, <2>4, <2>5, <2>6, <2>7
<1> QED
  BY <1>2, <1>3, <1>4

\* A write puts at most one person on a team, the one whose call then ends.
LEMMA WritesRoom ==
  ASSUME LInv, RoomInv, NEW c \in Calls, StepFacts(c), allowed' = allowed
  PROVE  RoomInv'
<1>0. allowed \in Nat
  BY LimitIsNat DEF LInv, IInv
<1>1. /\ upset' = upset /\ call[c].at # "idle"
      /\ \A d \in Calls : call'[d].at # "idle" => call'[d].team = call[d].team
      /\ \A d \in Calls \ {c} : call'[d].at = call[d].at
      /\ call'[c].at \in Coming => call[c].at \in Coming
      /\ call[c].at \in {"insert leader", "insert member"} => call'[c].at = "idle"
  BY DEF StepFacts, CallStep, Coming
<1>2. \A t : Joiners(t)' \subseteq Joiners(t)
  BY <1>1 DEF Joiners, Coming
<1>3. \A n \in members' :
        \/ call[c].at \in {"insert leader", "insert member"} /\ n.who = call[c].who /\ n.team = call[c].team
        \/ \E m \in members : m.who = n.who /\ m.team = n.team
  BY DEF StepFacts, MemberStep
<1> SUFFICES ASSUME NEW t \in Teams
             PROVE  RoomAt(t)'
  BY DEF RoomInv
<1>4. RoomAt(t)
  BY DEF RoomInv
<1>5. CASE call[c].at \in {"insert leader", "insert member"} /\ call[c].team = t
  <2>1. c \in Joiners(t) /\ Joiners(t)' \subseteq Joiners(t) \ {c}
    BY <1>1, <1>2, <1>5 DEF Joiners, Coming
  <2>2. Cardinality(Joiners(t)') <= Cardinality(Joiners(t)) - 1 /\ Cardinality(Joiners(t)') \in Nat
    <3>1. IsFiniteSet(Joiners(t) \ {c}) /\ Cardinality(Joiners(t) \ {c}) = Cardinality(Joiners(t)) - 1
      BY <2>1, Counts, FS_RemoveElement
    <3> QED
      BY <2>1, <3>1, FS_Subset, FS_CardinalityType
  <2>3. People(t)' \subseteq People(t) \cup {call[c].who}
    BY <1>3 DEF People, OnTeam
  <2>4. Cardinality(People(t)') <= Cardinality(People(t)) + 1 /\ Cardinality(People(t)') \in Nat
    <3>1. /\ IsFiniteSet(People(t) \cup {call[c].who})
          /\ Cardinality(People(t) \cup {call[c].who}) <= Cardinality(People(t)) + 1
      <4>1. IsFiniteSet(People(t)) /\ Cardinality(People(t)) \in Nat
        BY Counts
      <4>2. Cardinality(People(t) \cup {call[c].who})
              = IF call[c].who \in People(t) THEN Cardinality(People(t)) ELSE Cardinality(People(t)) + 1
        BY <4>1, FS_AddElement
      <4>3. IsFiniteSet(People(t) \cup {call[c].who})
        BY <4>1, FS_AddElement
      <4> QED
        BY <4>1, <4>2, <4>3
    <3>2. /\ Cardinality(People(t)') <= Cardinality(People(t) \cup {call[c].who})
          /\ Cardinality(People(t)') \in Nat /\ Cardinality(People(t) \cup {call[c].who}) \in Nat
      BY <2>3, <3>1, FS_Subset, FS_CardinalityType
    <3> QED
      BY <3>1, <3>2, Counts
  <2>5. t \notin upset => Joiners(t)' = {}
    <3>1. ASSUME t \notin upset, NEW d \in Joiners(t)
          PROVE  d = c
      <4>1. call[d].at # "idle" /\ call[d].team = t /\ d \in Calls
        BY <3>1 DEF Joiners, Coming
      <4> QED
        BY <1>1, <1>5, <3>1, <4>1 DEF LInv, QuietInv
    <3> QED
      BY <2>1, <3>1
  <2>6. Joiners(t) # {}
    BY <2>1
  <2>7. Cardinality(People(t)') + Cardinality(Joiners(t)') <= allowed - 1 + Cardinality(Calls)
    <3>1. /\ Cardinality(People(t)) + Cardinality(Joiners(t)) <= allowed - 1 + Cardinality(Calls)
          /\ Cardinality(People(t)) \in Nat /\ Cardinality(Joiners(t)) \in Nat
          /\ allowed \in Nat /\ Cardinality(Calls) \in Nat
      BY <1>0, <1>4, Counts DEF RoomAt
    <3> QED
      BY <2>2, <2>4, <3>1
  <2>8. t \notin upset => Cardinality(People(t)') <= allowed
    <3>1. t \notin upset => Cardinality(People(t)) < allowed
      BY <1>4, <2>6 DEF RoomAt
    <3> QED
      BY <1>0, <2>4, <3>1, Counts
  <2> QED
    BY <1>1, <2>5, <2>7, <2>8 DEF RoomAt
<1>6. CASE ~ (call[c].at \in {"insert leader", "insert member"} /\ call[c].team = t)
  <2>1. People(t)' \subseteq People(t)
    BY <1>3, <1>6 DEF People, OnTeam
  <2>2. allowed' \in Nat /\ allowed <= allowed'
    BY <1>0
  <2>3. upset \subseteq upset'
    BY <1>1
  <2> QED
    BY <1>0, <1>2, <1>4, <2>1, <2>2, <2>3, RoomStays
<1> QED
  BY <1>5, <1>6

LEMMA RoomStep ==
  ASSUME LInv, RoomInv, [Next]_vars
  PROVE  RoomInv'
<1>0. allowed \in Nat
  BY LimitIsNat DEF LInv, IInv
<1>1. ASSUME members' = members, \A t \in Teams : Joiners(t)' \subseteq Joiners(t), upset \subseteq upset',
             allowed' \in Nat, allowed <= allowed'
      PROVE  RoomInv'
  <2>1. \A t : People(t)' = People(t)
    BY <1>1 DEF People, OnTeam
  <2> QED
    BY <1>0, <1>1, <2>1, RoomStays DEF RoomInv
<1>2. CASE UNCHANGED vars \/ (\E e \in Saves : SaveEvent(e)) \/ (\E p \in Persons : Register(p))
  <2>1. UNCHANGED <<members, call, upset>> /\ allowed' \in Nat /\ allowed <= allowed'
    <3>1. \A e \in Saves : e.maxTeamSize \in Nat
      BY TeamsAssumption, SavesAssumption DEF Event
    <3> QED
      BY <1>0, <1>2, <3>1 DEF vars, tables, SaveEvent, Register
  <2> QED
    BY <1>1, <2>1 DEF Joiners
<1>3. ASSUME NEW c \in Calls, Die(c)
      PROVE  RoomInv'
  <2>1. /\ members' = members /\ call' = [call EXCEPT ![c] = Idle] /\ upset \subseteq upset'
        /\ allowed' = allowed
    BY <1>3 DEF Die, tables
  <2>2. \A d \in Calls : call'[d].at \in Coming => call'[d] = call[d]
    BY <2>1, Whole DEF LInv, Idle, At, Coming
  <2> QED
    BY <1>0, <1>1, <2>1, <2>2 DEF Joiners
<1>4. ASSUME NEW c \in Calls, Reread(c), ~ (Goes(c, "idle", {}) /\ UNCHANGED upset)
      PROVE  RoomInv'
  <2>1. PICK t \in Teams :
          /\ call' = [call EXCEPT ![c] = At("drop entry", call[c].who, t, None, EntryRow(t), "nothing")]
          /\ upset' = IF \E d \in Calls \ {c} : call[d].team = t THEN upset \cup {t} ELSE upset
    BY <1>4 DEF Reread
  <2>2. members' = members /\ allowed' = allowed
    BY <1>4 DEF Reread, tables
  <2>3. \A d \in Calls : call'[d].at \in Coming => call'[d] = call[d]
    BY <2>1, Whole DEF LInv, At, Coming
  <2>4. allowed' \in Nat /\ allowed <= allowed'
    BY <1>0, <2>2
  <2>6. upset \subseteq upset'
    BY <2>1
  <2>5. \A s \in Teams : Joiners(s)' \subseteq Joiners(s)
    BY <2>3 DEF Joiners
  <2> QED
    BY <1>1, <2>2, <2>4, <2>5, <2>6
<1>5. ASSUME NEW c \in Calls, Writes(c), ~ Reread(c) \/ (Goes(c, "idle", {}) /\ UNCHANGED upset)
      PROVE  RoomInv'
  <2>1. IInv /\ allowed' = allowed
    BY <1>5 DEF LInv, Writes, InsertTeam, InsertMember, Reread, DropEntry, DropMembers, DropTeam,
                Promote, Demote, Rename, DeleteMine, InsertDraft, UpdateDraft, Submit, Cast, Withdraw
  <2>2. CASE \/ InsertTeam(c) \/ Rename(c) \/ DropEntry(c) \/ InsertDraft(c) \/ UpdateDraft(c) \/ Submit(c)
             \/ Cast(c) \/ Withdraw(c) \/ (Reread(c) /\ Goes(c, "idle", {}) /\ UNCHANGED upset)
    BY <2>1, <2>2, StillSteps, WritesRoom
  <2>3. CASE InsertMember(c) \/ DropMembers(c) \/ DropTeam(c) \/ DeleteMine(c) \/ Promote(c) \/ Demote(c)
    BY <2>1, <2>3, MovingSteps, WritesRoom
  <2> QED
    BY <1>5, <2>2, <2>3 DEF Writes
<1> QED
  BY <1>2, <1>3, <1>4, <1>5, StartsRoom DEF Next

\* No team on which no calls met is larger than the event ever allowed, whatever the organiser saves;
\* and where calls met, those at work at once add at most one each, save the one that had room.
THEOREM TeamsFit == Spec => []TeamSize
<1>1. Init => LInv /\ RoomInv
  <2> SUFFICES ASSUME Init
               PROVE  RoomInv
    BY InitKeeps, LeadStart DEF LInv, LInvParts
  <2>1. \A t : People(t) = {} /\ Joiners(t) = {}
    BY DEF Init, People, OnTeam, Joiners, Idle, At, Coming
  <2> QED
    BY <2>1, FS_EmptySet, Counts, InitKeeps, LimitIsNat DEF RoomInv, RoomAt, IInv
<1>2. LInv /\ RoomInv /\ [Next]_vars => (LInv /\ RoomInv)'
  BY LeadStep, RoomStep
<1>3. LInv /\ RoomInv => TeamSize
  <2> SUFFICES ASSUME LInv, RoomInv, NEW t \in Teams
               PROVE  Cardinality(MembersOf(t)) <=
                        allowed + (IF t \in upset THEN Cardinality(Calls) - 1 ELSE 0)
    BY DEF TeamSize
  <2>1. Cardinality(MembersOf(t)) = Cardinality(People(t))
    BY MembersArePeople DEF LInv
  <2> QED
    BY <2>1, Counts, LimitIsNat DEF RoomInv, RoomAt, LInv, IInv
<1> QED
  BY <1>1, <1>2, <1>3, PTL DEF Spec

=============================================================================

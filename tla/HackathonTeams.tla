---------------------------- MODULE HackathonTeams ----------------------------
(***************************************************************************)
(* Teams, entries and community votes of one hackathon:                    *)
(* src/src/server/hackathons/actions.ts on the tables of                   *)
(* src/src/db/schema/hackathons.ts.                                        *)
(*                                                                         *)
(* No handler opens a transaction.  A call reads what it decides on, in    *)
(* one step here, and then writes statement by statement, while other      *)
(* calls do the same; it may die between two of them.  What holds all the  *)
(* same is the tables': unique indexes, and foreign keys that cascade.     *)
(***************************************************************************)
EXTENDS Integers, FiniteSets

CONSTANTS
  Persons, Teams,
  Calls,        \* server actions at work at the same time
  Sizes,        \* the largest team sizes that the organiser sets
  Saves,        \* the rows of the event that the organiser saves
  MaxMoves,     \* how many times the event is saved (bounds the model)
  MaxCalls,     \* calls that are made in all (bounds the model)
  None          \* nobody, no team

ASSUME TeamsAssumption ==
  /\ None \notin Persons \cup Teams
  /\ "unborn" \notin Persons /\ "gone" \notin Persons
  /\ Sizes \subseteq Nat \ {0}
  /\ MaxMoves \in Nat /\ MaxCalls \in Nat
  /\ IsFiniteSet(Persons) /\ IsFiniteSet(Calls)

Statuses == {"draft", "open", "building", "judging", "completed", "archived"}

Event == [status : Statuses, maxTeamSize : Sizes, voting : BOOLEAN]

ASSUME SavesAssumption == Saves \subseteq Event

VARIABLES
  event,       \* its row: the status, the largest team size, whether there is community voting
  registered,  \* the people registered for it
  team,        \* the leader that the row of each team names
  members,     \* the rows of the membership table
  entry,       \* each team's submission
  votes,       \* community votes, each a voter and a team
  call,        \* the server actions at work
  allowed,     \* history: the largest of the largest team sizes that the event has had
  moves, made, \* how often the organiser saved the event, how many calls were made
  upset        \* history: teams that calls overlapped on, or that one died on, or whose leader
               \* handed the team to themself

tables == <<event, registered, team, members, entry, votes>>
vars == <<tables, call, allowed, moves, made, upset>>

-----------------------------------------------------------------------------
(* Rows, and what a call remembers of them. *)

Roles == {"leader", "member"}
Membership == [who : Persons, team : Teams, role : Roles]

\* A draft is complete when it has a title and a repository.
Contents == {"nothing", "partial", "complete"}
Entry == [status : {"none", "draft", "submitted"}, content : Contents]
NoEntry == [status |-> "none", content |-> "nothing"]

Exists(t) == team[t] \in Persons

MembersOf(t) == { m \in members : m.team = t }
RowsOf(p) == { m \in members : m.who = p }
OnTeam(p, t) == \E m \in members : m.who = p /\ m.team = t
Leads(p, t) == \E m \in members : m.who = p /\ m.team = t /\ m.role = "leader"

\* The id of a row. A row that is deleted and made again is another row.
MemberId(p) == <<"member", p>>
EntryId(t) == <<"entry", t>>
VoteId(p, t) == <<"vote", p, t>>

Ids == { MemberId(p) : p \in Persons } \cup { EntryId(t) : t \in Teams }
         \cup { VoteId(v[1], v[2]) : v \in Persons \X Teams }

Steps == { "idle", "insert team", "insert leader", "insert member", "drop entry", "drop members",
           "drop team", "promote", "demote", "rename", "leave", "disband", "insert draft", "update draft",
           "submit", "cast", "withdraw" }

\* A call of who about a team; other is the new leader, rows the ids of the rows that it has read and
\* that are still there, and content what it saves.
Call == [ at : Steps, who : Persons \cup {None}, team : Teams \cup {None},
          other : Persons \cup {None}, rows : SUBSET Ids, content : Contents ]

At(at, who, t, other, rows, content) ==
  [at |-> at, who |-> who, team |-> t, other |-> other, rows |-> rows, content |-> content]

Idle == At("idle", None, None, None, {}, "nothing")

TypeOK ==
  /\ event \in Event
  /\ registered \subseteq Persons
  /\ team \in [Teams -> Persons \cup {"unborn", "gone"}]
  /\ members \subseteq Membership
  /\ entry \in [Teams -> Entry]
  /\ votes \subseteq Persons \X Teams
  /\ call \in [Calls -> Call]
  /\ \A c \in Calls : call[c].at # "idle" => call[c].who \in Persons /\ call[c].team \in Teams
  /\ allowed \in Sizes /\ event.maxTeamSize <= allowed
  /\ moves \in 0 .. MaxMoves /\ made \in 0 .. MaxCalls
  /\ upset \subseteq Teams

Init ==
  /\ event \in {e \in Saves : e.status = "open"}
  /\ allowed = event.maxTeamSize
  /\ registered = {}
  /\ team = [t \in Teams |-> "unborn"]
  /\ members = {}
  /\ entry = [t \in Teams |-> NoEntry]
  /\ votes = {}
  /\ call = [c \in Calls |-> Idle]
  /\ moves = 0 /\ made = 0
  /\ upset = {}

-----------------------------------------------------------------------------
(* The organiser, and registration. *)

\* upsertHackathonEvent: any status, any team size and voting or none, whatever they were and
\* whatever teams there are.
SaveEvent(e) ==
  /\ moves < MaxMoves
  /\ event # e
  /\ event' = e
  /\ allowed' = IF e.maxTeamSize > allowed THEN e.maxTeamSize ELSE allowed
  /\ moves' = moves + 1
  /\ UNCHANGED <<registered, team, members, entry, votes, call, made, upset>>

\* registerForHackathon
Register(p) ==
  /\ event.status = "open"
  /\ p \notin registered
  /\ registered' = registered \cup {p}
  /\ UNCHANGED <<event, team, members, entry, votes, call, allowed, moves, made, upset>>

-----------------------------------------------------------------------------
(* What a call reads. *)

\* The call c, of p about t, starts with what it has read.
Begin(c, at, p, t, other, rows, content) ==
  /\ call[c].at = "idle"
  /\ made < MaxCalls
  /\ made' = made + 1
  /\ call' = [call EXCEPT ![c] = At(at, p, t, other, rows, content)]
  /\ LET others == { d \in Calls : call[d].at # "idle" /\ (call[d].team = t \/ call[d].who = p) }
     IN  upset' = upset \cup { call[d].team : d \in others } \cup (IF others = {} THEN {} ELSE {t})
                        \cup (IF other = p THEN {t} ELSE {})
  /\ UNCHANGED <<tables, allowed, moves>>

\* createTeam
BeginCreate(c, p, t) ==
  /\ p \in registered
  /\ RowsOf(p) = {}
  /\ team[t] = "unborn" /\ \A d \in Calls : call[d].at = "insert team" => call[d].team # t
  /\ Begin(c, "insert team", p, t, None, {}, "nothing")

\* Fault: the limit is one too high.
HasRoom_OffByOne(t) == Cardinality(MembersOf(t)) <= event.maxTeamSize

HasRoom(t) == Cardinality(MembersOf(t)) < event.maxTeamSize

\* joinTeamByCode, with the code of t. The status of the event is not asked.
BeginJoin(c, p, t) ==
  /\ Exists(t)
  /\ HasRoom(t)
  /\ p \in registered
  /\ RowsOf(p) = {}
  /\ Begin(c, "insert member", p, t, None, {}, "nothing")

MayDisband(p, t) == Leads(p, t) /\ entry[t].status # "submitted"

\* The row of the entry of t, if there is one.
EntryRow(t) == IF entry[t].status = "none" THEN {} ELSE {EntryId(t)}

\* disbandTeam
BeginDisband(c, p, t) ==
  /\ MayDisband(p, t)
  /\ Begin(c, "drop entry", p, t, None, EntryRow(t), "nothing")

\* transferLeadership, to q, who may be p
BeginTransfer(c, p, q, t) ==
  /\ Leads(p, t)
  /\ OnTeam(q, t)
  /\ Begin(c, "promote", p, t, q, {MemberId(p), MemberId(q)}, "nothing")

\* leaveTeam: a leader alone disbands the team, and no other leader leaves.
BeginLeave(c, p, t) ==
  /\ OnTeam(p, t)
  /\ Leads(p, t) => \A m \in MembersOf(t) : m.who = p
  /\ Begin(c, IF Leads(p, t) THEN "disband" ELSE "leave", p, t, None, {}, "nothing")

\* saveSubmissionDraft
BeginSave(c, p, t, content) ==
  /\ OnTeam(p, t)
  /\ entry[t].status # "submitted"
  /\ event.status \in {"open", "building"}
  /\ Begin(c, IF EntryRow(t) = {} THEN "insert draft" ELSE "update draft", p, t, None, EntryRow(t), content)

\* submitProject
BeginSubmit(c, p, t) ==
  /\ event.status = "building"
  /\ OnTeam(p, t)
  /\ entry[t] = [status |-> "draft", content |-> "complete"]
  /\ Begin(c, "submit", p, t, None, {EntryId(t)}, "nothing")

VotingIsOpen == event.voting /\ event.status \in {"judging", "completed"}

\* Fault: drafts can be voted for.
MayVote_ForDrafts(p, t) == entry[t].status # "none" /\ VotingIsOpen /\ ~ OnTeam(p, t)

MayVote(p, t) == entry[t].status = "submitted" /\ VotingIsOpen /\ ~ OnTeam(p, t)

\* toggleCommunityVote
BeginVote(c, p, t) ==
  /\ MayVote(p, t)
  /\ IF <<p, t>> \in votes THEN Begin(c, "withdraw", p, t, None, {VoteId(p, t)}, "nothing")
                             ELSE Begin(c, "cast", p, t, None, {EntryId(t)}, "nothing")

-----------------------------------------------------------------------------
(* What a call writes. *)

\* The calls after c has gone on to at, without the rows that are deleted.
Goes(c, at, deleted) ==
  call' = [d \in Calls |->
             IF d = c /\ at = "idle" THEN Idle
             ELSE At(IF d = c THEN at ELSE call[d].at, call[d].who, call[d].team, call[d].other,
                     call[d].rows \ deleted, call[d].content)]

VotesFor(t) == { v \in votes : v[2] = t }
VoteIds(t) == { VoteId(v[1], v[2]) : v \in VotesFor(t) }

InsertTeam(c) ==
  /\ call[c].at = "insert team"
  /\ team' = [team EXCEPT ![call[c].team] = call[c].who]
  /\ Goes(c, "insert leader", {})
  /\ UNCHANGED <<event, registered, members, entry, votes, allowed, moves, made, upset>>

\* hackathon_team_members_user_hackathon_idx
UniqueMember(p) == RowsOf(p) = {}

\* The membership is inserted, unless the index or the foreign key refuses it.
InsertMember(c) ==
  /\ call[c].at \in {"insert leader", "insert member"}
  /\ members' =
       IF UniqueMember(call[c].who) /\ Exists(call[c].team)
         THEN members \cup {[who |-> call[c].who, team |-> call[c].team,
                             role |-> IF call[c].at = "insert leader" THEN "leader" ELSE "member"]}
         ELSE members
  /\ Goes(c, "idle", {})
  /\ UNCHANGED <<event, registered, team, entry, votes, allowed, moves, made, upset>>

\* Fault: disbandTeam goes on when it finds no membership to disband for.
Reread_Unguarded(c) ==
  /\ call[c].at = "disband"
  /\ LET p == call[c].who
         t == IF RowsOf(p) = {} THEN None ELSE (CHOOSE m \in RowsOf(p) : TRUE).team
     IN  call' = [call EXCEPT ![c] = At("drop entry", p, t, None, {}, "nothing")]
  /\ UNCHANGED <<tables, allowed, moves, made, upset>>

\* A leader who leaves alone: disbandTeam reads again.
Reread(c) ==
  /\ call[c].at = "disband"
  /\ LET p == call[c].who IN
     \/ \E t \in Teams :
          /\ MayDisband(p, t)
          /\ call' = [call EXCEPT ![c] = At("drop entry", p, t, None, EntryRow(t), "nothing")]
          /\ upset' = IF \E d \in Calls \ {c} : call[d].team = t THEN upset \cup {t} ELSE upset
     \/ (\A t \in Teams : ~ MayDisband(p, t)) /\ Goes(c, "idle", {}) /\ UNCHANGED upset
  /\ UNCHANGED <<tables, allowed, moves, made>>

\* The entry goes if it is the one that was read, and its votes with it.
DropEntry(c) ==
  LET t == call[c].team IN
  /\ call[c].at = "drop entry"
  /\ IF EntryId(t) \in call[c].rows
       THEN /\ entry' = [entry EXCEPT ![t] = NoEntry]
            /\ votes' = votes \ VotesFor(t)
            /\ Goes(c, "drop members", {EntryId(t)} \cup VoteIds(t))
       ELSE UNCHANGED <<entry, votes>> /\ Goes(c, "drop members", {})
  /\ UNCHANGED <<event, registered, team, members, allowed, moves, made, upset>>

DropMembers(c) ==
  LET t == call[c].team IN
  /\ call[c].at = "drop members"
  /\ members' = members \ MembersOf(t)
  /\ Goes(c, "drop team", { MemberId(m.who) : m \in MembersOf(t) })
  /\ UNCHANGED <<event, registered, team, entry, votes, allowed, moves, made, upset>>

\* Fault: the row of a team goes, and what hangs on it stays.
DropTeam_NoCascade(c) ==
  LET t == call[c].team IN
  /\ call[c].at = "drop team"
  /\ team' = [team EXCEPT ![t] = "gone"]
  /\ Goes(c, "idle", {})
  /\ UNCHANGED <<event, registered, members, entry, votes, allowed, moves, made, upset>>

\* The row of the team goes, with everything that has come to hang on it meanwhile.
DropTeam(c) ==
  LET t == call[c].team IN
  /\ call[c].at = "drop team"
  /\ team' = [team EXCEPT ![t] = "gone"]
  /\ members' = members \ MembersOf(t)
  /\ entry' = [entry EXCEPT ![t] = NoEntry]
  /\ votes' = votes \ VotesFor(t)
  /\ Goes(c, "idle", { MemberId(m.who) : m \in MembersOf(t) } \cup {EntryId(t)} \cup VoteIds(t))
  /\ UNCHANGED <<event, registered, allowed, moves, made, upset>>

\* The membership row of p, if it is the one that the call has read, gets a role.
GiveRole(c, p, role) ==
  members' = { IF m.who = p /\ MemberId(p) \in call[c].rows
                 THEN [who |-> m.who, team |-> m.team, role |-> role] ELSE m : m \in members }

Promote(c) ==
  /\ call[c].at = "promote"
  /\ GiveRole(c, call[c].other, "leader")
  /\ Goes(c, "demote", {})
  /\ UNCHANGED <<event, registered, team, entry, votes, allowed, moves, made, upset>>

\* Fault: the leader who hands over stays one.
Demote_Forgotten(c) ==
  /\ call[c].at = "demote"
  /\ Goes(c, "rename", {})
  /\ UNCHANGED <<tables, allowed, moves, made, upset>>

Demote(c) ==
  /\ call[c].at = "demote"
  /\ GiveRole(c, call[c].who, "member")
  /\ Goes(c, "rename", {})
  /\ UNCHANGED <<event, registered, team, entry, votes, allowed, moves, made, upset>>

Rename(c) ==
  LET t == call[c].team IN
  /\ call[c].at = "rename"
  /\ team' = IF Exists(t) THEN [team EXCEPT ![t] = call[c].other] ELSE team
  /\ Goes(c, "idle", {})
  /\ UNCHANGED <<event, registered, members, entry, votes, allowed, moves, made, upset>>

\* The membership that p has by now, on whatever team.
DeleteMine(c) ==
  LET p == call[c].who IN
  /\ call[c].at = "leave"
  /\ members' = members \ RowsOf(p)
  /\ Goes(c, "idle", {MemberId(p)})
  /\ UNCHANGED <<event, registered, team, entry, votes, allowed, moves, made, upset>>

\* The index of the table or its foreign key may refuse a second draft, or one of a team that is gone.
InsertDraft(c) ==
  LET t == call[c].team IN
  /\ call[c].at = "insert draft"
  /\ entry' = IF Exists(t) /\ entry[t].status = "none"
                THEN [entry EXCEPT ![t] = [status |-> "draft", content |-> call[c].content]]
                ELSE entry
  /\ Goes(c, "idle", {})
  /\ UNCHANGED <<event, registered, team, members, votes, allowed, moves, made, upset>>

\* Fault: a save makes the entry a draft again.
UpdateDraft_Reopens(c) ==
  LET t == call[c].team IN
  /\ call[c].at = "update draft"
  /\ entry' = IF EntryId(t) \in call[c].rows
                THEN [entry EXCEPT ![t] = [status |-> "draft", content |-> call[c].content]]
                ELSE entry
  /\ Goes(c, "idle", {})
  /\ UNCHANGED <<event, registered, team, members, votes, allowed, moves, made, upset>>

\* The status is not asked again, and is kept.
UpdateDraft(c) ==
  LET t == call[c].team IN
  /\ call[c].at = "update draft"
  /\ entry' = IF EntryId(t) \in call[c].rows
                THEN [entry EXCEPT ![t] = [status |-> entry[t].status, content |-> call[c].content]]
                ELSE entry
  /\ Goes(c, "idle", {})
  /\ UNCHANGED <<event, registered, team, members, votes, allowed, moves, made, upset>>

Submit(c) ==
  LET t == call[c].team IN
  /\ call[c].at = "submit"
  /\ entry' = IF EntryId(t) \in call[c].rows
                THEN [entry EXCEPT ![t] = [status |-> "submitted", content |-> entry[t].content]]
                ELSE entry
  /\ Goes(c, "idle", {})
  /\ UNCHANGED <<event, registered, team, members, votes, allowed, moves, made, upset>>

\* The vote is cast, if the entry is still there; casting it twice leaves one.
Cast(c) ==
  LET p == call[c].who
      t == call[c].team IN
  /\ call[c].at = "cast"
  /\ votes' = IF EntryId(t) \in call[c].rows THEN votes \cup {<<p, t>>} ELSE votes
  /\ Goes(c, "idle", {})
  /\ UNCHANGED <<event, registered, team, members, entry, allowed, moves, made, upset>>

\* The vote that was read is deleted.
Withdraw(c) ==
  LET p == call[c].who
      t == call[c].team IN
  /\ call[c].at = "withdraw"
  /\ votes' = IF VoteId(p, t) \in call[c].rows THEN votes \ {<<p, t>>} ELSE votes
  /\ Goes(c, "idle", {VoteId(p, t)})
  /\ UNCHANGED <<event, registered, team, members, entry, allowed, moves, made, upset>>

\* The server stops, or the connection to the database breaks, between two statements.
Die(c) ==
  /\ call[c].at # "idle"
  /\ upset' = upset \cup {call[c].team}
  /\ call' = [call EXCEPT ![c] = Idle]
  /\ UNCHANGED <<tables, allowed, moves, made>>

-----------------------------------------------------------------------------
(* The specification. *)

Starts(c) ==
  \E p \in Persons, t \in Teams :
    \/ BeginCreate(c, p, t)
    \/ BeginJoin(c, p, t)
    \/ BeginDisband(c, p, t)
    \/ \E q \in Persons : BeginTransfer(c, p, q, t)
    \/ BeginLeave(c, p, t)
    \/ \E content \in {"partial", "complete"} : BeginSave(c, p, t, content)
    \/ BeginSubmit(c, p, t)
    \/ BeginVote(c, p, t)

Writes(c) ==
  \/ InsertTeam(c) \/ InsertMember(c)
  \/ Reread(c) \/ DropEntry(c) \/ DropMembers(c) \/ DropTeam(c)
  \/ Promote(c) \/ Demote(c) \/ Rename(c)
  \/ DeleteMine(c)
  \/ InsertDraft(c) \/ UpdateDraft(c) \/ Submit(c)
  \/ Cast(c) \/ Withdraw(c)

Next ==
  \/ \E e \in Saves : SaveEvent(e)
  \/ \E p \in Persons : Register(p)
  \/ \E c \in Calls : Starts(c) \/ Writes(c) \/ Die(c)

Spec == Init /\ [][Next]_vars

-----------------------------------------------------------------------------
(* Properties. *)

\* A person has at most one membership, of a team that is there, and is registered: two tabs that create
\* and join at once, or a join while the team is being disbanded, leave no other row behind
\* (hackathons.ts:234 of the schema, "can't be on two teams").
OneLiveTeam ==
  \A m \in members :
    /\ RowsOf(m.who) = {m}
    /\ Exists(m.team)
    /\ m.who \in registered

\* A team that no two calls met on and no call died on has exactly one leader, the one its row names, in
\* between calls: creating, handing over and leaving write two or three tables, one after the other.
LeaderOfTeam ==
  \A t \in Teams :
    Exists(t) /\ t \notin upset /\ (\A c \in Calls : call[c].team # t) =>
      { m.who : m \in { n \in MembersOf(t) : n.role = "leader" } } = {team[t]}

\* A team on which no calls met never has more members than the event has ever allowed, though the
\* organiser may lower the limit below the teams there are; and where calls met, each but one of those
\* at work at once has added one at most: joinTeamByCode counts without a lock.
TeamSize ==
  \A t \in Teams :
    Cardinality(MembersOf(t)) <= allowed + (IF t \in upset THEN Cardinality(Calls) - 1 ELSE 0)

\* A submitted entry is never a draft again; and as long as calls of the team do not overlap, it stays
\* just as it is, whatever its members or the organiser do.
SubmittedKept ==
  [][ \A t \in Teams : entry[t].status = "submitted" =>
        /\ entry'[t].status # "draft"
        /\ t \notin upset' => entry'[t] = entry[t] ]_vars

\* Every vote is for an entry that is submitted, though between the reading and the casting of it the
\* entry may have been deleted and a draft made in its place.
VotesAreForSubmitted == \A v \in votes : entry[v[2]].status = "submitted"

=============================================================================

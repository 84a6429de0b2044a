---------------------------- MODULE GrafanaTeams ----------------------------
(***************************************************************************)
(* MON Dashboarder, second part: the users of OSM and the teams of its     *)
(* projects in Grafana (_user_msg of osm_mon/dashboarder/dashboarder.py,   *)
(* the methods of osm_mon/dashboarder/service.py it calls, and the         *)
(* requests of osm_mon/dashboarder/backends/grafana.py they make).         *)
(*                                                                         *)
(* The consumer follows two topics, "users" and "project".  Each is in     *)
(* order, the two together are not.  It learns from an event what changed, *)
(* and from the database or keystone what holds now.  In the other thread  *)
(* of the process the loop deletes the users keystone does not list.       *)
(***************************************************************************)
EXTENDS Naturals, Sequences

CONSTANTS
  User, Project,  \* all that will ever exist
  Name,           \* the names of projects, which are those of their teams
  InitialNames,   \* the names the projects may have at the start, "absent" if none
  MaxEvents,      \* bound: changes of users and projects
  MaxFaults       \* bound: how many faults strike

NoName == {"absent", "gone"}

ASSUME NameAssumption == Name \subseteq STRING \ (NoName \cup {"none"})
ASSUME InitialNamesAssumption ==
  /\ InitialNames \subseteq [Project -> Name \cup {"absent"}]
  /\ \A f \in InitialNames : \A p, q \in Project : f[p] = f[q] /\ f[p] \in Name => p = q
ASSUME BoundsAssumption == MaxEvents \in Nat /\ MaxFaults \in Nat

VARIABLES
  keystone,    \* whether users and projects are kept in keystone
  user,        \* the users in OSM
  project,     \* the projects in OSM, by name
  mapping,     \* the projects of each user, of which project_role_mappings tells
  topic,       \* the events of each topic
  handled,     \* how many of them were handled
  committed,   \* how many of them were committed for sure
  sent,        \* how many events there were
  users,       \* the users in Grafana
  teams,       \* the teams in Grafana
  members,     \* the members of each team
  pc,          \* where _user_msg is
  projList,    \* proj_list
  todo,        \* the mappings it has still to make
  teamName,    \* project_name
  teamList,    \* team_list
  cleanup,     \* where the loop is
  listed,      \* the users keystone listed, then the users to be deleted
  lost,        \* history: users an event of which was cut short, and why
  changed,     \* history: names that a project gave up or took from another
  newcomers,   \* history: users created since keystone was listed
  faults       \* history: how many faults struck

osm == <<user, project, mapping, sent, changed, newcomers>>
grafana == <<users, teams, members>>
bus == <<topic, handled, committed>>
handler == <<pc, projList, todo, teamName, teamList>>
loop == <<cleanup, listed>>
vars == <<keystone, osm, grafana, bus, handler, loop, lost, faults>>

Topic == {"users", "project"}
Lifetime == {"absent", "present", "gone"}
Present == {u \in User : user[u] = "present"}
Existing == {p \in Project : project[p] \in Name}

NamesOf(S) == {project[p] : p \in S}

\* An event about a user: the projects it maps or removes, with their names when
\* it was sent, whether it tells them by name or by id, and the form it has: "cli"
\* with a list of projects, "ui" with the user's id, "name" with its name only.
Mapped == [Project -> Name \cup {"none"}]
Form == {"cli", "ui", "name"}
UserEvent == [key : {"created", "edited", "removed", "deleted"}, user : User,
              names : Mapped, byName : BOOLEAN, form : Form]
TeamEvent == [key : {"created", "edited", "deleted"}, old : Name, new : Name]

Projects(e) == {p \in Project : e.names[p] # "none"}

TypeOK ==
  /\ keystone \in BOOLEAN
  /\ user \in [User -> Lifetime]
  /\ project \in [Project -> Name \cup NoName]
  /\ mapping \in [User -> SUBSET Project]
  /\ topic["users"] \in Seq(UserEvent) /\ topic["project"] \in Seq(TeamEvent)
  /\ handled \in [Topic -> Nat] /\ committed \in [Topic -> Nat]
  /\ sent \in Nat
  /\ users \subseteq User
  /\ teams \subseteq Name
  /\ members \in [Name -> SUBSET User]
  /\ pc \in {"idle", "resolve", "look_up", "join"}
  /\ projList \subseteq Name
  /\ todo \subseteq Project
  /\ teamName \in Name \cup {"none"}
  /\ teamList \subseteq Name
  /\ cleanup \in {"list_users", "list_grafana", "delete"}
  /\ listed \subseteq User
  /\ lost \in [User -> {"no", "raised", "teamless", "cleaned"}]
  /\ changed \subseteq Name
  /\ newcomers \subseteq User
  /\ faults \in Nat

\* The project admin has no team: no event announces it.
Init ==
  /\ keystone \in BOOLEAN
  /\ user = [u \in User |-> "absent"]
  /\ project \in InitialNames
  /\ mapping = [u \in User |-> {}]
  /\ topic = [t \in Topic |-> <<>>]
  /\ handled = [t \in Topic |-> 0] /\ committed = [t \in Topic |-> 0]
  /\ sent = 0
  /\ users = {}
  /\ teams = NamesOf(Project) \ {"absent", "admin"}
  /\ members = [n \in Name |-> {}]
  /\ pc = "idle"
  /\ projList = {} /\ todo = {} /\ teamName = "none" /\ teamList = {}
  /\ cleanup = "list_users"
  /\ listed = {}
  /\ lost = [u \in User |-> "no"]
  /\ changed = {}
  /\ newcomers = {}
  /\ faults = 0

Strike == faults < MaxFaults /\ faults' = faults + 1

-----------------------------------------------------------------------------
(* OSM.  A project in use is not deleted, and names are unique.            *)

Send(t, e) ==
  /\ sent < MaxEvents
  /\ sent' = sent + 1
  /\ topic' = [topic EXCEPT ![t] = Append(@, e)]
  /\ UNCHANGED <<keystone, handled, committed, grafana, handler, loop, lost, faults>>

NamedNow(S) == [p \in Project |-> IF p \in S THEN project[p] ELSE "none"]

\* The forms the comments of _user_msg tell of: "name" is keystone's.
SendUser(u, key, S) ==
  \E byName \in BOOLEAN, form \in {"ui"} \cup (IF key # "created" \/ S = {} THEN {}
                                               ELSE IF keystone THEN {"name"} ELSE {"cli"}) :
    /\ form = "cli" => ~byName
    /\ Send("users", [key |-> key, user |-> u, names |-> NamedNow(S),
                      byName |-> byName \/ S = {} \/ key = "removed", form |-> form])

CreateUser(u, S) ==
  /\ user[u] = "absent"
  /\ S \subseteq Existing
  /\ user' = [user EXCEPT ![u] = "present"]
  /\ mapping' = [mapping EXCEPT ![u] = S]
  /\ newcomers' = newcomers \cup {u}
  /\ SendUser(u, "created", S)
  /\ UNCHANGED <<project, changed>>

\* What is only removed is told as such.
EditUser(u, added, removed) ==
  /\ u \in Present
  /\ added \subseteq Existing \ mapping[u]
  /\ removed \subseteq mapping[u]
  /\ mapping' = [mapping EXCEPT ![u] = (@ \cup added) \ removed]
  /\ \/ added # {} /\ SendUser(u, "edited", added)
     \/ added = {} /\ removed # {} /\ SendUser(u, "removed", removed)
  /\ UNCHANGED <<user, project, changed, newcomers>>

DeleteUser(u) ==
  /\ u \in Present
  /\ user' = [user EXCEPT ![u] = "gone"]
  /\ mapping' = [mapping EXCEPT ![u] = {}]
  /\ SendUser(u, "deleted", {})
  /\ UNCHANGED <<project, changed, newcomers>>

CreateProject(p, n) ==
  /\ project[p] = "absent"
  /\ n \notin NamesOf(Existing) \cup {"admin"}
  /\ project' = [project EXCEPT ![p] = n]
  /\ Send("project", [key |-> "created", old |-> n, new |-> n])
  /\ UNCHANGED <<user, mapping, changed, newcomers>>

RenameProject(p, n) ==
  /\ p \in Existing /\ project[p] # "admin"
  /\ n \notin NamesOf(Existing) \cup {"admin"}
  /\ project' = [project EXCEPT ![p] = n]
  /\ changed' = changed \cup {project[p], n}
  /\ Send("project", [key |-> "edited", old |-> project[p], new |-> n])
  /\ UNCHANGED <<user, mapping, newcomers>>

DeleteProject(p) ==
  /\ p \in Existing /\ project[p] # "admin"
  /\ \A u \in User : p \notin mapping[u]
  /\ project' = [project EXCEPT ![p] = "gone"]
  /\ changed' = changed \cup {project[p]}
  /\ Send("project", [key |-> "deleted", old |-> project[p], new |-> project[p]])
  /\ UNCHANGED <<user, mapping, newcomers>>

-----------------------------------------------------------------------------
(* The consumer.  An operator marked "Mutant" is used by no behaviour.     *)

Unhandled(t) == handled[t] < Len(topic[t])

\* The event about a user that is read, or being handled.
Event == topic["users"][handled["users"] + 1]
Reads(key) == pc = "idle" /\ Unhandled("users") /\ Event.key = key

\* _user_msg returns: the next event is read.
Return(t) ==
  /\ handled' = [handled EXCEPT ![t] = @ + 1]
  /\ pc' = "idle"
  /\ projList' = {} /\ todo' = {} /\ teamName' = "none" /\ teamList' = {}
  /\ UNCHANGED <<topic, committed>>

\* An exception ends in the except of _user_msg, and the rest of the event is lost.
Raise(why) ==
  /\ Return("users")
  /\ lost' = [lost EXCEPT ![Event.user] = why]

Finish == Return("users") /\ UNCHANGED lost

\* Grafana refuses a second team with a name, and tells nobody who does not ask.
Renamed(old, new) ==
  [n \in Name |-> IF n = new THEN members[old] ELSE IF n = old THEN {} ELSE members[n]]

CreateTeam(n) == teams' = teams \cup {n} /\ UNCHANGED members

\* Grafana drops the members with the team.
DeleteTeam(n) == teams' = teams \ {n} /\ members' = [members EXCEPT ![n] = {}]

RenameTeam(old, new) ==
  IF old \in teams /\ new \notin teams
    THEN teams' = (teams \ {old}) \cup {new} /\ members' = Renamed(old, new)
    ELSE UNCHANGED <<teams, members>>

\* What deletes or renames a team raises when it is not found.
HandleTeam ==
  /\ pc = "idle"
  /\ Unhandled("project")
  /\ LET e == topic["project"][handled["project"] + 1] IN
       \/ e.key = "created" /\ CreateTeam(e.new) /\ UNCHANGED faults
       \/ e.key = "deleted" /\ DeleteTeam(e.old) /\ UNCHANGED faults
       \/ e.key = "edited" /\ RenameTeam(e.old, e.new) /\ UNCHANGED faults
       \/ Strike /\ UNCHANGED <<teams, members>>
  /\ Return("project")
  /\ UNCHANGED <<keystone, osm, users, loop, lost>>

\* create_grafana_users raises when Grafana has the user: its answer has no id.
CreateGrafanaUser ==
  /\ Reads("created")
  /\ \/ /\ Event.user \notin users
        /\ users' = users \cup {Event.user}
        /\ IF Projects(Event) = {}
             THEN Finish
             ELSE /\ pc' = "resolve"
                  /\ UNCHANGED <<bus, projList, todo, teamName, teamList, lost>>
        /\ UNCHANGED faults
     \/ Event.user \in users /\ Raise("raised") /\ UNCHANGED <<users, faults>>
     \/ Strike /\ users' \in {users, users \cup {Event.user}} /\ Raise("raised")
  /\ UNCHANGED <<keystone, osm, teams, members, loop>>

\* Mutant: the projects of the event count as those of the user.
ResolveFromEvent ==
  /\ pc = "resolve" \/ Reads("edited")
  /\ projList' = {Event.names[p] : p \in Projects(Event)}
  /\ todo' = Projects(Event)
  /\ pc' = "look_up"
  /\ UNCHANGED <<keystone, osm, bus, grafana, teamName, teamList, loop, lost, faults>>

\* get_user_by_id, in the database or in keystone, where it has to be.
UserFound == Event.user \in Present

\* The projects of the user, unless the event lists them.  Without an id keystone
\* lists all there are.
ProjListNow ==
  CASE Event.form = "cli" -> {Event.names[p] : p \in Projects(Event)}
    [] Event.form = "name" -> NamesOf(Existing)
    [] OTHER -> NamesOf(mapping[Event.user])

Resolve ==
  /\ pc = "resolve" \/ Reads("edited")
  /\ \/ /\ UserFound \/ Event.form = "name"
        /\ projList' = ProjListNow
        /\ todo' = Projects(Event)
        /\ pc' = "look_up"
        /\ UNCHANGED <<bus, teamName, teamList, lost, faults>>
     \/ /\ ~UserFound /\ Event.form # "name"
        /\ Raise("raised")
        /\ UNCHANGED faults
     \/ Strike /\ Raise("raised")
  /\ UNCHANGED <<keystone, osm, grafana, loop>>

\* Mutant: a project that is looked up is taken for one that exists.
TeamsForUnchecked(p) == {IF Event.byName THEN Event.names[p] ELSE project[p]}

\* Mutant: the team has to be there.
TeamsForKnown(p) == TeamsForUnchecked(p) \cap teams

\* The team of a mapping.  A name is taken as it comes, but looked up in keystone.
TeamsFor(p) ==
  IF Event.byName
    THEN {Event.names[p]} \cap (IF keystone THEN NamesOf(Existing) ELSE Name)
    ELSE {project[p]} \cap Name

Without(u, S) == [n \in Name |-> IF n \in S THEN members[n] \ {u} ELSE members[n]]
TeamsOf(u) == {n \in Name : u \in members[n]}

\* The first half of create_grafana_teams_members: the user is created if need be,
\* and leaves the teams of projects that are not in proj_list.
LookUp(p) ==
  /\ pc = "look_up"
  /\ p \in todo
  /\ \/ /\ teamName' \in TeamsFor(p)
        /\ users' = users \cup {Event.user}
        /\ teamList' = TeamsOf(Event.user)
        /\ members' = Without(Event.user, teamList' \ projList)
        /\ todo' = todo \ {p}
        /\ pc' = "join"
        /\ UNCHANGED <<bus, projList, lost, faults>>
     \/ TeamsFor(p) = {} /\ Raise("raised") /\ UNCHANGED <<users, members, faults>>
     \/ /\ Strike
        /\ users' \in {users, users \cup {Event.user}}
        /\ \E S \in SUBSET (TeamsOf(Event.user) \ projList) :
             members' = Without(Event.user, S)
        /\ Raise("raised")
  /\ UNCHANGED <<keystone, osm, teams, loop>>

\* The second half.  A user whom the loop has deleted meanwhile is not added.
Joined ==
  IF teamName = "admin" \/ teamName \in teamList \/ Event.user \notin users
    THEN members
    ELSE [members EXCEPT ![teamName] = @ \cup {Event.user}]

Join ==
  /\ pc = "join"
  /\ \/ /\ teams' = teams \cup ({teamName} \ {"admin"})
        /\ members' = Joined
        /\ IF todo = {}
             THEN Finish
             ELSE /\ pc' = "look_up" /\ teamName' = "none" /\ teamList' = {}
                  /\ UNCHANGED <<bus, projList, todo, lost>>
        /\ UNCHANGED faults
     \/ /\ Strike
        /\ \/ UNCHANGED <<teams, members>>
           \/ /\ teams' = teams \cup ({teamName} \ {"admin"})
              /\ members' \in {members, Joined}
        /\ Raise("raised")
  /\ UNCHANGED <<keystone, osm, users, loop>>

\* remove_grafana_team_member goes over the mappings till one has no team, and what
\* comes after it stays.
RemoveMembers ==
  /\ Reads("removed")
  /\ LET found == UserFound /\ Event.user \in users
         named == {Event.names[p] : p \in Projects(Event)}
         left(S) == members' = Without(Event.user, S) IN
       \/ /\ found
          /\ named \subseteq teams
          /\ left(named)
          /\ Finish
          /\ UNCHANGED faults
       \/ /\ found
          /\ \E n \in named \ teams :
               /\ \E S \in SUBSET (named \cap teams) : left(S)
               /\ IF named = {n} THEN Finish ELSE Raise("teamless")
          /\ UNCHANGED faults
       \/ ~found /\ Raise("raised") /\ UNCHANGED <<members, faults>>
       \/ Strike /\ (\E S \in SUBSET (named \cap teams) : left(S)) /\ Raise("raised")
  /\ UNCHANGED <<keystone, osm, users, teams, loop>>

\* Grafana drops a deleted user from its teams.
Removed(u) ==
  /\ users' = users \ {u}
  /\ members' = Without(u, Name)

\* delete_grafana_users raises when there is nothing to delete.
DeleteGrafanaUser ==
  /\ Reads("deleted")
  /\ \/ Removed(Event.user) /\ Finish /\ UNCHANGED faults
     \/ Strike /\ Raise("raised") /\ UNCHANGED <<users, members>>
  /\ UNCHANGED <<keystone, osm, teams, loop>>

\* Offsets are committed in the background, while no event is handled: a consumer
\* that starts again reads some of what was handled once more.
Redeliver ==
  \E start \in [Topic -> 0..MaxEvents] :
    /\ \A t \in Topic : start[t] \in committed[t]..handled[t]
    /\ handled' = start
    /\ committed' = start

\* start subscribes again.
LoseSubscription ==
  /\ pc = "idle"
  /\ Strike
  /\ Redeliver
  /\ UNCHANGED <<keystone, osm, topic, grafana, handler, loop, lost>>

-----------------------------------------------------------------------------
(* The loop: delete_non_existing_users                                     *)

\* Mutant: the users are listed project by project.
ListUsersOfProjects ==
  /\ cleanup = "list_users"
  /\ keystone
  /\ listed' = {u \in Present : mapping[u] # {}}
  /\ cleanup' = "list_grafana"
  /\ newcomers' = {}
  /\ UNCHANGED <<keystone, user, project, mapping, sent, changed, bus, grafana, handler, lost, faults>>

\* getUsers goes over the domains of keystone.
ListUsers ==
  /\ cleanup = "list_users"
  /\ keystone
  /\ listed' = Present
  /\ cleanup' = "list_grafana"
  /\ newcomers' = {}
  /\ UNCHANGED <<keystone, user, project, mapping, sent, changed, bus, grafana, handler, lost, faults>>

\* Mutant: nobody is left over.
ListNobody ==
  /\ cleanup = "list_grafana"
  /\ listed' = {}
  /\ cleanup' = "delete"
  /\ UNCHANGED <<keystone, osm, bus, grafana, handler, lost, faults>>

ListGrafanaUsers ==
  /\ cleanup = "list_grafana"
  /\ listed' = users \ listed
  /\ cleanup' = "delete"
  /\ UNCHANGED <<keystone, osm, bus, grafana, handler, lost, faults>>

\* The pass is over, or given up: whatever is raised leaves it.
LeaveCleanup == cleanup' = "list_users" /\ listed' = {}

\* A user that is gone already makes delete_grafana_users raise.
DeleteObsolete(u) ==
  /\ cleanup = "delete"
  /\ u \in listed
  /\ Removed(u)
  /\ lost' = IF u \in users THEN [lost EXCEPT ![u] = "cleaned"] ELSE lost
  /\ IF u \in users
       THEN listed' = listed \ {u} /\ UNCHANGED cleanup
       ELSE LeaveCleanup
  /\ UNCHANGED <<keystone, osm, bus, teams, handler, faults>>

EndCleanup ==
  /\ \/ cleanup = "delete" /\ listed = {} /\ UNCHANGED faults
     \/ cleanup # "list_users" /\ Strike
  /\ LeaveCleanup
  /\ UNCHANGED <<keystone, osm, bus, grafana, handler, lost>>

\* The container dies and is started again.
Crash ==
  /\ Strike
  /\ Redeliver
  /\ pc' = "idle"
  /\ projList' = {} /\ todo' = {} /\ teamName' = "none" /\ teamList' = {}
  /\ LeaveCleanup
  /\ UNCHANGED <<keystone, osm, topic, grafana, lost>>

Consume ==
  \/ HandleTeam
  \/ CreateGrafanaUser
  \/ Resolve
  \/ \E p \in Project : LookUp(p)
  \/ Join
  \/ RemoveMembers
  \/ DeleteGrafanaUser

Loop ==
  \/ ListUsers
  \/ ListGrafanaUsers
  \/ \E u \in User : DeleteObsolete(u)
  \/ EndCleanup

Next ==
  \/ \E u \in User, S \in SUBSET Project : CreateUser(u, S)
  \/ \E u \in User, A, R \in SUBSET Project : EditUser(u, A, R)
  \/ \E u \in User : DeleteUser(u)
  \/ \E p \in Project, n \in Name : CreateProject(p, n) \/ RenameProject(p, n)
  \/ \E p \in Project : DeleteProject(p)
  \/ HandleTeam
  \/ CreateGrafanaUser
  \/ Resolve
  \/ \E p \in Project : LookUp(p)
  \/ Join
  \/ RemoveMembers
  \/ DeleteGrafanaUser
  \/ LoseSubscription
  \/ ListUsers
  \/ ListGrafanaUsers
  \/ \E u \in User : DeleteObsolete(u)
  \/ EndCleanup
  \/ Crash

Spec == Init /\ [][Next]_vars

\* The two threads run for ever.
FairSpec ==
  /\ Spec
  /\ WF_vars(Consume)
  /\ WF_vars(Loop)

-----------------------------------------------------------------------------
(* Properties                                                              *)

CaughtUp == pc = "idle" /\ \A t \in Topic : ~Unhandled(t)

\* A consumer that has handled all events has each user in the teams of its
\* projects and in no others, although it read the two topics in any order, what
\* it looked up was newer than its events, and any of them came twice.  But for
\* users an event of which was cut short, or whom the loop deleted, and for teams
\* whose name was given up, or taken, by a project.
TeamsMirrored ==
  CaughtUp =>
    \A u \in Present, p \in Existing :
      lost[u] = "no" /\ project[p] \notin changed \cup {"admin"} =>
        (u \in members[project[p]] <=> p \in mapping[u])

\* While projects keep their names, and without faults, no event about a user of
\* the database is cut short: what the handler looks up is there, in whatever order
\* the topics are read.  Only the removal of several mappings at once stops at the
\* project admin, which has no team.
EventsApplied ==
  faults = 0 /\ changed = {} /\ ~keystone =>
    \A u \in Present : lost[u] \in {"no", "teamless"}

\* The cleanup, which the comment of grafana_cleanup says is of non existing users,
\* deletes none that was in OSM when keystone was listed and still is.  (A user
\* created after that, and in Grafana when its users are listed, is deleted.)
CleanupSpares ==
  [][\A u \in Present \cap users :
       UNCHANGED handled /\ u \notin users' => u \in newcomers]_vars

\* A user that is gone from OSM ends up gone from Grafana: where keystone tells,
\* whatever was lost, because each pass begins anew; else because events are in
\* order, unless one is lost.
GoneUsersRemoved ==
  \A u \in User :
    <>[](user[u] = "gone" /\ (keystone \/ faults = 0) => u \notin users)

=============================================================================

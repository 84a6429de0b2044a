------------------------ MODULE GrafanaTeams_proofs ------------------------
(***************************************************************************)
(* Proofs about users and teams: type correctness; that the cleanup        *)
(* deletes no user that keystone has, but for newcomers; that the teams    *)
(* follow the mappings once all events are handled; and that no event is   *)
(* cut short while names are steady and nothing fails.                     *)
(***************************************************************************)
EXTENDS GrafanaTeams, TLAPS

-----------------------------------------------------------------------------
(* Types.  A mapping is to a project that exists, an event that is being    *)
(* handled is one of the topic, and a team that is joined has a name.       *)

Topics == topic = [t \in Topic |-> topic[t]]
MappingsExist == \A u \in User : mapping[u] \subseteq Existing
InHand == pc # "idle" => Unhandled("users")
Named == pc = "join" => teamName \in Name

TypeInv == TypeOK /\ Topics /\ MappingsExist /\ InHand /\ Named

\* The parts of TypeInv that the steps of OSM, of the consumer and of the loop
\* can disturb.
OsmTypes ==
  /\ user \in [User -> Lifetime]
  /\ project \in [Project -> Name \cup NoName]
  /\ mapping \in [User -> SUBSET Project]
  /\ sent \in Nat
  /\ changed \subseteq Name
  /\ newcomers \subseteq User
  /\ MappingsExist

BusTypes ==
  /\ topic["users"] \in Seq(UserEvent) /\ topic["project"] \in Seq(TeamEvent)
  /\ handled \in [Topic -> Nat] /\ committed \in [Topic -> Nat]
  /\ Topics

GrafanaTypes ==
  /\ users \subseteq User
  /\ teams \subseteq Name
  /\ members \in [Name -> SUBSET User]

HandlerTypes ==
  /\ pc \in {"idle", "resolve", "look_up", "join"}
  /\ projList \subseteq Name
  /\ todo \subseteq Project
  /\ teamName \in Name \cup {"none"}
  /\ teamList \subseteq Name
  /\ InHand
  /\ Named

LoopTypes ==
  /\ cleanup \in {"list_users", "list_grafana", "delete"}
  /\ listed \subseteq User

RestTypes ==
  /\ keystone \in BOOLEAN
  /\ lost \in [User -> {"no", "raised", "teamless", "cleaned"}]
  /\ faults \in Nat

LEMMA TypeParts ==
  TypeInv <=> /\ OsmTypes /\ BusTypes /\ GrafanaTypes
              /\ HandlerTypes /\ LoopTypes /\ RestTypes
BY DEF TypeInv, TypeOK, OsmTypes, BusTypes, GrafanaTypes, HandlerTypes, LoopTypes,
       RestTypes

LEMMA TypePartsNext ==
  TypeInv' <=> /\ OsmTypes' /\ BusTypes' /\ GrafanaTypes'
               /\ HandlerTypes' /\ LoopTypes' /\ RestTypes'
BY DEF TypeInv, TypeOK, OsmTypes, BusTypes, GrafanaTypes, HandlerTypes, LoopTypes,
       RestTypes

\* A project that exists has a name.
LEMMA ExistingNamed == \A p \in Existing : p \in Project /\ project[p] \in Name
BY DEF Existing

\* An event that is not handled yet is an event about a user.
LEMMA EventType ==
  ASSUME BusTypes, Unhandled("users")
  PROVE  Event \in UserEvent
<1>1. /\ handled["users"] \in Nat
      /\ handled["users"] + 1 \in 1..Len(topic["users"])
  BY DEF BusTypes, Unhandled, Topic
<1> QED BY <1>1 DEF BusTypes, Event

\* Faults are counted.
LEMMA StrikeTypes == ASSUME faults \in Nat, Strike PROVE faults' \in Nat
BY DEF Strike

\* A handler that returns is ready for the next event.
LEMMA ReturnTypes ==
  ASSUME BusTypes, NEW t \in Topic, Return(t)
  PROVE  BusTypes' /\ HandlerTypes'
<1>1. handled' \in [Topic -> Nat]
  BY DEF BusTypes, Return
<1> QED BY <1>1 DEF BusTypes, HandlerTypes, Return, Topics, InHand, Named

\* Raising marks the user of the event.
LEMMA RaiseTypes ==
  ASSUME BusTypes, lost \in [User -> {"no", "raised", "teamless", "cleaned"}],
         NEW why \in {"raised", "teamless"}, Raise(why)
  PROVE  /\ BusTypes' /\ HandlerTypes'
         /\ lost' \in [User -> {"no", "raised", "teamless", "cleaned"}]
<1>1. Return("users")
  BY DEF Raise
<1>2. BusTypes' /\ HandlerTypes'
  BY <1>1, ReturnTypes DEF Topic
<1> QED BY <1>2 DEF Raise

LEMMA FinishTypes ==
  ASSUME BusTypes, Finish
  PROVE  BusTypes' /\ HandlerTypes' /\ UNCHANGED lost
BY ReturnTypes DEF Finish, Topic

\* An event that is sent is put at the end of its topic.
LEMMA SendTypes ==
  ASSUME BusTypes, HandlerTypes, sent \in Nat, NEW t \in Topic, NEW e,
         t = "users" => e \in UserEvent,
         t = "project" => e \in TeamEvent,
         Send(t, e)
  PROVE  BusTypes' /\ HandlerTypes' /\ sent' \in Nat
<1>1. /\ UNCHANGED <<handled, committed, pc, projList, todo, teamName, teamList>>
      /\ topic' = [topic EXCEPT ![t] = Append(@, e)]
      /\ sent' = sent + 1
  BY DEF Send, handler
<1>2. Topics'
  BY <1>1 DEF BusTypes, Topics
<1>3. topic'["users"] \in Seq(UserEvent) /\ Len(topic["users"]) <= Len(topic'["users"])
  <2>1. CASE t = "users"
    <3>1. topic'["users"] = Append(topic["users"], e)
      BY <1>1, <2>1 DEF BusTypes, Topics, Topic
    <3> QED BY <3>1, <2>1 DEF BusTypes
  <2>2. CASE t # "users"
    <3>1. topic'["users"] = topic["users"]
      BY <1>1, <2>2 DEF BusTypes, Topics, Topic
    <3> QED BY <3>1 DEF BusTypes
  <2> QED BY <2>1, <2>2
<1>4. topic'["project"] \in Seq(TeamEvent)
  <2>1. CASE t = "project"
    <3>1. topic'["project"] = Append(topic["project"], e)
      BY <1>1, <2>1 DEF BusTypes, Topics, Topic
    <3> QED BY <3>1, <2>1 DEF BusTypes
  <2>2. CASE t # "project"
    <3>1. topic'["project"] = topic["project"]
      BY <1>1, <2>2 DEF BusTypes, Topics, Topic
    <3> QED BY <3>1 DEF BusTypes
  <2> QED BY <2>1, <2>2
<1>5. InHand'
  <2>1. /\ handled["users"] \in Nat
        /\ Len(topic["users"]) \in Nat /\ Len(topic'["users"]) \in Nat
    BY <1>3 DEF BusTypes, Topic
  <2> QED BY <1>1, <1>3, <2>1 DEF HandlerTypes, InHand, Unhandled
<1> QED BY <1>1, <1>2, <1>3, <1>4, <1>5 DEF BusTypes, HandlerTypes, Named

\* An event about a user names the projects it maps as they are called now.
LEMMA SendUserTypes ==
  ASSUME BusTypes, HandlerTypes, sent \in Nat,
         NEW u \in User, NEW key \in {"created", "edited", "removed", "deleted"},
         NEW S \in SUBSET Existing, SendUser(u, key, S)
  PROVE  BusTypes' /\ HandlerTypes' /\ sent' \in Nat
<1>1. NamedNow(S) \in Mapped
  BY ExistingNamed DEF NamedNow, Mapped
<1>2. PICK byName \in BOOLEAN, form \in Form :
        Send("users", [key |-> key, user |-> u, names |-> NamedNow(S),
                       byName |-> byName \/ S = {} \/ key = "removed", form |-> form])
  BY DEF SendUser, Form
<1>3. [key |-> key, user |-> u, names |-> NamedNow(S),
       byName |-> byName \/ S = {} \/ key = "removed", form |-> form] \in UserEvent
  BY <1>1 DEF UserEvent
<1> QED BY <1>2, <1>3, SendTypes DEF Topic

-----------------------------------------------------------------------------
(* OSM.                                                                    *)

LEMMA CreateUserTypes ==
  ASSUME TypeInv, NEW u \in User, NEW S \in SUBSET Project, CreateUser(u, S)
  PROVE  TypeInv'
<1> USE TypeParts, TypePartsNext
<1>1. /\ user' = [user EXCEPT ![u] = "present"]
      /\ mapping' = [mapping EXCEPT ![u] = S]
      /\ newcomers' = newcomers \cup {u}
      /\ S \subseteq Existing
      /\ SendUser(u, "created", S)
      /\ UNCHANGED <<project, changed>>
  BY DEF CreateUser
<1>2. UNCHANGED <<keystone, grafana, loop, lost, faults>>
  BY <1>1 DEF SendUser, Send
<1>3. BusTypes' /\ HandlerTypes' /\ sent' \in Nat
  BY <1>1, SendUserTypes DEF OsmTypes
<1>4. MappingsExist'
  BY <1>1 DEF OsmTypes, MappingsExist, Existing
<1>5. OsmTypes'
  BY <1>1, <1>3, <1>4 DEF OsmTypes, Lifetime
<1> QED BY <1>2, <1>3, <1>5 DEF grafana, loop, GrafanaTypes, LoopTypes, RestTypes

LEMMA EditUserTypes ==
  ASSUME TypeInv, NEW u \in User, NEW A \in SUBSET Project, NEW R \in SUBSET Project,
         EditUser(u, A, R)
  PROVE  TypeInv'
<1> USE TypeParts, TypePartsNext
<1>1. /\ mapping' = [mapping EXCEPT ![u] = (@ \cup A) \ R]
      /\ A \subseteq Existing /\ R \subseteq Existing
      /\ UNCHANGED <<user, project, changed, newcomers>>
  BY DEF EditUser, OsmTypes, MappingsExist
<1>2. SendUser(u, "edited", A) \/ SendUser(u, "removed", R)
  BY DEF EditUser
<1>3. UNCHANGED <<keystone, grafana, loop, lost, faults>>
  BY <1>2 DEF SendUser, Send
<1>4. BusTypes' /\ HandlerTypes' /\ sent' \in Nat
  BY <1>1, <1>2, SendUserTypes DEF OsmTypes
<1>5. MappingsExist'
  BY <1>1 DEF OsmTypes, MappingsExist, Existing
<1>6. OsmTypes'
  BY <1>1, <1>4, <1>5 DEF OsmTypes
<1> QED BY <1>3, <1>4, <1>6 DEF grafana, loop, GrafanaTypes, LoopTypes, RestTypes

LEMMA DeleteUserTypes ==
  ASSUME TypeInv, NEW u \in User, DeleteUser(u)
  PROVE  TypeInv'
<1> USE TypeParts, TypePartsNext
<1>1. /\ user' = [user EXCEPT ![u] = "gone"]
      /\ mapping' = [mapping EXCEPT ![u] = {}]
      /\ SendUser(u, "deleted", {})
      /\ UNCHANGED <<project, changed, newcomers>>
  BY DEF DeleteUser
<1>2. UNCHANGED <<keystone, grafana, loop, lost, faults>>
  BY <1>1 DEF SendUser, Send
<1>3. BusTypes' /\ HandlerTypes' /\ sent' \in Nat
  BY <1>1, SendUserTypes DEF OsmTypes
<1>4. MappingsExist'
  BY <1>1 DEF OsmTypes, MappingsExist, Existing
<1>5. OsmTypes'
  BY <1>1, <1>3, <1>4 DEF OsmTypes, Lifetime
<1> QED BY <1>2, <1>3, <1>5 DEF grafana, loop, GrafanaTypes, LoopTypes, RestTypes

\* A project that has a name keeps one till it is deleted, when nobody is mapped to it.
LEMMA ProjectTypes ==
  ASSUME TypeInv, NEW p \in Project, NEW n \in Name,
         CreateProject(p, n) \/ RenameProject(p, n) \/ DeleteProject(p)
  PROVE  TypeInv'
<1> USE TypeParts, TypePartsNext
<1> DEFINE Told == \E e \in TeamEvent : Send("project", e)
<1>1. Told /\ OsmTypes' /\ UNCHANGED <<user, mapping, newcomers>>
  <2>1. CASE CreateProject(p, n)
    <3>1. /\ Told
          /\ project[p] = "absent"
          /\ project' = [project EXCEPT ![p] = n]
          /\ UNCHANGED <<user, mapping, changed, newcomers>>
          /\ sent' = sent + 1
      BY <2>1 DEF CreateProject, TeamEvent, Send
    <3>2. MappingsExist'
      BY <3>1 DEF OsmTypes, MappingsExist, Existing
    <3> QED BY <3>1, <3>2 DEF OsmTypes
  <2>2. CASE RenameProject(p, n)
    <3>1. /\ project[p] \in Name
          /\ project' = [project EXCEPT ![p] = n]
          /\ changed' = changed \cup {project[p], n}
          /\ UNCHANGED <<user, mapping, newcomers>>
          /\ Send("project", [key |-> "edited", old |-> project[p], new |-> n])
      BY <2>2, ExistingNamed DEF RenameProject
    <3>2. Told /\ sent' = sent + 1
      BY <3>1 DEF TeamEvent, Send
    <3>3. MappingsExist'
      BY <3>1 DEF OsmTypes, MappingsExist, Existing
    <3> QED BY <3>1, <3>2, <3>3 DEF OsmTypes
  <2>3. CASE DeleteProject(p)
    <3>1. /\ project[p] \in Name
          /\ \A u \in User : p \notin mapping[u]
          /\ project' = [project EXCEPT ![p] = "gone"]
          /\ changed' = changed \cup {project[p]}
          /\ UNCHANGED <<user, mapping, newcomers>>
          /\ Send("project", [key |-> "deleted", old |-> project[p], new |-> project[p]])
      BY <2>3, ExistingNamed DEF DeleteProject
    <3>2. Told /\ sent' = sent + 1
      BY <3>1 DEF TeamEvent, Send
    <3>3. MappingsExist'
      BY <3>1 DEF OsmTypes, MappingsExist, Existing
    <3> QED BY <3>1, <3>2, <3>3 DEF OsmTypes, NoName
  <2> QED BY <2>1, <2>2, <2>3
<1>2. PICK e \in TeamEvent : Send("project", e)
  BY <1>1
<1>3. UNCHANGED <<keystone, grafana, loop, lost, faults>>
  BY <1>2 DEF Send
<1>4. BusTypes' /\ HandlerTypes'
  BY <1>2, SendTypes DEF OsmTypes, Topic
<1> QED BY <1>1, <1>3, <1>4 DEF grafana, loop, GrafanaTypes, LoopTypes, RestTypes

-----------------------------------------------------------------------------
(* The consumer.                                                           *)

\* No step of the consumer or of the loop changes OSM.
LEMMA OsmKept ==
  ASSUME OsmTypes, UNCHANGED osm
  PROVE  OsmTypes'
BY DEF osm, OsmTypes, MappingsExist, Existing

LEMMA HandleTeamTypes ==
  ASSUME TypeInv, HandleTeam
  PROVE  TypeInv'
<1> USE TypeParts, TypePartsNext
<1> DEFINE e == topic["project"][handled["project"] + 1]
<1>1. e \in TeamEvent
  <2>1. handled["project"] + 1 \in 1..Len(topic["project"])
    BY DEF HandleTeam, Unhandled, BusTypes, Topic
  <2> QED BY <2>1 DEF BusTypes
<1>2. /\ Return("project")
      /\ UNCHANGED <<keystone, osm, users, loop, lost>>
      /\ faults' = faults \/ Strike
  BY DEF HandleTeam
<1>3. BusTypes' /\ HandlerTypes'
  BY <1>2, ReturnTypes DEF Topic
<1>4. /\ e.old \in Name /\ e.new \in Name
      /\ \/ CreateTeam(e.new)
         \/ DeleteTeam(e.old)
         \/ RenameTeam(e.old, e.new)
         \/ UNCHANGED <<teams, members>>
  BY <1>1 DEF HandleTeam, TeamEvent
<1>5. GrafanaTypes'
  BY <1>2, <1>4 DEF GrafanaTypes, CreateTeam, DeleteTeam, RenameTeam, Renamed
<1>6. faults' \in Nat
  BY <1>2, StrikeTypes DEF RestTypes
<1> QED BY <1>2, <1>3, <1>5, <1>6, OsmKept DEF LoopTypes, RestTypes, loop

\* What _user_msg is at stays, or it goes on, returns or raises.
LEMMA CreateGrafanaUserTypes ==
  ASSUME TypeInv, CreateGrafanaUser
  PROVE  TypeInv'
<1> USE TypeParts, TypePartsNext
<1>1. /\ Event.user \in User /\ Unhandled("users")
      /\ UNCHANGED <<keystone, osm, teams, members, loop>>
  BY EventType DEF CreateGrafanaUser, Reads, UserEvent
<1>2. /\ users' \subseteq User
      /\ faults' = faults \/ Strike
      /\ \/ Finish
         \/ Raise("raised")
         \/ pc' = "resolve" /\ UNCHANGED <<bus, projList, todo, teamName, teamList, lost>>
  BY <1>1 DEF CreateGrafanaUser, GrafanaTypes
<1>3. /\ BusTypes' /\ HandlerTypes'
      /\ lost' \in [User -> {"no", "raised", "teamless", "cleaned"}]
  <2>1. CASE Finish
    BY <2>1, FinishTypes DEF RestTypes
  <2>2. CASE Raise("raised")
    BY <2>2, RaiseTypes DEF RestTypes
  <2>3. CASE pc' = "resolve" /\ UNCHANGED <<bus, projList, todo, teamName, teamList, lost>>
    BY <1>1, <2>3 DEF bus, BusTypes, Topics, HandlerTypes, InHand, Unhandled, Named, RestTypes
  <2> QED BY <1>2, <2>1, <2>2, <2>3
<1>4. faults' \in Nat
  BY <1>2, StrikeTypes DEF RestTypes
<1>5. GrafanaTypes'
  BY <1>1, <1>2 DEF GrafanaTypes
<1> QED BY <1>1, <1>3, <1>4, <1>5, OsmKept DEF LoopTypes, RestTypes, loop

\* What is looked up, and what events tell, are names of projects.
LEMMA ProjListNowTypes ==
  ASSUME TypeInv, Event \in UserEvent
  PROVE  ProjListNow \subseteq Name
<1> USE TypeParts, ExistingNamed
<1>1. {Event.names[p] : p \in Projects(Event)} \subseteq Name
  BY DEF UserEvent, Mapped, Projects
<1>2. NamesOf(Existing) \subseteq Name
  BY DEF NamesOf
<1>3. NamesOf(mapping[Event.user]) \subseteq Name
  BY DEF NamesOf, UserEvent, OsmTypes, MappingsExist
<1> QED BY <1>1, <1>2, <1>3 DEF ProjListNow

LEMMA ResolveTypes ==
  ASSUME TypeInv, Resolve
  PROVE  TypeInv'
<1> USE TypeParts, TypePartsNext
<1>1. Unhandled("users") /\ Event \in UserEvent
  BY EventType DEF Resolve, Reads, HandlerTypes, InHand
<1>2. /\ UNCHANGED <<keystone, osm, grafana, loop>>
      /\ faults' = faults \/ Strike
  BY DEF Resolve
<1>3. /\ BusTypes' /\ HandlerTypes'
      /\ lost' \in [User -> {"no", "raised", "teamless", "cleaned"}]
  <2>1. CASE Raise("raised")
    BY <2>1, RaiseTypes DEF RestTypes
  <2>2. CASE /\ projList' = ProjListNow
             /\ todo' = Projects(Event)
             /\ pc' = "look_up"
             /\ UNCHANGED <<bus, teamName, teamList, lost, faults>>
    <3>1. projList' \subseteq Name /\ todo' \subseteq Project
      BY <1>1, <2>2, ProjListNowTypes DEF Projects
    <3> QED BY <1>1, <2>2, <3>1
            DEF bus, BusTypes, Topics, HandlerTypes, InHand, Unhandled, Named, RestTypes
  <2> QED BY <2>1, <2>2 DEF Resolve
<1>4. faults' \in Nat
  BY <1>2, StrikeTypes DEF RestTypes
<1> QED BY <1>2, <1>3, <1>4, OsmKept DEF GrafanaTypes, LoopTypes, RestTypes, grafana, loop

\* Teams lose a member, and no one becomes one of something else.
LEMMA WithoutTypes ==
  ASSUME members \in [Name -> SUBSET User], NEW u, NEW S
  PROVE  Without(u, S) \in [Name -> SUBSET User]
BY DEF Without

LEMMA LookUpTypes ==
  ASSUME TypeInv, NEW p \in Project, LookUp(p)
  PROVE  TypeInv'
<1> USE TypeParts, TypePartsNext
<1>1. Unhandled("users") /\ Event \in UserEvent /\ Event.user \in User
  BY EventType DEF LookUp, HandlerTypes, InHand, UserEvent
<1>2. /\ UNCHANGED <<keystone, osm, teams, loop>>
      /\ faults' = faults \/ Strike
      /\ users' \in {users, users \cup {Event.user}}
      /\ \/ Raise("raised")
         \/ /\ teamName' \in TeamsFor(p)
            /\ teamList' = TeamsOf(Event.user)
            /\ todo' = todo \ {p}
            /\ pc' = "join"
            /\ UNCHANGED <<bus, projList, lost>>
  BY DEF LookUp
<1>3. members' \in [Name -> SUBSET User]
  <2>1. \/ UNCHANGED members
        \/ \E S : members' = Without(Event.user, S)
    BY DEF LookUp
  <2> QED BY <2>1, WithoutTypes DEF GrafanaTypes
<1>4. TeamsFor(p) \subseteq Name
  BY <1>1, ExistingNamed DEF TeamsFor, NamesOf, UserEvent, Mapped
<1>5. /\ BusTypes' /\ HandlerTypes'
      /\ lost' \in [User -> {"no", "raised", "teamless", "cleaned"}]
  <2>1. CASE Raise("raised")
    BY <2>1, RaiseTypes DEF RestTypes
  <2>2. CASE /\ teamName' \in TeamsFor(p)
             /\ teamList' = TeamsOf(Event.user)
             /\ todo' = todo \ {p}
             /\ pc' = "join"
             /\ UNCHANGED <<bus, projList, lost>>
    <3>1. teamList' \subseteq Name
      BY <2>2 DEF TeamsOf
    <3> QED BY <1>1, <1>4, <2>2, <3>1
            DEF bus, BusTypes, Topics, HandlerTypes, InHand, Unhandled, Named, RestTypes
  <2> QED BY <1>2, <2>1, <2>2
<1>6. faults' \in Nat
  BY <1>2, StrikeTypes DEF RestTypes
<1>7. GrafanaTypes'
  BY <1>1, <1>2, <1>3 DEF GrafanaTypes
<1> QED BY <1>2, <1>5, <1>6, <1>7, OsmKept DEF LoopTypes, RestTypes, loop

LEMMA JoinTypes ==
  ASSUME TypeInv, Join
  PROVE  TypeInv'
<1> USE TypeParts, TypePartsNext
<1>1. /\ Unhandled("users") /\ Event.user \in User
      /\ teamName \in Name
  BY EventType DEF Join, HandlerTypes, InHand, Named, UserEvent
<1>2. /\ UNCHANGED <<keystone, osm, users, loop>>
      /\ faults' = faults \/ Strike
      /\ teams' \in {teams, teams \cup ({teamName} \ {"admin"})}
      /\ members' \in {members, Joined}
      /\ \/ Raise("raised")
         \/ Finish
         \/ /\ pc' = "look_up" /\ teamName' = "none" /\ teamList' = {}
            /\ UNCHANGED <<bus, projList, todo, lost>>
  BY DEF Join
<1>3. GrafanaTypes'
  <2>1. Joined \in [Name -> SUBSET User]
    BY <1>1 DEF Joined, GrafanaTypes
  <2> QED BY <1>1, <1>2, <2>1 DEF GrafanaTypes
<1>4. /\ BusTypes' /\ HandlerTypes'
      /\ lost' \in [User -> {"no", "raised", "teamless", "cleaned"}]
  <2>1. CASE Raise("raised")
    BY <2>1, RaiseTypes DEF RestTypes
  <2>2. CASE Finish
    BY <2>2, FinishTypes DEF RestTypes
  <2>3. CASE /\ pc' = "look_up" /\ teamName' = "none" /\ teamList' = {}
             /\ UNCHANGED <<bus, projList, todo, lost>>
    BY <1>1, <2>3
       DEF bus, BusTypes, Topics, HandlerTypes, InHand, Unhandled, Named, RestTypes
  <2> QED BY <1>2, <2>1, <2>2, <2>3
<1>5. faults' \in Nat
  BY <1>2, StrikeTypes DEF RestTypes
<1> QED BY <1>2, <1>3, <1>4, <1>5, OsmKept DEF LoopTypes, RestTypes, loop

LEMMA RemoveMembersTypes ==
  ASSUME TypeInv, RemoveMembers
  PROVE  TypeInv'
<1> USE TypeParts, TypePartsNext
<1>1. /\ UNCHANGED <<keystone, osm, users, teams, loop>>
      /\ faults' = faults \/ Strike
      /\ Finish \/ Raise("raised") \/ Raise("teamless")
      /\ UNCHANGED members \/ \E S : members' = Without(Event.user, S)
  BY DEF RemoveMembers
<1>2. GrafanaTypes'
  BY <1>1, WithoutTypes DEF GrafanaTypes
<1>3. /\ BusTypes' /\ HandlerTypes'
      /\ lost' \in [User -> {"no", "raised", "teamless", "cleaned"}]
  BY <1>1, RaiseTypes, FinishTypes DEF RestTypes
<1>4. faults' \in Nat
  BY <1>1, StrikeTypes DEF RestTypes
<1> QED BY <1>1, <1>2, <1>3, <1>4, OsmKept DEF LoopTypes, RestTypes, loop

LEMMA DeleteGrafanaUserTypes ==
  ASSUME TypeInv, DeleteGrafanaUser
  PROVE  TypeInv'
<1> USE TypeParts, TypePartsNext
<1>1. /\ UNCHANGED <<keystone, osm, teams, loop>>
      /\ faults' = faults \/ Strike
      /\ Finish \/ Raise("raised")
      /\ UNCHANGED <<users, members>> \/ Removed(Event.user)
  BY DEF DeleteGrafanaUser
<1>2. GrafanaTypes'
  BY <1>1, WithoutTypes DEF GrafanaTypes, Removed
<1>3. /\ BusTypes' /\ HandlerTypes'
      /\ lost' \in [User -> {"no", "raised", "teamless", "cleaned"}]
  BY <1>1, RaiseTypes, FinishTypes DEF RestTypes
<1>4. faults' \in Nat
  BY <1>1, StrikeTypes DEF RestTypes
<1> QED BY <1>1, <1>2, <1>3, <1>4, OsmKept DEF LoopTypes, RestTypes, loop

\* What is read again was handled before, so the handler is idle.
LEMMA RedeliverTypes ==
  ASSUME TypeInv, LoseSubscription \/ Crash
  PROVE  TypeInv'
<1> USE TypeParts, TypePartsNext
<1>1. /\ handled' \in [Topic -> Nat] /\ committed' \in [Topic -> Nat]
  BY BoundsAssumption DEF LoseSubscription, Crash, Redeliver
<1>2. /\ UNCHANGED <<keystone, osm, topic, grafana, lost>>
      /\ faults' \in Nat
      /\ pc' = "idle"
  BY StrikeTypes DEF LoseSubscription, Crash, RestTypes, handler
<1>3. HandlerTypes' /\ LoopTypes'
  BY <1>2 DEF LoseSubscription, Crash, LeaveCleanup, HandlerTypes, LoopTypes, InHand, Named,
              handler, loop
<1> QED BY <1>1, <1>2, <1>3, OsmKept
        DEF BusTypes, Topics, GrafanaTypes, RestTypes, grafana

-----------------------------------------------------------------------------
(* The loop.                                                               *)

LEMMA LoopStepTypes ==
  ASSUME TypeInv, ListUsers \/ ListGrafanaUsers \/ EndCleanup
                  \/ \E u \in User : DeleteObsolete(u)
  PROVE  TypeInv'
<1> USE TypeParts, TypePartsNext
<1>1. UNCHANGED <<keystone, user, project, mapping, sent, changed, bus, teams, handler>>
  BY DEF ListUsers, ListGrafanaUsers, EndCleanup, DeleteObsolete, osm, grafana
<1>2. newcomers' \subseteq User
  BY DEF ListUsers, ListGrafanaUsers, EndCleanup, DeleteObsolete, osm, OsmTypes
<1>3. OsmTypes'
  BY <1>1, <1>2 DEF OsmTypes, MappingsExist, Existing
<1>4. BusTypes' /\ HandlerTypes'
  BY <1>1 DEF bus, handler, BusTypes, Topics, HandlerTypes, InHand, Unhandled, Named
<1>5. GrafanaTypes'
  <2>1. \/ UNCHANGED <<users, members>>
        \/ \E u \in User : Removed(u)
    BY DEF ListUsers, ListGrafanaUsers, EndCleanup, DeleteObsolete, grafana
  <2> QED BY <1>1, <2>1, WithoutTypes DEF GrafanaTypes, Removed
<1>6. LoopTypes'
  BY DEF ListUsers, ListGrafanaUsers, EndCleanup, DeleteObsolete, LeaveCleanup, LoopTypes,
         Present, GrafanaTypes
<1>7. RestTypes'
  BY <1>1, StrikeTypes DEF ListUsers, ListGrafanaUsers, EndCleanup, DeleteObsolete, RestTypes
<1> QED BY <1>3, <1>4, <1>5, <1>6, <1>7

\* The types hold at first, and every step keeps them.
LEMMA TypeStart == Init => TypeInv
<1> SUFFICES ASSUME Init PROVE TypeInv
  OBVIOUS
<1> USE TypeParts
<1>1. project \in [Project -> Name \cup NoName]
  BY InitialNamesAssumption DEF Init, NoName
<1>2. OsmTypes
  BY <1>1 DEF Init, OsmTypes, Lifetime, MappingsExist, Existing
<1>3. BusTypes /\ HandlerTypes
  BY DEF Init, BusTypes, Topics, Topic, HandlerTypes, InHand, Named
<1>4. NamesOf(Project) \subseteq Name \cup {"absent"}
  BY InitialNamesAssumption DEF Init, NamesOf
<1> QED BY <1>2, <1>3, <1>4 DEF Init, GrafanaTypes, LoopTypes, RestTypes

LEMMA TypeStep == TypeInv /\ [Next]_vars => TypeInv'
<1> SUFFICES ASSUME TypeInv, [Next]_vars PROVE TypeInv'
  OBVIOUS
<1>1. CASE UNCHANGED vars
  BY <1>1 DEF vars, osm, grafana, bus, handler, loop, TypeInv, TypeOK, Topics, MappingsExist,
              Existing, InHand, Unhandled, Named
<1>2. CASE \E u \in User, S \in SUBSET Project : CreateUser(u, S)
  BY <1>2, CreateUserTypes
<1>3. CASE \E u \in User, A, R \in SUBSET Project : EditUser(u, A, R)
  BY <1>3, EditUserTypes
<1>4. CASE \E u \in User : DeleteUser(u)
  BY <1>4, DeleteUserTypes
<1>5. CASE \E p \in Project, n \in Name : CreateProject(p, n) \/ RenameProject(p, n)
  BY <1>5, ProjectTypes
<1>6. CASE \E p \in Project : DeleteProject(p)
  <2>1. PICK p \in Project : DeleteProject(p)
    BY <1>6
  <2>2. project[p] \in Name
    BY <2>1, ExistingNamed DEF DeleteProject
  <2> QED BY <2>1, <2>2, ProjectTypes
<1>7. CASE HandleTeam \/ CreateGrafanaUser \/ Resolve \/ Join
  BY <1>7, HandleTeamTypes, CreateGrafanaUserTypes, ResolveTypes, JoinTypes
<1>8. CASE \E p \in Project : LookUp(p)
  BY <1>8, LookUpTypes
<1>9. CASE RemoveMembers \/ DeleteGrafanaUser
  BY <1>9, RemoveMembersTypes, DeleteGrafanaUserTypes
<1>10. CASE LoseSubscription \/ Crash
  BY <1>10, RedeliverTypes
<1>11. CASE ListUsers \/ ListGrafanaUsers \/ EndCleanup \/ \E u \in User : DeleteObsolete(u)
  BY <1>11, LoopStepTypes
<1> QED BY <1>1, <1>2, <1>3, <1>4, <1>5, <1>6, <1>7, <1>8, <1>9, <1>10, <1>11 DEF Next

\* Every variable of the dashboarder's second thread keeps its type, mappings are to
\* projects that exist, and a team that is joined has a name, for any number of users,
\* projects, events and faults (dashboarder.py _user_msg).
THEOREM TypeCorrect == Spec => []TypeOK
<1>1. Spec => []TypeInv
  BY TypeStart, TypeStep, PTL DEF Spec
<1>2. TypeInv => TypeOK
  BY DEF TypeInv
<1> QED BY <1>1, <1>2, PTL

-----------------------------------------------------------------------------
(* The cleanup.  While it is at work, a user in keystone was listed, or has *)
(* been created since; and what is left to delete is not in keystone, or    *)
(* has been created since.                                                  *)

SpareInv ==
  /\ cleanup = "list_grafana" => Present \subseteq listed \cup newcomers
  /\ cleanup = "delete" => Present \cap listed \subseteq newcomers

\* Users come into being as newcomers.
LEMMA PresentStep ==
  ASSUME TypeOK, [Next]_vars, UNCHANGED <<cleanup, listed>>
  PROVE  Present' \subseteq Present \cup newcomers' /\ newcomers \subseteq newcomers'
<1>1. CASE \E u \in User, S \in SUBSET Project : CreateUser(u, S)
  BY <1>1 DEF CreateUser, Present, TypeOK
<1>2. CASE \E u \in User : DeleteUser(u)
  BY <1>2 DEF DeleteUser, Present, TypeOK
<1>3. CASE UNCHANGED <<user, newcomers>>
  BY <1>3 DEF Present
<1>4. CASE ListUsers
  BY <1>4 DEF ListUsers
<1>5. \/ \E u \in User, S \in SUBSET Project : CreateUser(u, S)
      \/ \E u \in User : DeleteUser(u)
      \/ ListUsers
      \/ UNCHANGED <<user, newcomers>>
  BY DEF Next, vars, osm, EditUser, CreateProject, RenameProject, DeleteProject, HandleTeam,
         CreateGrafanaUser, Resolve, LookUp, Join, RemoveMembers, DeleteGrafanaUser,
         LoseSubscription, ListGrafanaUsers, DeleteObsolete, EndCleanup, Crash
<1> QED BY <1>1, <1>2, <1>3, <1>4, <1>5

\* Only the loop touches what it is at.
LEMMA LoopKept ==
  ASSUME [Next]_vars
  PROVE  \/ ListUsers \/ ListGrafanaUsers \/ EndCleanup \/ Crash
         \/ \E u \in User : DeleteObsolete(u)
         \/ UNCHANGED <<cleanup, listed>>
<1>1. ASSUME \/ \E u \in User, S \in SUBSET Project : CreateUser(u, S)
             \/ \E u \in User, A, R \in SUBSET Project : EditUser(u, A, R)
             \/ \E u \in User : DeleteUser(u)
             \/ \E p \in Project, n \in Name : CreateProject(p, n) \/ RenameProject(p, n)
             \/ \E p \in Project : DeleteProject(p)
      PROVE  UNCHANGED <<cleanup, listed>>
  <2>1. \/ \E v, key, S : SendUser(v, key, S)
        \/ \E e : Send("project", e)
    BY <1>1 DEF CreateUser, EditUser, DeleteUser, CreateProject, RenameProject, DeleteProject
  <2> QED BY <2>1, ZenonT(30) DEF SendUser, Send, loop
<1>2. ASSUME \/ HandleTeam \/ CreateGrafanaUser \/ Resolve \/ Join
             \/ \E p \in Project : LookUp(p)
             \/ RemoveMembers \/ DeleteGrafanaUser \/ LoseSubscription
      PROVE  UNCHANGED <<cleanup, listed>>
  BY <1>2 DEF HandleTeam, CreateGrafanaUser, Resolve, LookUp, Join, RemoveMembers,
              DeleteGrafanaUser, LoseSubscription, loop
<1> QED BY <1>1, <1>2 DEF Next, vars, loop

LEMMA SpareStep == TypeOK /\ SpareInv /\ [Next]_vars => SpareInv'
<1> SUFFICES ASSUME TypeOK, SpareInv, [Next]_vars PROVE SpareInv'
  OBVIOUS
<1>1. CASE ListUsers
  BY <1>1 DEF ListUsers, SpareInv, Present
<1>2. CASE ListGrafanaUsers
  BY <1>2 DEF ListGrafanaUsers, SpareInv, Present, osm
<1>3. CASE EndCleanup \/ Crash
  BY <1>3 DEF EndCleanup, Crash, LeaveCleanup, SpareInv
<1>4. CASE \E u \in User : DeleteObsolete(u)
  BY <1>4 DEF DeleteObsolete, LeaveCleanup, SpareInv, Present, osm
<1>5. CASE UNCHANGED <<cleanup, listed>>
  BY <1>5, PresentStep DEF SpareInv
<1> QED BY <1>1, <1>2, <1>3, <1>4, <1>5, LoopKept

\* Who leaves Grafana was deleted by an event, or was left over by the cleanup.
LEMMA SparedStep ==
  ASSUME TypeOK, SpareInv, Next,
         NEW u \in Present \cap users, UNCHANGED handled, u \notin users'
  PROVE  u \in newcomers
<1>1. u \in users /\ users' # users /\ ~(users \subseteq users')
  OBVIOUS
<1>2. \/ \E v \in User : DeleteObsolete(v)
      \/ DeleteGrafanaUser
  <2>1. ASSUME \/ \E v \in User, S \in SUBSET Project : CreateUser(v, S)
               \/ \E v \in User, A, R \in SUBSET Project : EditUser(v, A, R)
               \/ \E v \in User : DeleteUser(v)
               \/ \E p \in Project, n \in Name : CreateProject(p, n) \/ RenameProject(p, n)
               \/ \E p \in Project : DeleteProject(p)
        PROVE  UNCHANGED users
    <3>1. \/ \E v, key, S : SendUser(v, key, S)
          \/ \E e : Send("project", e)
      BY <2>1 DEF CreateUser, EditUser, DeleteUser, CreateProject, RenameProject,
                  DeleteProject
    <3> QED BY <3>1 DEF SendUser, Send, grafana
  <2>2. ASSUME \/ HandleTeam \/ CreateGrafanaUser \/ Resolve \/ Join
               \/ \E p \in Project : LookUp(p)
               \/ RemoveMembers \/ LoseSubscription
        PROVE  users \subseteq users'
    BY <2>2 DEF HandleTeam, CreateGrafanaUser, Resolve, LookUp, Join, RemoveMembers,
                LoseSubscription, grafana
  <2>3. ASSUME ListUsers \/ ListGrafanaUsers \/ EndCleanup \/ Crash
        PROVE  UNCHANGED users
    BY <2>3 DEF ListUsers, ListGrafanaUsers, EndCleanup, Crash, grafana
  <2> QED BY <1>1, <2>1, <2>2, <2>3 DEF Next
<1>3. CASE \E v \in User : DeleteObsolete(v)
  BY <1>3 DEF DeleteObsolete, Removed, SpareInv
<1>4. ~DeleteGrafanaUser
  <2>1. SUFFICES ASSUME DeleteGrafanaUser PROVE FALSE
    OBVIOUS
  <2>2. Return("users")
    BY <2>1 DEF DeleteGrafanaUser, Finish, Raise
  <2>3. handled'["users"] = handled["users"] + 1 /\ handled["users"] \in Nat
    BY <2>2 DEF Return, TypeOK, Topic
  <2> QED BY <2>3
<1> QED BY <1>2, <1>3, <1>4

\* The cleanup deletes no user that keystone has from Grafana, whatever the consumer and
\* OSM do meanwhile, but one that was created after keystone was listed
\* (service.py delete_non_existing_users).
THEOREM UsersSpared == Spec => CleanupSpares
<1>1. Init => SpareInv
  BY DEF Init, SpareInv
<1>2. Spec => []SpareInv
  BY <1>1, SpareStep, TypeCorrect, PTL DEF Spec
<1>3. TypeOK /\ SpareInv /\ [Next]_vars =>
        [\A u \in Present \cap users :
           UNCHANGED handled /\ u \notin users' => u \in newcomers]_vars
  BY SparedStep
<1> QED BY <1>2, <1>3, TypeCorrect, PTL DEF Spec, CleanupSpares

-----------------------------------------------------------------------------
(* The log.  What the events about users that were ever sent tell, handled   *)
(* or not: a redelivery may go back to any of them.                          *)

Log == topic["users"]
Place == 1..Len(Log)

\* The place of the event that is read, or being handled.
Now == handled["users"] + 1

\* The event at i has its user join the team of p, or leave it.
Adds(i, u, p) ==
  Log[i].user = u /\ Log[i].key \in {"created", "edited"} /\ p \in Projects(Log[i])
Takes(i, u, p) ==
  Log[i].user = u /\ Log[i].key = "removed" /\ p \in Projects(Log[i])

\* The last word on u and p is that u has it: what comes from i on takes nothing.
Granted(i, u, p) ==
  Adds(i, u, p) /\ \A j \in Place : j >= i => ~Takes(j, u, p)

\* The last word is that u does not have it: an event about u that is no creation has
\* the user leave the teams of all projects that are not its own when it is handled.
Revoked(i, u, p) ==
  /\ Takes(i, u, p) \/ (Log[i].user = u /\ Log[i].key = "edited")
  /\ \A j \in Place : j >= i => ~Adds(j, u, p)

UsersTold ==
  \A i \in Place : /\ user[Log[i].user] # "absent"
                   /\ Log[i].key = "deleted" => user[Log[i].user] = "gone"
CreatedFirst ==
  \A i, j \in Place : Log[i].user = Log[j].user /\ Log[i].key = "created" => i <= j
CreationTold ==
  \A u \in User : user[u] # "absent" =>
    \E i \in Place : Log[i].user = u /\ Log[i].key = "created"
FormsTold == \A i \in Place : Log[i].form # "ui" => Log[i].key = "created"
NamesTold ==
  \A i \in Place : \A p \in Projects(Log[i]) :
    \/ Log[i].names[p] = project[p]
    \/ Log[i].names[p] \in changed /\ project[p] \in changed \cup {"gone"}
NamesUnique ==
  \A p, q \in Project : project[p] \in Name /\ project[p] = project[q] => p = q
TeamsTold ==
  \A i \in 1..Len(topic["project"]) :
    LET e == topic["project"][i] IN
    /\ e.key = "edited" => e.old \in changed /\ e.new \in changed
    /\ e.key = "deleted" => e.old \in changed
MappingsTold ==
  \A u \in Present, p \in Project :
    /\ p \in mapping[u] => \E i \in Place : Granted(i, u, p)
    /\ p \notin mapping[u] /\ (\E i \in Place : Adds(i, u, p)) =>
         \E i \in Place : Revoked(i, u, p)

LogInv ==
  /\ UsersTold /\ CreatedFirst /\ CreationTold /\ FormsTold
  /\ NamesTold /\ NamesUnique /\ TeamsTold /\ MappingsTold

\* The log has got e as its last event.
Told(e) ==
  /\ Len(Log') = Len(Log) + 1
  /\ \A i \in Place : Log'[i] = Log[i]
  /\ Log'[Len(Log) + 1] = e

\* An event about u that is sent names the projects in S as they are called now.
About(e, u, key, S) ==
  /\ e.user = u /\ e.key = key /\ Projects(e) = S
  /\ \A p \in S : e.names[p] = project[p]
  /\ e.form # "ui" => key = "created"

LEMMA LogType == ASSUME TypeOK PROVE Log \in Seq(UserEvent) /\ Len(Log) \in Nat
BY DEF TypeOK, Log

LEMMA SentUser ==
  ASSUME TypeInv, NEW u \in User, NEW key \in {"created", "edited", "removed", "deleted"},
         NEW S \in SUBSET Existing, SendUser(u, key, S)
  PROVE  /\ \E e : About(e, u, key, S) /\ Told(e)
         /\ topic'["project"] = topic["project"]
         /\ UNCHANGED <<keystone, handled, grafana, handler, loop, lost, faults>>
<1>1. PICK byName \in BOOLEAN, form \in Form :
        /\ form # "ui" => key = "created"
        /\ Send("users", [key |-> key, user |-> u, names |-> NamedNow(S),
                          byName |-> byName \/ S = {} \/ key = "removed", form |-> form])
  BY DEF SendUser, Form
<1> DEFINE e == [key |-> key, user |-> u, names |-> NamedNow(S),
                 byName |-> byName \/ S = {} \/ key = "removed", form |-> form]
<1>2. \A p \in Project : p \in S <=> NamedNow(S)[p] # "none"
  BY ExistingNamed, NameAssumption DEF NamedNow
<1>3. About(e, u, key, S)
  <2>1. S \subseteq Project
    BY ExistingNamed
  <2>2. Projects(e) = S
    BY <1>2, <2>1 DEF Projects
  <2> QED BY <1>1, <2>1, <2>2 DEF About, NamedNow
<1>4. /\ topic' = [topic EXCEPT !["users"] = Append(topic["users"], e)]
      /\ UNCHANGED <<keystone, handled, grafana, handler, loop, lost, faults>>
  BY <1>1 DEF Send
<1>5. topic'["users"] = Append(topic["users"], e) /\ topic'["project"] = topic["project"]
  BY <1>4 DEF TypeInv, Topics, Topic
<1>6. Log' = Append(Log, e)
  BY <1>5 DEF Log
<1> HIDE DEF e
<1>7. Told(e)
  BY <1>6, LogType DEF TypeInv, Told, Place
<1> QED BY <1>3, <1>4, <1>5, <1>7

LEMMA SentTeam ==
  ASSUME TypeInv, NEW e, Send("project", e)
  PROVE  /\ Log' = Log
         /\ topic'["project"] = Append(topic["project"], e)
         /\ UNCHANGED <<keystone, handled, grafana, handler, loop, lost, faults>>
<1>1. /\ topic' = [topic EXCEPT !["project"] = Append(topic["project"], e)]
      /\ UNCHANGED <<keystone, handled, grafana, handler, loop, lost, faults>>
  BY DEF Send
<1> QED BY <1>1 DEF TypeInv, Topics, Topic, Log

\* What is granted or revoked stays so, unless the new event is to the contrary.
LEMMA ToldKept ==
  ASSUME TypeOK, NEW e, Told(e), NEW i \in Place, NEW v, NEW p
  PROVE  /\ i \in Place'
         /\ Adds(i, v, p)' <=> Adds(i, v, p)
         /\ Granted(i, v, p) => \/ Granted(i, v, p)'
                                \/ e.user = v /\ e.key = "removed" /\ p \in Projects(e)
         /\ Revoked(i, v, p) => \/ Revoked(i, v, p)'
                                \/ /\ e.user = v /\ e.key \in {"created", "edited"}
                                   /\ p \in Projects(e)
<1>1. /\ Place' = Place \cup {Len(Log) + 1}
      /\ \A j \in Place : Log'[j] = Log[j]
      /\ Log'[Len(Log) + 1] = e
  BY LogType DEF Told, Place
<1> QED BY <1>1 DEF Adds, Takes, Granted, Revoked

LEMMA LastTold ==
  ASSUME TypeOK, NEW e, Told(e), NEW v, NEW p, NEW k, k = Len(Log) + 1
  PROVE  /\ k \in Place' /\ k > Len(Log)
         /\ e.user = v /\ e.key \in {"created", "edited"} /\ p \in Projects(e)
              => Granted(k, v, p)'
         /\ e.user = v /\ ((e.key = "removed" /\ p \in Projects(e))
                             \/ (e.key = "edited" /\ p \notin Projects(e)))
              => Revoked(k, v, p)'
<1>1. /\ Place' = Place \cup {k} /\ \A j \in Place : j < k
      /\ Log'[k] = e
      /\ k \in Nat /\ k > Len(Log)
  BY LogType DEF Told, Place
<1>2. \A j \in Place' : j >= k => j = k
  BY <1>1 DEF Place
<1> QED BY <1>1, <1>2 DEF Adds, Takes, Granted, Revoked

LEMMA PlaceGrows ==
  ASSUME TypeOK, NEW e, Told(e)
  PROVE  \A i \in Place' : \/ i \in Place /\ Log'[i] = Log[i]
                           \/ (\A j \in Place : j < i) /\ Log'[i] = e
BY LogType DEF Told, Place

LEMMA LogStart == Init => LogInv
<1> SUFFICES ASSUME Init PROVE LogInv
  OBVIOUS
<1>1. Place = {} /\ 1..Len(topic["project"]) = {}
  BY DEF Init, Place, Log, Topic
<1>2. NamesUnique
  BY InitialNamesAssumption DEF Init, NamesUnique
<1>3. CreationTold /\ Present = {}
  BY DEF Init, CreationTold, Present
<1> QED BY <1>1, <1>2, <1>3
        DEF LogInv, UsersTold, CreatedFirst, FormsTold, NamesTold, TeamsTold, MappingsTold

\* What an event about a user that is sent leaves as it was.
LEMMA SentKeeps ==
  ASSUME TypeInv, LogInv, NEW u \in User, NEW key, NEW S \in SUBSET Existing, NEW e,
         About(e, u, key, S), Told(e), topic'["project"] = topic["project"],
         UNCHANGED <<project, changed>>
  PROVE  FormsTold' /\ NamesTold' /\ NamesUnique' /\ TeamsTold'
<1>1. FormsTold'
  BY PlaceGrows DEF TypeInv, LogInv, FormsTold, About
<1>2. NamesTold'
  <2>1. ASSUME NEW i \in Place' PROVE
          \A p \in Projects(Log'[i]) : \/ Log'[i].names[p] = project[p]
                                       \/ /\ Log'[i].names[p] \in changed
                                          /\ project[p] \in changed \cup {"gone"}
    BY PlaceGrows DEF TypeInv, LogInv, NamesTold, About
  <2> QED BY <2>1 DEF NamesTold
<1>3. NamesUnique' /\ TeamsTold'
  BY DEF LogInv, NamesUnique, TeamsTold
<1> QED BY <1>1, <1>2, <1>3

LEMMA CreateUserLog ==
  ASSUME TypeInv, LogInv, NEW u \in User, NEW S \in SUBSET Project, CreateUser(u, S)
  PROVE  LogInv'
<1>1. /\ user[u] = "absent"
      /\ user' = [user EXCEPT ![u] = "present"]
      /\ mapping' = [mapping EXCEPT ![u] = S]
      /\ S \subseteq Existing
      /\ SendUser(u, "created", S)
      /\ UNCHANGED <<project, changed>>
  BY DEF CreateUser
<1>2. /\ user \in [User -> Lifetime] /\ mapping \in [User -> SUBSET Project]
  BY DEF TypeInv, TypeOK
<1>3. PICK e : About(e, u, "created", S) /\ Told(e)
  BY <1>1, SentUser
<1>4. topic'["project"] = topic["project"]
  BY <1>1, SentUser
<1>5. \A i \in Place : Log[i].user # u
  BY <1>1 DEF LogInv, UsersTold
<1>6. UsersTold'
  BY <1>1, <1>2, <1>3, <1>5, PlaceGrows DEF TypeInv, LogInv, UsersTold, About
<1>7. CreatedFirst'
  <2>1. \A i \in Place' : Log'[i].user = u => \A j \in Place' : j <= i
    <3>1. Place' = Place \cup {Len(Log) + 1} /\ \A j \in Place : j <= Len(Log) + 1
      BY <1>3, LogType DEF TypeInv, Told, Place
    <3>2. \A i \in Place : Log'[i].user # u
      BY <1>3, <1>5 DEF Told
    <3>3. Len(Log) + 1 \in Nat
      BY LogType DEF TypeInv
    <3> QED BY <3>1, <3>2, <3>3
  <2>2. ASSUME NEW i \in Place', NEW j \in Place', Log'[i].user = Log'[j].user,
               Log'[i].key = "created"
        PROVE  i <= j
    <3>1. CASE Log'[j].user = u
      BY <2>1, <2>2, <3>1
    <3>2. CASE Log'[j].user # u
      <4>1. i \in Place /\ j \in Place /\ Log'[i] = Log[i] /\ Log'[j] = Log[j]
        BY <1>3, <2>2, <3>2, PlaceGrows DEF TypeInv, About
      <4> QED BY <2>2, <4>1 DEF LogInv, CreatedFirst
    <3> QED BY <3>1, <3>2
  <2> QED BY <2>2 DEF CreatedFirst
<1>8. CreationTold'
  <2>1. PICK k : k = Len(Log) + 1
    OBVIOUS
  <2>2. k \in Place' /\ Log'[k] = e /\ \A i \in Place : i \in Place' /\ Log'[i] = Log[i]
    BY <1>3, <2>1, LogType DEF TypeInv, Told, Place
  <2> QED BY <1>1, <1>2, <1>3, <2>2 DEF LogInv, CreationTold, About
<1>9. MappingsTold'
  <2>1. PICK k : k = Len(Log) + 1
    OBVIOUS
  <2>2. ASSUME NEW v \in Present', NEW p \in Project
        PROVE  /\ p \in mapping'[v] => \E i \in Place' : Granted(i, v, p)'
               /\ p \notin mapping'[v] /\ (\E i \in Place' : Adds(i, v, p)') =>
                    \E i \in Place' : Revoked(i, v, p)'
    <3>1. CASE v = u
      <4>1. mapping'[v] = S
        BY <1>1, <1>2, <3>1
      <4>2. p \in S => k \in Place' /\ Granted(k, v, p)'
        BY <1>3, <2>1, <3>1, LastTold DEF TypeInv, About
      <4>3. \A i \in Place' : Adds(i, v, p)' => p \in S
        BY <1>3, <1>5, <3>1, PlaceGrows DEF TypeInv, Adds, About
      <4> QED BY <4>1, <4>2, <4>3
    <3>2. CASE v # u
      <4>1. v \in Present /\ mapping'[v] = mapping[v]
        BY <1>1, <1>2, <3>2 DEF Present
      <4>2. e.user # v
        BY <1>3, <3>2 DEF About
      <4>3. \A i \in Place : /\ i \in Place'
                             /\ Granted(i, v, p) => Granted(i, v, p)'
                             /\ Revoked(i, v, p) => Revoked(i, v, p)'
        BY <1>3, <4>2, ToldKept DEF TypeInv
      <4>4. \A i \in Place' : Adds(i, v, p)' => i \in Place /\ Adds(i, v, p)
        BY <1>3, <4>2, PlaceGrows DEF TypeInv, Adds
      <4> QED BY <4>1, <4>3, <4>4 DEF LogInv, MappingsTold
    <3> QED BY <3>1, <3>2
  <2> QED BY <2>2 DEF MappingsTold
<1> QED BY <1>1, <1>3, <1>4, <1>6, <1>7, <1>8, <1>9, SentKeeps DEF LogInv

LEMMA EditUserLog ==
  ASSUME TypeInv, LogInv, NEW u \in User, NEW A \in SUBSET Project, NEW R \in SUBSET Project,
         EditUser(u, A, R)
  PROVE  LogInv'
<1>1. /\ u \in Present
      /\ A \subseteq Existing \ mapping[u] /\ R \subseteq mapping[u]
      /\ mapping' = [mapping EXCEPT ![u] = (@ \cup A) \ R]
      /\ UNCHANGED <<user, project, changed>>
      /\ \/ A # {} /\ SendUser(u, "edited", A)
         \/ A = {} /\ R # {} /\ SendUser(u, "removed", R)
  BY DEF EditUser
<1>2. /\ user \in [User -> Lifetime] /\ mapping \in [User -> SUBSET Project]
      /\ R \subseteq Existing
  BY <1>1 DEF TypeInv, TypeOK, MappingsExist
<1>3. PICK key \in {"edited", "removed"}, S \in {A, R} :
        /\ SendUser(u, key, S)
        /\ key = "edited" => S = A
        /\ key = "removed" => S = R /\ A = {}
  BY <1>1
<1>4. S \subseteq Existing
  BY <1>1, <1>2, <1>3
<1>5. PICK e : About(e, u, key, S) /\ Told(e)
  BY <1>3, <1>4, SentUser
<1>6. topic'["project"] = topic["project"]
  BY <1>3, <1>4, SentUser
<1>7. UsersTold'
  BY <1>1, <1>3, <1>5, PlaceGrows DEF TypeInv, LogInv, UsersTold, About, Present
<1>8. CreatedFirst'
  BY <1>3, <1>5, PlaceGrows DEF TypeInv, LogInv, CreatedFirst, About, Place
<1>9. CreationTold'
  <2>1. \A i \in Place : i \in Place' /\ Log'[i] = Log[i]
    BY <1>5, LogType DEF TypeInv, Told, Place
  <2> QED BY <1>1, <2>1 DEF LogInv, CreationTold
<1>10. MappingsTold'
  <2>1. PICK k : k = Len(Log) + 1
    OBVIOUS
  <2>2. ASSUME NEW v \in Present', NEW p \in Project
        PROVE  /\ p \in mapping'[v] => \E i \in Place' : Granted(i, v, p)'
               /\ p \notin mapping'[v] /\ (\E i \in Place' : Adds(i, v, p)') =>
                    \E i \in Place' : Revoked(i, v, p)'
    <3> v \in Present
      BY <1>1 DEF Present
    <3>1. \A i \in Place : /\ i \in Place'
                           /\ Granted(i, v, p) => \/ Granted(i, v, p)'
                                                  \/ v = u /\ key = "removed" /\ p \in S
                           /\ Revoked(i, v, p) => \/ Revoked(i, v, p)'
                                                  \/ v = u /\ key = "edited" /\ p \in S
      BY <1>3, <1>5, ToldKept DEF TypeInv, About
    <3>2. \A i \in Place' : Adds(i, v, p)' => \/ i \in Place /\ Adds(i, v, p)
                                              \/ v = u /\ key = "edited" /\ p \in S
      BY <1>3, <1>5, PlaceGrows DEF TypeInv, Adds, About
    <3>3. CASE v = u /\ p \in A
      <4>1. p \in mapping'[v] /\ key = "edited" /\ S = A
        BY <1>1, <1>2, <1>3, <3>3
      <4>2. k \in Place' /\ Granted(k, v, p)'
        BY <1>5, <2>1, <3>3, <4>1, LastTold DEF TypeInv, About
      <4> QED BY <4>1, <4>2
    <3>4. CASE v = u /\ p \in R
      <4>1. p \notin mapping'[v] /\ p \notin A
        BY <1>1, <1>2, <3>4
      <4>2. k \in Place' /\ Revoked(k, v, p)'
        BY <1>3, <1>5, <2>1, <3>4, <4>1, LastTold DEF TypeInv, About
      <4> QED BY <4>1, <4>2
    <3>5. CASE v # u \/ (p \notin A /\ p \notin R)
      <4>1. p \in mapping'[v] <=> p \in mapping[v]
        BY <1>1, <1>2, <3>5
      <4>2. ~(v = u /\ p \in S)
        BY <1>3, <3>5
      <4> QED BY <3>1, <3>2, <4>1, <4>2 DEF LogInv, MappingsTold
    <3> QED BY <3>3, <3>4, <3>5
  <2> QED BY <2>2 DEF MappingsTold
<1> QED BY <1>1, <1>4, <1>5, <1>6, <1>7, <1>8, <1>9, <1>10, SentKeeps DEF LogInv

LEMMA DeleteUserLog ==
  ASSUME TypeInv, LogInv, NEW u \in User, DeleteUser(u)
  PROVE  LogInv'
<1>1. /\ u \in Present
      /\ user' = [user EXCEPT ![u] = "gone"]
      /\ mapping' = [mapping EXCEPT ![u] = {}]
      /\ SendUser(u, "deleted", {})
      /\ UNCHANGED <<project, changed>>
  BY DEF DeleteUser
<1>2. /\ user \in [User -> Lifetime] /\ mapping \in [User -> SUBSET Project]
  BY DEF TypeInv, TypeOK
<1>3. PICK e : About(e, u, "deleted", {}) /\ Told(e)
  BY <1>1, SentUser
<1>4. topic'["project"] = topic["project"]
  BY <1>1, SentUser
<1>5. UsersTold'
  BY <1>1, <1>2, <1>3, PlaceGrows DEF TypeInv, LogInv, UsersTold, About
<1>6. CreatedFirst'
  BY <1>3, PlaceGrows DEF TypeInv, LogInv, CreatedFirst, About, Place
<1>7. CreationTold'
  <2>1. \A i \in Place : i \in Place' /\ Log'[i] = Log[i]
    BY <1>3, LogType DEF TypeInv, Told, Place
  <2> QED BY <1>1, <1>2, <2>1 DEF LogInv, CreationTold, Present
<1>8. MappingsTold'
  <2>1. ASSUME NEW v \in Present', NEW p \in Project
        PROVE  /\ p \in mapping'[v] => \E i \in Place' : Granted(i, v, p)'
               /\ p \notin mapping'[v] /\ (\E i \in Place' : Adds(i, v, p)') =>
                    \E i \in Place' : Revoked(i, v, p)'
    <3>1. v # u /\ v \in Present /\ mapping'[v] = mapping[v]
      BY <1>1, <1>2 DEF Present
    <3>2. e.user # v
      BY <1>3, <3>1 DEF About
    <3>3. \A i \in Place : /\ i \in Place'
                           /\ Granted(i, v, p) => Granted(i, v, p)'
                           /\ Revoked(i, v, p) => Revoked(i, v, p)'
      BY <1>3, <3>2, ToldKept DEF TypeInv
    <3>4. \A i \in Place' : Adds(i, v, p)' => i \in Place /\ Adds(i, v, p)
      BY <1>3, <3>2, PlaceGrows DEF TypeInv, Adds
    <3> QED BY <3>1, <3>3, <3>4 DEF LogInv, MappingsTold
  <2> QED BY <2>1 DEF MappingsTold
<1> QED BY <1>1, <1>3, <1>4, <1>5, <1>6, <1>7, <1>8, SentKeeps DEF LogInv

LEMMA LogUnchanged ==
  ASSUME UNCHANGED <<Log, user, mapping>>
  PROVE  /\ UsersTold' <=> UsersTold
         /\ CreatedFirst' <=> CreatedFirst
         /\ CreationTold' <=> CreationTold
         /\ FormsTold' <=> FormsTold
         /\ MappingsTold' <=> MappingsTold
<1>1. /\ Place' = Place /\ Present' = Present
      /\ \A i, u, p : /\ Granted(i, u, p)' <=> Granted(i, u, p)
                      /\ Revoked(i, u, p)' <=> Revoked(i, u, p)
                      /\ Adds(i, u, p)' <=> Adds(i, u, p)
  BY DEF Place, Present, Granted, Revoked, Adds, Takes
<1> QED BY <1>1 DEF UsersTold, CreatedFirst, CreationTold, FormsTold, MappingsTold

LEMMA ProjectLog ==
  ASSUME TypeInv, LogInv, NEW p \in Project, NEW n \in Name,
         CreateProject(p, n) \/ RenameProject(p, n) \/ DeleteProject(p)
  PROVE  LogInv'
<1>1. PICK e \in TeamEvent :
        /\ Send("project", e)
        /\ e.key = "edited" => e.old \in changed' /\ e.new \in changed'
        /\ e.key = "deleted" => e.old \in changed'
  BY ExistingNamed DEF CreateProject, RenameProject, DeleteProject, TeamEvent
<1>2. Log' = Log /\ topic'["project"] = Append(topic["project"], e)
  BY <1>1, SentTeam
<1>3. UNCHANGED <<user, mapping>> /\ changed \subseteq changed'
  BY DEF CreateProject, RenameProject, DeleteProject
<1>4. TeamsTold'
  <2>1. topic["project"] \in Seq(TeamEvent)
    BY DEF TypeInv, TypeOK
  <2>2. \A i \in 1..Len(topic'["project"]) :
          \/ i \in 1..Len(topic["project"]) /\ topic'["project"][i] = topic["project"][i]
          \/ topic'["project"][i] = e
    BY <1>2, <2>1
  <2> QED BY <1>1, <1>3, <2>2 DEF LogInv, TeamsTold
<1>5. project \in [Project -> Name \cup NoName] /\ changed \subseteq Name
  BY DEF TypeInv, TypeOK
<1>6. NamesUnique'
  <2>1. CASE CreateProject(p, n) \/ RenameProject(p, n)
    BY <1>5, <2>1 DEF CreateProject, RenameProject, NamesOf, Existing, LogInv, NamesUnique
  <2>2. CASE DeleteProject(p)
    BY <1>5, <2>2, NameAssumption DEF DeleteProject, LogInv, NamesUnique, NoName
  <2> QED BY <2>1, <2>2
<1>7. NamesTold'
  <2> SUFFICES ASSUME NEW i \in Place, NEW q \in Projects(Log[i])
               PROVE  \/ Log[i].names[q] = project'[q]
                      \/ /\ Log[i].names[q] \in changed'
                         /\ project'[q] \in changed' \cup {"gone"}
    BY <1>2 DEF NamesTold, Place
  <2>1. /\ q \in Project
        /\ Log[i].names[q] \in Name
    <3>1. Log[i] \in UserEvent
      BY LogType DEF TypeInv, Place
    <3> QED BY <3>1 DEF UserEvent, Mapped, Projects
  <2>2. \/ Log[i].names[q] = project[q]
        \/ Log[i].names[q] \in changed /\ project[q] \in changed \cup {"gone"}
    BY DEF LogInv, NamesTold
  <2>3. CASE q # p
    BY <1>3, <1>5, <2>1, <2>2, <2>3 DEF CreateProject, RenameProject, DeleteProject
  <2>4. CASE q = p /\ CreateProject(p, n)
    BY <1>5, <2>1, <2>2, <2>4, NameAssumption DEF CreateProject, NoName
  <2>5. CASE q = p /\ RenameProject(p, n)
    BY <1>5, <2>1, <2>2, <2>5 DEF RenameProject
  <2>6. CASE q = p /\ DeleteProject(p)
    BY <1>5, <2>1, <2>2, <2>6 DEF DeleteProject
  <2> QED BY <2>3, <2>4, <2>5, <2>6
<1> QED BY <1>2, <1>3, <1>4, <1>6, <1>7, LogUnchanged DEF LogInv

\* OSM is as it was: so steps of the consumer and of the loop.
LEMMA RestLog ==
  ASSUME LogInv, UNCHANGED <<topic, user, project, mapping, changed>>
  PROVE  LogInv'
<1>1. UNCHANGED <<Log, user, mapping>>
  BY DEF Log
<1>2. NamesTold' /\ NamesUnique' /\ TeamsTold'
  BY DEF LogInv, NamesTold, NamesUnique, TeamsTold, Log, Place
<1> QED BY <1>1, <1>2, LogUnchanged DEF LogInv

\* Every step is one of OSM, of the consumer or of the loop.
LEMMA StepKinds ==
  ASSUME [Next]_vars
  PROVE  \/ \E u \in User, S \in SUBSET Project : CreateUser(u, S)
         \/ \E u \in User, A, R \in SUBSET Project : EditUser(u, A, R)
         \/ \E u \in User : DeleteUser(u)
         \/ \E p \in Project, n \in Name : CreateProject(p, n) \/ RenameProject(p, n)
         \/ \E p \in Project : DeleteProject(p)
         \/ Consume \/ Loop \/ LoseSubscription \/ Crash
         \/ UNCHANGED vars
BY DEF Next, Consume, Loop

LEMMA OsmStands ==
  ASSUME Consume \/ Loop \/ LoseSubscription \/ Crash \/ UNCHANGED vars
  PROVE  UNCHANGED <<topic, user, project, mapping, changed>>
<1>1. ASSUME NEW t, Return(t) PROVE UNCHANGED topic
  BY <1>1 DEF Return
<1>2. CASE Consume
  BY <1>1, <1>2
     DEF Consume, HandleTeam, CreateGrafanaUser, Resolve, LookUp, Join, RemoveMembers,
         DeleteGrafanaUser, Raise, Finish, osm, bus
<1>3. CASE Loop
  BY <1>3 DEF Loop, ListUsers, ListGrafanaUsers, DeleteObsolete, EndCleanup, osm, bus
<1>4. CASE LoseSubscription \/ Crash \/ UNCHANGED vars
  BY <1>4 DEF LoseSubscription, Crash, vars, osm, bus
<1> QED BY <1>2, <1>3, <1>4

LEMMA LogStep == TypeInv /\ LogInv /\ [Next]_vars => LogInv'
<1> SUFFICES ASSUME TypeInv, LogInv, [Next]_vars PROVE LogInv'
  OBVIOUS
<1>1. CASE \E p \in Project : DeleteProject(p)
  <2>1. PICK p \in Project : DeleteProject(p)
    BY <1>1
  <2>2. project[p] \in Name
    BY <2>1, ExistingNamed DEF DeleteProject
  <2> QED BY <2>1, <2>2, ProjectLog
<1> QED BY <1>1, StepKinds, CreateUserLog, EditUserLog, DeleteUserLog, ProjectLog,
           OsmStands, RestLog

-----------------------------------------------------------------------------
(* Grafana and what the handler has in hand.                               *)

MembersKnown == \A n \in Name : members[n] \subseteq users
UsersKnown == \A u \in users : user[u] # "absent"
MembersPlaced ==
  \A n \in Name : members[n] # {} => n \in teams /\ n \in changed \cup NamesOf(Existing)
KindInHand == pc # "idle" => Event.key \in {"created", "edited"}
TodoMapped == pc \in {"look_up", "join"} => todo \subseteq Projects(Event)
TeamMeant ==
  pc = "join" => teamName \in changed \/ \E p \in Projects(Event) : teamName = project[p]

\* The handler relies on team_list, which it got before the user left some teams.
StillMember ==
  pc = "join" /\ lost[Event.user] = "no" =>
    Event.user \in users /\ \A n \in teamList \cap projList : Event.user \in members[n]

GrafanaInv ==
  /\ MembersKnown /\ UsersKnown /\ MembersPlaced
  /\ KindInHand /\ TodoMapped /\ TeamMeant /\ StillMember

LEMMA EventAt ==
  ASSUME TypeInv, Unhandled("users")
  PROVE  /\ Now \in Place /\ Event = Log[Now] /\ Event \in UserEvent
         /\ Event.user \in User
<1>1. handled["users"] \in Nat /\ Len(Log) \in Nat
  BY LogType DEF TypeInv, TypeOK, Topic
<1>2. Event \in UserEvent
  BY TypeParts, EventType
<1> QED BY <1>1, <1>2 DEF Unhandled, Now, Place, Log, Event, UserEvent

\* The event in hand stays the same while others are sent.
LEMMA EventStands ==
  ASSUME TypeInv, pc # "idle", handled' = handled,
         Log' = Log \/ \E e : Told(e)
  PROVE  Event' = Event
<1>1. Unhandled("users")
  BY DEF TypeInv, InHand
<1>2. Now \in Place /\ Event = Log[Now] /\ Event' = Log'[Now]
  BY <1>1, EventAt DEF Event, Now, Log
<1> QED BY <1>2 DEF Told

LEMMA OsmGrafana ==
  ASSUME TypeInv, GrafanaInv,
         UNCHANGED <<handled, grafana, handler, lost>>,
         Log' = Log \/ \E e : Told(e),
         \A u \in User : user[u] # "absent" => user'[u] # "absent",
         changed \subseteq changed',
         \A p \in Project : project[p] \in Name => project[p] \in changed' \/ project'[p] = project[p]
  PROVE  GrafanaInv'
<1>1. pc # "idle" => Event' = Event
  BY EventStands
<1>2. UNCHANGED <<users, teams, members, pc, projList, todo, teamName, teamList, lost>>
  BY DEF grafana, handler
<1>3. NamesOf(Existing) \subseteq changed' \cup NamesOf(Existing)'
  BY ExistingNamed DEF NamesOf, Existing
<1>4. MembersKnown' /\ MembersPlaced'
  BY <1>2, <1>3 DEF GrafanaInv, MembersKnown, MembersPlaced
<1>5. UsersKnown'
  BY <1>2 DEF GrafanaInv, UsersKnown, TypeInv, TypeOK
<1>6. KindInHand' /\ TodoMapped' /\ StillMember'
  BY <1>1, <1>2 DEF GrafanaInv, KindInHand, TodoMapped, StillMember
<1>7. TeamMeant'
  <2> SUFFICES ASSUME pc = "join"
               PROVE  teamName \in changed' \/ \E p \in Projects(Event) : teamName = project'[p]
    BY <1>1, <1>2 DEF TeamMeant
  <2>1. teamName \in Name
    BY DEF TypeInv, Named
  <2>2. CASE teamName \in changed
    BY <2>2
  <2>3. CASE \E p \in Projects(Event) : teamName = project[p]
    <3>1. PICK p \in Projects(Event) : teamName = project[p]
      BY <2>3
    <3>2. p \in Project
      BY DEF Projects
    <3> QED BY <2>1, <3>1, <3>2
  <2> QED BY <2>2, <2>3 DEF GrafanaInv, TeamMeant
<1> QED BY <1>4, <1>5, <1>6, <1>7 DEF GrafanaInv

LEMMA OsmStepGrafana ==
  ASSUME TypeInv, GrafanaInv,
         \/ \E u \in User, S \in SUBSET Project : CreateUser(u, S)
         \/ \E u \in User, A, R \in SUBSET Project : EditUser(u, A, R)
         \/ \E u \in User : DeleteUser(u)
         \/ \E p \in Project, n \in Name : CreateProject(p, n) \/ RenameProject(p, n)
         \/ \E p \in Project : DeleteProject(p)
  PROVE  GrafanaInv'
<1>1. ASSUME NEW u \in User, NEW key \in {"created", "edited", "removed", "deleted"},
             NEW S \in SUBSET Existing, SendUser(u, key, S)
      PROVE  UNCHANGED <<handled, grafana, handler, lost>> /\ \E e : Told(e)
  BY <1>1, SentUser
<1>2. ASSUME NEW e, Send("project", e)
      PROVE  UNCHANGED <<handled, grafana, handler, lost>> /\ Log' = Log
  BY <1>2, SentTeam
<1>3. project \in [Project -> Name \cup NoName] /\ user \in [User -> Lifetime]
  BY DEF TypeInv, TypeOK
<1>4. ASSUME NEW u \in User, NEW S \in SUBSET Project, CreateUser(u, S) PROVE GrafanaInv'
  BY <1>1, <1>3, <1>4, OsmGrafana DEF CreateUser
<1>5. ASSUME NEW u \in User, NEW A \in SUBSET Project, NEW R \in SUBSET Project, EditUser(u, A, R)
      PROVE  GrafanaInv'
  <2>1. A \subseteq Existing /\ R \subseteq Existing
    BY <1>5 DEF EditUser, TypeInv, MappingsExist
  <2>2. UNCHANGED <<handled, grafana, handler, lost>> /\ \E e : Told(e)
    BY <1>1, <1>5, <2>1 DEF EditUser
  <2> QED BY <1>5, <2>2, OsmGrafana DEF EditUser
<1>6. ASSUME NEW u \in User, DeleteUser(u) PROVE GrafanaInv'
  BY <1>1, <1>3, <1>6, OsmGrafana DEF DeleteUser
<1>7. ASSUME NEW p \in Project, NEW n \in Name, CreateProject(p, n) PROVE GrafanaInv'
  BY <1>2, <1>3, <1>7, NameAssumption, OsmGrafana DEF CreateProject, NoName
<1>8. ASSUME NEW p \in Project, NEW n \in Name, RenameProject(p, n) PROVE GrafanaInv'
  BY <1>2, <1>3, <1>8, OsmGrafana DEF RenameProject
<1>9. ASSUME NEW p \in Project, DeleteProject(p) PROVE GrafanaInv'
  BY <1>2, <1>3, <1>9, OsmGrafana DEF DeleteProject
<1> QED BY <1>4, <1>5, <1>6, <1>7, <1>8, <1>9

\* An idle handler has nothing in hand.
LEMMA IdleGrafana ==
  ASSUME GrafanaInv, pc' = "idle", UNCHANGED <<user, project, changed>>,
         MembersKnown', UsersKnown', MembersPlaced'
  PROVE  GrafanaInv'
BY DEF GrafanaInv, KindInHand, TodoMapped, TeamMeant, StillMember

\* Members that leave disturb nothing.
LEMMA FewerMembers ==
  ASSUME TypeInv, GrafanaInv, UNCHANGED <<user, project, changed, teams>>,
         users \subseteq users', \A u \in users' : u \in users \/ user[u] # "absent",
         \E u, S : members' = Without(u, S)
  PROVE  MembersKnown' /\ UsersKnown' /\ MembersPlaced'
BY DEF GrafanaInv, MembersKnown, UsersKnown, MembersPlaced, Without, NamesOf, Existing

LEMMA MembersStand ==
  ASSUME TypeInv, GrafanaInv, UNCHANGED <<user, project, changed, members>>,
         teams \subseteq teams',
         users \subseteq users', \A u \in users' : u \in users \/ user[u] # "absent"
  PROVE  MembersKnown' /\ UsersKnown' /\ MembersPlaced'
BY DEF GrafanaInv, MembersKnown, UsersKnown, MembersPlaced, NamesOf, Existing

LEMMA RemovedStep ==
  ASSUME TypeInv, GrafanaInv, UNCHANGED <<user, project, changed, teams>>,
         NEW u, Removed(u)
  PROVE  MembersKnown' /\ UsersKnown' /\ MembersPlaced'
BY DEF Removed, GrafanaInv, MembersKnown, UsersKnown, MembersPlaced, Without, NamesOf, Existing

LEMMA HandleTeamGrafana ==
  ASSUME TypeInv, LogInv, GrafanaInv, HandleTeam
  PROVE  GrafanaInv'
<1> DEFINE e == topic["project"][handled["project"] + 1]
<1>1. /\ e \in TeamEvent
      /\ e.key = "edited" => e.old \in changed /\ e.new \in changed
  <2>1. handled["project"] + 1 \in 1..Len(topic["project"])
    BY DEF HandleTeam, Unhandled, TypeInv, TypeOK, Topic
  <2> QED BY <2>1 DEF TypeInv, TypeOK, LogInv, TeamsTold
<1>2. /\ pc' = "idle" /\ UNCHANGED <<user, project, changed, users>>
      /\ \/ CreateTeam(e.new)
         \/ DeleteTeam(e.old)
         \/ e.key = "edited" /\ RenameTeam(e.old, e.new)
         \/ UNCHANGED <<teams, members>>
  BY DEF HandleTeam, Return, osm
<1>3. e.old \in Name /\ e.new \in Name
  BY <1>1 DEF TeamEvent
<1> HIDE DEF e
<1>4. CASE CreateTeam(e.new) \/ UNCHANGED <<teams, members>>
  BY <1>2, <1>4, MembersStand, IdleGrafana DEF CreateTeam
<1>5. CASE DeleteTeam(e.old)
  <2>1. MembersKnown' /\ UsersKnown' /\ MembersPlaced'
    BY <1>2, <1>3, <1>5
       DEF DeleteTeam, GrafanaInv, MembersKnown, UsersKnown, MembersPlaced, NamesOf, Existing,
           TypeInv, TypeOK
  <2> QED BY <1>2, <2>1, IdleGrafana
<1>6. CASE e.key = "edited" /\ RenameTeam(e.old, e.new)
  <2>1. CASE UNCHANGED <<teams, members>>
    BY <1>2, <2>1, MembersStand, IdleGrafana
  <2>2. CASE teams' = (teams \ {e.old}) \cup {e.new} /\ members' = Renamed(e.old, e.new)
    <3>1. MembersKnown' /\ UsersKnown'
      BY <1>2, <1>3, <2>2 DEF Renamed, GrafanaInv, MembersKnown, UsersKnown
    <3>2. MembersPlaced'
      BY <1>1, <1>2, <1>3, <1>6, <2>2 DEF Renamed, GrafanaInv, MembersPlaced, NamesOf, Existing
    <3> QED BY <1>2, <3>1, <3>2, IdleGrafana
  <2> QED BY <1>6, <2>1, <2>2 DEF RenameTeam
<1> QED BY <1>2, <1>4, <1>5, <1>6

\* The user of an event is known to OSM.
LEMMA EventUser ==
  ASSUME TypeInv, LogInv, Unhandled("users")
  PROVE  user[Event.user] # "absent"
BY EventAt DEF LogInv, UsersTold

LEMMA ReadsUnhandled ==
  ASSUME TypeInv, pc # "idle" \/ \E key : Reads(key)
  PROVE  Unhandled("users")
BY DEF TypeInv, InHand, Reads

LEMMA CreateGrafanaUserGrafana ==
  ASSUME TypeInv, LogInv, GrafanaInv, CreateGrafanaUser
  PROVE  GrafanaInv'
<1>1. /\ Event.key = "created" /\ pc = "idle"
      /\ UNCHANGED <<user, project, changed, topic, teams, members>>
      /\ users' \in {users, users \cup {Event.user}}
      /\ pc' = "idle" \/ (pc' = "resolve" /\ UNCHANGED handled)
  BY DEF CreateGrafanaUser, Reads, Raise, Finish, Return, osm, bus
<1>2. user[Event.user] # "absent"
  BY EventUser, ReadsUnhandled DEF CreateGrafanaUser
<1>3. MembersKnown' /\ UsersKnown' /\ MembersPlaced'
  BY <1>1, <1>2, MembersStand
<1>4. CASE pc' = "idle"
  BY <1>1, <1>3, <1>4, IdleGrafana
<1>5. CASE pc' = "resolve" /\ UNCHANGED handled
  BY <1>1, <1>3, <1>5 DEF GrafanaInv, KindInHand, TodoMapped, TeamMeant, StillMember, Event
<1> QED BY <1>1, <1>4, <1>5

LEMMA ResolveGrafana ==
  ASSUME TypeInv, LogInv, GrafanaInv, Resolve
  PROVE  GrafanaInv'
<1>1. /\ UNCHANGED <<user, project, changed, topic, teams, members, users>>
      /\ pc' = "idle" \/ (pc' = "look_up" /\ todo' = Projects(Event) /\ UNCHANGED handled)
  BY DEF Resolve, Raise, Return, osm, bus, grafana
<1>2. MembersKnown' /\ UsersKnown' /\ MembersPlaced'
  BY <1>1, MembersStand
<1>3. Event.key \in {"created", "edited"}
  BY DEF Resolve, Reads, GrafanaInv, KindInHand
<1>4. CASE pc' = "idle"
  BY <1>1, <1>2, <1>4, IdleGrafana
<1>5. CASE pc' = "look_up" /\ todo' = Projects(Event) /\ UNCHANGED handled
  <2>1. Event' = Event
    BY <1>1, <1>5 DEF Event
  <2>2. Projects(Event)' = Projects(Event)
    BY <2>1 DEF Projects
  <2> QED BY <1>2, <1>3, <1>5, <2>1, <2>2
       DEF GrafanaInv, KindInHand, TodoMapped, TeamMeant, StillMember
<1> QED BY <1>1, <1>4, <1>5

\* The team of a mapping is that of a project of the event, or its name changed hands.
LEMMA TeamsForMeant ==
  ASSUME TypeInv, LogInv, Unhandled("users"), NEW p \in Projects(Event), NEW n \in TeamsFor(p)
  PROVE  n \in changed \/ n = project[p]
BY EventAt DEF TeamsFor, LogInv, NamesTold

LEMMA LookUpGrafana ==
  ASSUME TypeInv, LogInv, GrafanaInv, NEW p \in Project, LookUp(p)
  PROVE  GrafanaInv'
<1>1. /\ UNCHANGED <<user, project, changed, topic, teams>>
      /\ pc = "look_up" /\ p \in todo
      /\ users' \in {users, users \cup {Event.user}}
      /\ UNCHANGED members \/ \E S : members' = Without(Event.user, S)
      /\ \/ pc' = "idle"
         \/ /\ teamName' \in TeamsFor(p) /\ users' = users \cup {Event.user}
            /\ teamList' = TeamsOf(Event.user)
            /\ members' = Without(Event.user, teamList' \ projList)
            /\ todo' = todo \ {p} /\ pc' = "join"
            /\ UNCHANGED <<handled, projList, lost>>
  BY DEF LookUp, Raise, Return, osm, bus, grafana
<1>2. Unhandled("users") /\ user[Event.user] # "absent"
  BY <1>1, EventUser, ReadsUnhandled
<1>3. MembersKnown' /\ UsersKnown' /\ MembersPlaced'
  <2>1. CASE UNCHANGED members
    BY <1>1, <1>2, <2>1, MembersStand
  <2>2. CASE \E S : members' = Without(Event.user, S)
    BY <1>1, <1>2, <2>2, FewerMembers
  <2> QED BY <1>1, <2>1, <2>2
<1>4. CASE pc' = "idle"
  BY <1>1, <1>3, <1>4, IdleGrafana
<1>5. CASE pc' # "idle"
  <2>1. /\ teamName' \in TeamsFor(p) /\ users' = users \cup {Event.user}
        /\ teamList' = TeamsOf(Event.user)
        /\ members' = Without(Event.user, teamList' \ projList)
        /\ todo' = todo \ {p} /\ pc' = "join"
        /\ UNCHANGED <<handled, projList, lost>>
    BY <1>1, <1>5
  <2>2. Event' = Event
    BY <1>1, <2>1 DEF Event
  <2>3. Projects(Event)' = Projects(Event) /\ p \in Projects(Event)
    BY <1>1, <2>2 DEF Projects, GrafanaInv, TodoMapped
  <2>4. KindInHand' /\ TodoMapped'
    BY <1>1, <2>1, <2>2, <2>3 DEF GrafanaInv, KindInHand, TodoMapped
  <2>5. TeamMeant'
    BY <1>1, <1>2, <2>1, <2>3, TeamsForMeant DEF TeamMeant
  <2>6. \A n \in teamList' \cap projList' : Event.user \in members'[n]
    BY <2>1 DEF TeamsOf, Without
  <2>7. StillMember'
    BY <2>1, <2>2, <2>6 DEF StillMember
  <2> QED BY <1>3, <2>4, <2>5, <2>7 DEF GrafanaInv
<1> QED BY <1>4, <1>5

LEMMA JoinGrafana ==
  ASSUME TypeInv, LogInv, GrafanaInv, Join
  PROVE  GrafanaInv'
<1>1. /\ UNCHANGED <<user, project, changed, topic, users>>
      /\ pc = "join"
      /\ \/ UNCHANGED <<teams, members>>
         \/ /\ teams' = teams \cup ({teamName} \ {"admin"})
            /\ members' \in {members, Joined}
      /\ \/ pc' = "idle"
         \/ pc' = "look_up" /\ UNCHANGED <<handled, todo>>
  BY DEF Join, Finish, Raise, Return, osm, bus
<1>2. MembersKnown' /\ UsersKnown' /\ MembersPlaced'
  <2>1. CASE UNCHANGED members
    BY <1>1, <2>1, MembersStand
  <2>2. CASE members' = Joined /\ teams' = teams \cup ({teamName} \ {"admin"})
    <3>1. CASE UNCHANGED members
      BY <1>1, <2>2, <3>1, MembersStand
    <3>2. CASE members' # members
      <4>1. /\ teamName # "admin" /\ Event.user \in users
            /\ members' = [members EXCEPT ![teamName] = @ \cup {Event.user}]
        BY <2>2, <3>2 DEF Joined
      <4>2. teamName \in Name
        BY <1>1 DEF TypeInv, Named
      <4>3. teamName \in changed \cup NamesOf(Existing)
        BY <1>1, <4>2 DEF GrafanaInv, TeamMeant, NamesOf, Existing, Projects
      <4>4. MembersKnown' /\ UsersKnown'
        BY <1>1, <4>1, <4>2 DEF GrafanaInv, MembersKnown, UsersKnown, TypeInv, TypeOK
      <4>5. MembersPlaced'
        BY <1>1, <2>2, <4>1, <4>2, <4>3
           DEF GrafanaInv, MembersPlaced, TypeInv, TypeOK, NamesOf, Existing
      <4> QED BY <4>4, <4>5
    <3> QED BY <3>1, <3>2
  <2> QED BY <1>1, <2>1, <2>2
<1>3. CASE pc' = "idle"
  BY <1>1, <1>2, <1>3, IdleGrafana
<1>4. CASE pc' = "look_up" /\ UNCHANGED <<handled, todo>>
  <2>1. Event' = Event
    BY <1>1, <1>4 DEF Event
  <2>2. Projects(Event)' = Projects(Event)
    BY <2>1 DEF Projects
  <2> QED BY <1>1, <1>2, <1>4, <2>1, <2>2
       DEF GrafanaInv, KindInHand, TodoMapped, TeamMeant, StillMember
<1> QED BY <1>1, <1>3, <1>4

LEMMA RemoveMembersGrafana ==
  ASSUME TypeInv, LogInv, GrafanaInv, RemoveMembers
  PROVE  GrafanaInv'
<1>1. /\ UNCHANGED <<user, project, changed, topic, users, teams>>
      /\ UNCHANGED members \/ \E S : members' = Without(Event.user, S)
      /\ pc' = "idle"
  BY DEF RemoveMembers, Finish, Raise, Return, osm
<1>2. MembersKnown' /\ UsersKnown' /\ MembersPlaced'
  <2>1. CASE UNCHANGED members
    BY <1>1, <2>1, MembersStand
  <2>2. CASE \E S : members' = Without(Event.user, S)
    BY <1>1, <2>2, FewerMembers
  <2> QED BY <1>1, <2>1, <2>2
<1> QED BY <1>1, <1>2, IdleGrafana

LEMMA DeleteGrafanaUserGrafana ==
  ASSUME TypeInv, GrafanaInv, DeleteGrafanaUser
  PROVE  GrafanaInv'
<1>1. /\ UNCHANGED <<user, project, changed, topic, teams>>
      /\ UNCHANGED <<users, members>> \/ Removed(Event.user)
      /\ pc' = "idle"
  BY DEF DeleteGrafanaUser, Finish, Raise, Return, osm
<1>2. MembersKnown' /\ UsersKnown' /\ MembersPlaced'
  BY <1>1, MembersStand, RemovedStep
<1> QED BY <1>1, <1>2, IdleGrafana

LEMMA LoopGrafana ==
  ASSUME TypeInv, GrafanaInv, Loop
  PROVE  GrafanaInv'
<1>1. /\ UNCHANGED <<user, project, changed, topic, handled, teams>>
      /\ UNCHANGED <<pc, projList, todo, teamName, teamList>>
  BY DEF Loop, ListUsers, ListGrafanaUsers, DeleteObsolete, EndCleanup, osm, bus, handler, grafana
<1>2. Event' = Event /\ Projects(Event)' = Projects(Event)
  BY <1>1 DEF Event, Projects
<1>3. CASE UNCHANGED <<users, members, lost>>
  <2>1. MembersKnown' /\ UsersKnown' /\ MembersPlaced'
    BY <1>1, <1>3, MembersStand
  <2> QED BY <1>1, <1>2, <1>3, <2>1
       DEF GrafanaInv, KindInHand, TodoMapped, TeamMeant, StillMember
<1>4. ASSUME NEW u \in User, DeleteObsolete(u) PROVE GrafanaInv'
  <2>1. /\ Removed(u)
        /\ lost' = IF u \in users THEN [lost EXCEPT ![u] = "cleaned"] ELSE lost
    BY <1>4 DEF DeleteObsolete
  <2>2. MembersKnown' /\ UsersKnown' /\ MembersPlaced'
    BY <1>1, <2>1, RemovedStep
  <2>3. StillMember'
    <3> SUFFICES ASSUME pc = "join", lost'[Event.user] = "no"
                 PROVE  /\ Event.user \in users'
                        /\ \A n \in teamList \cap projList : Event.user \in members'[n]
      BY <1>1, <1>2 DEF StillMember
    <3>1. Event.user \in User /\ teamList \subseteq Name
      BY EventAt, ReadsUnhandled DEF TypeInv, TypeOK
    <3>2. lost[Event.user] = "no" /\ (u \in users => u # Event.user)
      BY <2>1, <3>1 DEF TypeInv, TypeOK
    <3>3. u # Event.user
      BY <3>2 DEF GrafanaInv, StillMember
    <3> QED BY <2>1, <3>1, <3>2, <3>3 DEF GrafanaInv, StillMember, Removed, Without
  <2> QED BY <1>1, <1>2, <2>2, <2>3 DEF GrafanaInv, KindInHand, TodoMapped, TeamMeant
<1> QED BY <1>3, <1>4 DEF Loop, ListUsers, ListGrafanaUsers, EndCleanup, grafana

LEMMA GrafanaStart == Init => GrafanaInv
BY DEF Init, GrafanaInv, MembersKnown, UsersKnown, MembersPlaced, KindInHand, TodoMapped,
       TeamMeant, StillMember

LEMMA GrafanaStep == TypeInv /\ LogInv /\ GrafanaInv /\ [Next]_vars => GrafanaInv'
<1> SUFFICES ASSUME TypeInv, LogInv, GrafanaInv, [Next]_vars PROVE GrafanaInv'
  OBVIOUS
<1>1. CASE Consume
  BY <1>1, HandleTeamGrafana, CreateGrafanaUserGrafana, ResolveGrafana, LookUpGrafana,
     JoinGrafana, RemoveMembersGrafana, DeleteGrafanaUserGrafana DEF Consume
<1>2. CASE LoseSubscription \/ Crash
  <2>1. /\ UNCHANGED <<user, project, changed, users, teams, members>>
        /\ pc' = "idle"
    BY <1>2 DEF LoseSubscription, Crash, osm, grafana, handler
  <2> QED BY <2>1, MembersStand, IdleGrafana
<1>3. CASE UNCHANGED vars
  <2>1. /\ UNCHANGED <<user, project, changed, users, teams, members, topic, handled>>
        /\ UNCHANGED <<pc, projList, todo, teamName, teamList, lost>>
    BY <1>3 DEF vars, osm, grafana, bus, handler
  <2>2. Event' = Event /\ Projects(Event)' = Projects(Event)
    BY <2>1 DEF Event, Projects
  <2>3. MembersKnown' /\ UsersKnown' /\ MembersPlaced'
    BY <2>1, MembersStand
  <2> QED BY <2>1, <2>2, <2>3 DEF GrafanaInv, KindInHand, TodoMapped, TeamMeant, StillMember
<1> QED BY <1>1, <1>2, <1>3, StepKinds, OsmStepGrafana, LoopGrafana

-----------------------------------------------------------------------------
(* Teams follow the mappings.  Where a user is in a team without its         *)
(* mapping, or the other way round, an event that is still to be handled     *)
(* has the last word on them, or is being handled and not there yet.         *)

HandledSent == handled["users"] <= Len(Log)

Leaves(u, p) ==
  \E i \in Place : /\ Revoked(i, u, p)
                   /\ \/ i > Now
                      \/ i = Now /\ pc = "idle"
                      \/ i = Now /\ pc = "look_up" /\ project[p] \notin projList

Joins(u, p) ==
  \E i \in Place : /\ Granted(i, u, p)
                   /\ \/ i > Now
                      \/ i = Now /\ pc \in {"idle", "resolve"}
                      \/ i = Now /\ p \in todo
                      \/ i = Now /\ pc = "join" /\ teamName = project[p]

JoinsLater(u, p) == \E i \in Place : Granted(i, u, p) /\ i > Now

\* The third part: proj_list may be older than a mapping, and then the user is taken
\* out of a team of its own, but joins it again later.
Mirrored(u, p) ==
  /\ p \notin mapping[u] /\ u \in members[project[p]] => Leaves(u, p)
  /\ p \in mapping[u] /\ u \notin members[project[p]] => Joins(u, p)
  /\ p \in mapping[u] /\ pc \in {"look_up", "join"} /\ Event.user = u
       /\ project[p] \notin projList => JoinsLater(u, p)

\* The name of p never changed hands, and it has a team.
Steady(p) == project[p] \notin changed \cup {"admin"}

MirrorInv ==
  /\ HandledSent
  /\ \A u \in Present, p \in Existing : lost[u] = "no" /\ Steady(p) => Mirrored(u, p)

Mirroring == TypeInv /\ LogInv /\ GrafanaInv /\ MirrorInv

LEMMA WordsStand ==
  ASSUME UNCHANGED topic
  PROVE  /\ Place' = Place /\ Log' = Log
         /\ \A i, u, p : /\ Granted(i, u, p)' <=> Granted(i, u, p)
                         /\ Revoked(i, u, p)' <=> Revoked(i, u, p)
BY DEF Place, Log, Granted, Revoked, Adds, Takes

\* An event about another user has no word on u.
LEMMA OthersWord ==
  ASSUME TypeInv, Unhandled("users"), NEW u, Event.user # u, NEW p
  PROVE  /\ \A i \in Place : Revoked(i, u, p) => i # Now
         /\ \A i \in Place : Granted(i, u, p) => i # Now
BY EventAt DEF Revoked, Granted, Adds, Takes

LEMMA NowType == ASSUME TypeInv PROVE Now \in Nat /\ \A i \in Place : i \in Nat
BY LogType DEF TypeInv, TypeOK, Topic, Now, Place

\* The handler is idle after an event, and what comes later has not been handled.
LEMMA Passed ==
  ASSUME TypeInv, UNCHANGED <<topic, project, mapping>>, pc' = "idle",
         handled'["users"] = Now, NEW u, NEW p,
         p \notin mapping[u] /\ u \in members'[project[p]] =>
           \E i \in Place : Revoked(i, u, p) /\ i > Now,
         p \in mapping[u] /\ u \notin members'[project[p]] => JoinsLater(u, p)
  PROVE  Mirrored(u, p)'
<1>1. Now' = Now + 1
  BY DEF Now
<1>2. \A i \in Place : i > Now => i > Now' \/ i = Now'
  BY <1>1, NowType
<1> QED BY <1>2, WordsStand DEF Mirrored, Leaves, Joins, JoinsLater

\* Events that are read once more are still to be handled.
LEMMA Back ==
  ASSUME TypeInv, UNCHANGED <<topic, project, mapping>>, pc' = "idle",
         handled'["users"] \in Nat, handled'["users"] <= handled["users"], NEW u, NEW p,
         u \in members'[project[p]] <=> u \in members[project[p]], Mirrored(u, p)
  PROVE  Mirrored(u, p)'
<1>1. Now' <= Now /\ Now' \in Nat
  BY NowType DEF Now, TypeInv, TypeOK, Topic
<1>2. \A i \in Place : i > Now \/ i = Now => i > Now' \/ i = Now'
  BY <1>1, NowType
<1> QED BY <1>2, WordsStand DEF Mirrored, Leaves, Joins

LEMMA Stands ==
  ASSUME TypeInv, UNCHANGED <<topic, project, mapping, handled, pc, projList, todo, teamName>>,
         NEW u, NEW p,
         u \in members'[project[p]] <=> u \in members[project[p]], Mirrored(u, p)
  PROVE  Mirrored(u, p)'
<1>1. Now' = Now /\ Event' = Event
  BY DEF Now, Event
<1> QED BY <1>1, WordsStand DEF Mirrored, Leaves, Joins, JoinsLater

\* Handling an event about another user.
LEMMA Others ==
  ASSUME TypeInv, UNCHANGED <<topic, project, mapping>>, Unhandled("users"),
         \/ UNCHANGED handled
         \/ handled'["users"] = Now /\ pc' = "idle",
         NEW u, Event.user # u, NEW p,
         u \in members'[project[p]] <=> u \in members[project[p]], Mirrored(u, p)
  PROVE  Mirrored(u, p)'
<1>1. /\ Leaves(u, p) => \E i \in Place : Revoked(i, u, p) /\ i > Now
      /\ Joins(u, p) => JoinsLater(u, p)
  BY OthersWord DEF Leaves, Joins, JoinsLater
<1>2. CASE UNCHANGED handled
  <2>1. Now' = Now /\ Event' = Event
    BY <1>2 DEF Now, Event
  <2> QED BY <1>1, <2>1, WordsStand DEF Mirrored, Leaves, Joins, JoinsLater
<1>3. CASE handled'["users"] = Now /\ pc' = "idle"
  BY <1>1, <1>3, Passed DEF Mirrored
<1> QED BY <1>2, <1>3

\* What was sent since does not concern u and p.
LEMMA SentAbout ==
  ASSUME TypeInv, NEW e, Told(e), UNCHANGED <<handled, grafana, handler, project>>,
         NEW u, NEW p, p \in mapping'[u] <=> p \in mapping[u],
         e.user = u => p \notin Projects(e), Mirrored(u, p)
  PROVE  Mirrored(u, p)'
<1>1. \A i \in Place : /\ i \in Place'
                       /\ Granted(i, u, p) => Granted(i, u, p)'
                       /\ Revoked(i, u, p) => Revoked(i, u, p)'
  BY ToldKept DEF TypeInv
<1>2. Now' = Now /\ (pc # "idle" => Event' = Event)
  BY EventStands DEF Now
<1> QED BY <1>1, <1>2 DEF Mirrored, Leaves, Joins, JoinsLater, grafana, handler

LEMMA LastAhead ==
  ASSUME TypeInv, HandledSent, NEW k, k = Len(Log) + 1
  PROVE  k > Now \/ (k = Now /\ pc = "idle")
<1>1. handled["users"] \in Nat /\ Len(Log) \in Nat
  BY LogType DEF TypeInv, TypeOK, Topic
<1>2. pc # "idle" => Now <= Len(Log)
  BY <1>1 DEF TypeInv, InHand, Unhandled, Now, Log
<1> QED BY <1>1, <1>2 DEF HandledSent, Now

LEMMA HandledSentOsm ==
  ASSUME TypeInv, HandledSent, UNCHANGED handled, Log' = Log \/ \E e : Told(e)
  PROVE  HandledSent'
BY LogType DEF TypeInv, TypeOK, Topic, HandledSent, Told

LEMMA CreateUserMirror ==
  ASSUME Mirroring, NEW u \in User, NEW S \in SUBSET Project, CreateUser(u, S)
  PROVE  MirrorInv'
<1> USE DEF Mirroring
<1>1. /\ user[u] = "absent"
      /\ user' = [user EXCEPT ![u] = "present"]
      /\ mapping' = [mapping EXCEPT ![u] = S]
      /\ S \subseteq Existing
      /\ SendUser(u, "created", S)
      /\ UNCHANGED <<project, changed>>
  BY DEF CreateUser
<1>2. user \in [User -> Lifetime] /\ mapping \in [User -> SUBSET Project]
  BY DEF TypeInv, TypeOK
<1>3. PICK e : About(e, u, "created", S) /\ Told(e)
  BY <1>1, SentUser
<1>4. UNCHANGED <<handled, grafana, handler, lost>>
  BY <1>1, SentUser
<1>5. HandledSent'
  BY <1>3, <1>4, HandledSentOsm DEF MirrorInv
<1>6. ASSUME NEW v \in Present', NEW p \in Existing', lost'[v] = "no", Steady(p)'
      PROVE  Mirrored(v, p)'
  <2>1. p \in Existing /\ p \in Project /\ project[p] \in Name /\ Steady(p)
    BY <1>1, <1>6 DEF Existing, Steady
  <2>2. CASE v # u
    <3>1. v \in Present /\ mapping'[v] = mapping[v] /\ e.user # v
      BY <1>1, <1>2, <1>3, <1>6, <2>2 DEF Present, About
    <3>2. Mirrored(v, p)
      BY <1>4, <1>6, <2>1, <3>1 DEF MirrorInv
    <3> QED BY <1>1, <1>3, <1>4, <3>1, <3>2, SentAbout
  <2>3. CASE v = u
    <3>1. u \notin members[project[p]]
      BY <1>1, <2>1 DEF GrafanaInv, MembersKnown, UsersKnown
    <3>2. mapping'[u] = S
      BY <1>1, <1>2
    <3>3. PICK k : k = Len(Log) + 1
      OBVIOUS
    <3>4. p \in S => k \in Place' /\ Granted(k, u, p)'
      BY <1>3, <3>3, LastTold DEF TypeInv, About
    <3>5. (k > Now \/ (k = Now /\ pc = "idle")) /\ Now' = Now
      BY <1>4, <3>3, LastAhead DEF MirrorInv, Now
    <3>6. pc # "idle" => Event' = Event /\ Event.user # u
      BY <1>1, <1>3, <1>4, EventStands, EventUser, ReadsUnhandled
    <3> QED BY <1>1, <1>4, <2>3, <3>1, <3>2, <3>4, <3>5, <3>6
            DEF Mirrored, Joins, grafana, handler
  <2> QED BY <2>2, <2>3
<1> QED BY <1>5, <1>6 DEF MirrorInv

LEMMA EditUserMirror ==
  ASSUME Mirroring, NEW u \in User, NEW A \in SUBSET Project, NEW R \in SUBSET Project,
         EditUser(u, A, R)
  PROVE  MirrorInv'
<1> USE DEF Mirroring
<1>1. /\ u \in Present
      /\ A \subseteq Existing \ mapping[u] /\ R \subseteq mapping[u]
      /\ mapping' = [mapping EXCEPT ![u] = (@ \cup A) \ R]
      /\ UNCHANGED <<user, project, changed>>
      /\ \/ A # {} /\ SendUser(u, "edited", A)
         \/ A = {} /\ R # {} /\ SendUser(u, "removed", R)
  BY DEF EditUser
<1>2. /\ mapping \in [User -> SUBSET Project] /\ R \subseteq Existing
  BY <1>1 DEF TypeInv, TypeOK, MappingsExist
<1>3. PICK key \in {"edited", "removed"}, S \in {A, R} :
        /\ SendUser(u, key, S)
        /\ key = "edited" => S = A
        /\ key = "removed" => S = R /\ A = {}
  BY <1>1
<1>4. S \subseteq Existing
  BY <1>1, <1>2, <1>3
<1>5. PICK e : About(e, u, key, S) /\ Told(e)
  BY <1>3, <1>4, SentUser
<1>6. UNCHANGED <<handled, grafana, handler, lost>>
  BY <1>3, <1>4, SentUser
<1>7. HandledSent'
  BY <1>5, <1>6, HandledSentOsm DEF MirrorInv
<1>8. ASSUME NEW v \in Present', NEW p \in Existing', lost'[v] = "no", Steady(p)'
      PROVE  Mirrored(v, p)'
  <2>1. v \in Present /\ p \in Existing /\ Steady(p)
    BY <1>1, <1>8 DEF Present, Existing, Steady
  <2>2. Mirrored(v, p)
    BY <1>6, <1>8, <2>1 DEF MirrorInv
  <2>3. PICK k : k = Len(Log) + 1
    OBVIOUS
  <2>4. (k > Now \/ (k = Now /\ pc = "idle")) /\ Now' = Now
    BY <1>6, <2>3, LastAhead DEF MirrorInv, Now
  <2>5. CASE v = u /\ p \in A
    <3>1. p \in mapping'[u] /\ key = "edited" /\ S = A
      BY <1>1, <1>2, <1>3, <2>5
    <3>2. k \in Place' /\ Granted(k, u, p)'
      BY <1>5, <2>3, <2>5, <3>1, LastTold DEF TypeInv, About
    <3> QED BY <1>6, <2>4, <2>5, <3>1, <3>2 DEF Mirrored, Joins, JoinsLater, handler
  <2>6. CASE v = u /\ p \in R
    <3>1. p \notin mapping'[u] /\ p \notin A
      BY <1>1, <1>2, <2>6
    <3>2. k \in Place' /\ Revoked(k, u, p)'
      BY <1>3, <1>5, <2>3, <2>6, <3>1, LastTold DEF TypeInv, About
    <3> QED BY <1>6, <2>4, <2>6, <3>1, <3>2 DEF Mirrored, Leaves, handler
  <2>7. CASE v # u \/ (p \notin A /\ p \notin R)
    <3>1. p \in mapping'[v] <=> p \in mapping[v]
      BY <1>1, <1>2, <2>7
    <3>2. e.user = v => p \notin Projects(e)
      BY <1>3, <1>5, <2>7 DEF About
    <3> QED BY <1>1, <1>5, <1>6, <2>2, <3>1, <3>2, SentAbout
  <2> QED BY <2>5, <2>6, <2>7
<1> QED BY <1>7, <1>8 DEF MirrorInv

LEMMA DeleteUserMirror ==
  ASSUME Mirroring, NEW u \in User, DeleteUser(u)
  PROVE  MirrorInv'
<1> USE DEF Mirroring
<1>1. /\ user' = [user EXCEPT ![u] = "gone"]
      /\ mapping' = [mapping EXCEPT ![u] = {}]
      /\ SendUser(u, "deleted", {})
      /\ UNCHANGED <<project, changed>>
  BY DEF DeleteUser
<1>2. user \in [User -> Lifetime] /\ mapping \in [User -> SUBSET Project]
  BY DEF TypeInv, TypeOK
<1>3. PICK e : About(e, u, "deleted", {}) /\ Told(e)
  BY <1>1, SentUser
<1>4. UNCHANGED <<handled, grafana, handler, lost>>
  BY <1>1, SentUser
<1>5. HandledSent'
  BY <1>3, <1>4, HandledSentOsm DEF MirrorInv
<1>6. ASSUME NEW v \in Present', NEW p \in Existing', lost'[v] = "no", Steady(p)'
      PROVE  Mirrored(v, p)'
  <2>1. /\ v # u /\ v \in Present /\ mapping'[v] = mapping[v] /\ e.user # v
        /\ p \in Existing /\ Steady(p)
    BY <1>1, <1>2, <1>3, <1>6 DEF Present, About, Existing, Steady
  <2>2. Mirrored(v, p)
    BY <1>4, <1>6, <2>1 DEF MirrorInv
  <2> QED BY <1>1, <1>3, <1>4, <2>1, <2>2, SentAbout
<1> QED BY <1>5, <1>6 DEF MirrorInv

LEMMA ProjectMirror ==
  ASSUME Mirroring, NEW p \in Project, NEW n \in Name,
         CreateProject(p, n) \/ RenameProject(p, n) \/ DeleteProject(p)
  PROVE  MirrorInv'
<1> USE DEF Mirroring
<1>1. \E e : Send("project", e)
  BY DEF CreateProject, RenameProject, DeleteProject
<1>2. Log' = Log /\ UNCHANGED <<handled, grafana, handler, lost>>
  BY <1>1, SentTeam
<1>3. UNCHANGED <<user, mapping>> /\ changed \subseteq changed'
  BY DEF CreateProject, RenameProject, DeleteProject
<1>4. HandledSent'
  BY <1>2, HandledSentOsm DEF MirrorInv
<1>5. project \in [Project -> Name \cup NoName]
  BY DEF TypeInv, TypeOK
<1>6. ASSUME NEW v \in Present', NEW q \in Existing', lost'[v] = "no", Steady(q)'
      PROVE  Mirrored(v, q)'
  <2>1. v \in Present /\ lost[v] = "no" /\ q \in Project
    BY <1>2, <1>3, <1>6 DEF Present, Existing
  <2>2. CASE q # p
    <3>1. project'[q] = project[q]
      BY <1>5, <2>1, <2>2 DEF CreateProject, RenameProject, DeleteProject
    <3>2. q \in Existing /\ Steady(q)
      BY <1>3, <1>6, <3>1 DEF Existing, Steady
    <3>3. Mirrored(v, q)
      BY <2>1, <3>2 DEF MirrorInv
    <3>4. Now' = Now /\ (pc # "idle" => Event' = Event) /\ Place' = Place
      BY <1>2, EventStands DEF Now, Place
    <3>5. \A i : /\ Granted(i, v, q)' <=> Granted(i, v, q)
                 /\ Revoked(i, v, q)' <=> Revoked(i, v, q)
      BY <1>2 DEF Granted, Revoked, Adds, Takes, Place
    <3> QED BY <1>2, <1>3, <3>1, <3>3, <3>4, <3>5
            DEF Mirrored, Leaves, Joins, JoinsLater, grafana, handler
  <2>3. CASE q = p
    <3>1. CreateProject(p, n)
      BY <1>5, <1>6, <2>3, NameAssumption
         DEF RenameProject, DeleteProject, Steady, Existing, NoName
    <3>2. /\ project[p] = "absent" /\ project'[p] = n /\ n \notin NamesOf(Existing)
          /\ UNCHANGED changed
      BY <1>5, <3>1 DEF CreateProject
    <3>3. p \notin mapping[v]
      BY <2>1, <3>2, NameAssumption DEF TypeInv, MappingsExist, Existing, Present, NoName
    <3>4. members[n] = {}
      BY <1>6, <2>3, <3>2 DEF GrafanaInv, MembersPlaced, Steady
    <3> QED BY <1>2, <1>3, <2>3, <3>2, <3>3, <3>4 DEF Mirrored, grafana
  <2> QED BY <2>2, <2>3
<1> QED BY <1>4, <1>6 DEF MirrorInv

\* Nothing but what is said of members remains to be shown of a step that leaves OSM
\* as it is.
LEMMA MirrorStands ==
  ASSUME MirrorInv, UNCHANGED <<user, project, changed>>, HandledSent',
         \A u \in Present, p \in Existing :
           lost[u] = "no" /\ lost'[u] = "no" /\ Steady(p) /\ Mirrored(u, p) => Mirrored(u, p)',
         \A u \in Present : lost'[u] = "no" => lost[u] = "no"
  PROVE  MirrorInv'
<1>1. Present' = Present /\ Existing' = Existing /\ \A p : Steady(p)' <=> Steady(p)
  BY DEF Present, Existing, Steady
<1> QED BY <1>1 DEF MirrorInv

LEMMA HandledSentConsumer ==
  ASSUME TypeInv, HandledSent, UNCHANGED topic,
         \/ handled'["users"] = handled["users"]
         \/ Unhandled("users") /\ handled'["users"] = Now
  PROVE  HandledSent'
BY LogType DEF TypeInv, TypeOK, Topic, HandledSent, Unhandled, Now, Log

LEMMA HandleTeamMirror ==
  ASSUME Mirroring, HandleTeam
  PROVE  MirrorInv'
<1> USE DEF Mirroring
<1> DEFINE e == topic["project"][handled["project"] + 1]
<1>1. /\ e \in TeamEvent
      /\ e.key = "edited" => e.old \in changed /\ e.new \in changed
      /\ e.key = "deleted" => e.old \in changed
  <2>1. handled["project"] + 1 \in 1..Len(topic["project"])
    BY DEF HandleTeam, Unhandled, TypeInv, TypeOK, Topic
  <2> QED BY <2>1 DEF TypeInv, TypeOK, LogInv, TeamsTold
<1>2. /\ pc' = "idle" /\ UNCHANGED <<user, project, mapping, changed, lost, topic>>
      /\ \/ CreateTeam(e.new)
         \/ e.key = "deleted" /\ DeleteTeam(e.old)
         \/ e.key = "edited" /\ RenameTeam(e.old, e.new)
         \/ UNCHANGED <<teams, members>>
      /\ handled' = [handled EXCEPT !["project"] = @ + 1]
  BY DEF HandleTeam, Return, osm
<1>3. e.old \in Name /\ e.new \in Name
  BY <1>1 DEF TeamEvent
<1>4. handled'["users"] = handled["users"] /\ handled["users"] \in Nat
  BY <1>2 DEF TypeInv, TypeOK, Topic
<1> HIDE DEF e
<1>5. \A n \in Name \ changed : members'[n] = members[n]
  <2>1. members \in [Name -> SUBSET User]
    BY DEF TypeInv, TypeOK
  <2> QED BY <1>1, <1>2, <1>3, <2>1 DEF CreateTeam, DeleteTeam, RenameTeam, Renamed
<1>6. ASSUME NEW u \in Present, NEW p \in Existing, Steady(p), Mirrored(u, p)
      PROVE  Mirrored(u, p)'
  <2>1. members'[project[p]] = members[project[p]]
    BY <1>5, <1>6 DEF Existing, Steady
  <2> QED BY <1>2, <1>4, <1>6, <2>1, Back
<1>7. HandledSent'
  BY <1>2, <1>4, HandledSentConsumer DEF MirrorInv
<1> QED BY <1>2, <1>6, <1>7, MirrorStands

\* What an event about a user does, said of that user alone.
LEMMA OneUser ==
  ASSUME Mirroring, Unhandled("users"),
         UNCHANGED <<topic, user, project, mapping, changed>>,
         \/ UNCHANGED handled
         \/ handled'["users"] = Now /\ pc' = "idle",
         \A u \in User \ {Event.user}, n \in Name : u \in members'[n] <=> u \in members[n],
         lost' = lost \/ \E why : why # "no" /\ lost' = [lost EXCEPT ![Event.user] = why],
         \A p \in Existing :
           Event.user \in Present /\ lost' = lost /\ lost[Event.user] = "no" /\ Steady(p)
             /\ Mirrored(Event.user, p)
           => (\A u \in Present : u = Event.user => Mirrored(u, p)')
  PROVE  MirrorInv'
<1> USE DEF Mirroring
<1>1. lost \in [User -> {"no", "raised", "teamless", "cleaned"}] /\ Event.user \in User
      /\ Present \subseteq User
  BY EventAt DEF TypeInv, TypeOK, Present
<1>2. HandledSent'
  BY HandledSentConsumer DEF MirrorInv
<1>3. \A u \in Present : lost'[u] = "no" => lost[u] = "no"
  BY <1>1
<1>4. ASSUME NEW u \in Present, NEW p \in Existing, lost[u] = "no", lost'[u] = "no", Steady(p),
             Mirrored(u, p)
      PROVE  Mirrored(u, p)'
  <2>1. CASE u = Event.user
    <3>1. lost' = lost
      BY <1>1, <1>4, <2>1
    <3> QED BY <1>4, <2>1, <3>1
  <2>2. CASE u # Event.user
    <3>1. u \in members'[project[p]] <=> u \in members[project[p]]
      BY <1>1, <2>2 DEF Existing
    <3> QED BY <1>4, <2>2, <3>1, Others
  <2> QED BY <2>1, <2>2
<1> QED BY <1>2, <1>3, <1>4, MirrorStands

LEMMA CreateGrafanaUserMirror ==
  ASSUME Mirroring, CreateGrafanaUser
  PROVE  MirrorInv'
<1> USE DEF Mirroring
<1>1. Unhandled("users") /\ Event.key = "created" /\ pc = "idle"
      /\ UNCHANGED <<topic, user, project, mapping, changed, members>>
  BY DEF CreateGrafanaUser, Reads, Raise, Finish, Return, osm, bus
<1>2. handled["users"] \in Nat /\ handled \in [Topic -> Nat] /\ "users" \in Topic
  BY DEF TypeInv, TypeOK, Topic
<1>3. \/ Raise("raised")
      \/ Event.user \notin users /\ Projects(Event) = {} /\ Finish
      \/ Event.user \notin users /\ pc' = "resolve" /\ UNCHANGED <<handled, lost>>
  BY DEF CreateGrafanaUser, bus
<1>4. \/ UNCHANGED handled
      \/ handled'["users"] = Now /\ pc' = "idle"
  BY <1>2, <1>3 DEF Raise, Finish, Return, Now
<1>5. lost' = lost \/ lost' = [lost EXCEPT ![Event.user] = "raised"]
  BY <1>3 DEF Raise, Finish
<1>6. ASSUME NEW p \in Existing, NEW u \in Present, u = Event.user, lost' = lost,
             lost[u] = "no", Mirrored(u, p)
      PROVE  Mirrored(u, p)'
  <2>1. lost \in [User -> {"no", "raised", "teamless", "cleaned"}] /\ u \in User
    BY DEF TypeInv, TypeOK, Present
  <2>2. ~ Raise("raised")
    BY <1>6, <2>1 DEF Raise
  <2>3. u \notin users /\ u \notin members[project[p]]
    BY <1>3, <1>6, <2>2 DEF GrafanaInv, MembersKnown, Existing
  <2>4. CASE Projects(Event) = {} /\ Finish
    <3>1. \A i \in Place : Granted(i, u, p) => i # Now
      BY <1>1, <2>4, EventAt DEF Granted, Adds
    <3>2. Joins(u, p) => JoinsLater(u, p)
      BY <3>1 DEF Joins, JoinsLater
    <3>3. handled'["users"] = Now /\ pc' = "idle"
      BY <1>2, <2>4 DEF Finish, Return, Now
    <3> QED BY <1>1, <1>6, <2>3, <3>2, <3>3, Passed DEF Mirrored
  <2>5. CASE pc' = "resolve" /\ UNCHANGED handled
    <3>1. Now' = Now
      BY <2>5 DEF Now
    <3>2. Joins(u, p) => Joins(u, p)'
      <4>1. Joins(u, p) => \E i \in Place : Granted(i, u, p) /\ (i > Now \/ i = Now)
        BY DEF Joins
      <4> QED BY <1>1, <2>5, <3>1, <4>1, WordsStand DEF Joins
    <3> QED BY <1>1, <1>6, <2>3, <2>5, <3>2 DEF Mirrored
  <2> QED BY <1>3, <2>2, <2>4, <2>5
<1> QED BY <1>1, <1>4, <1>5, <1>6, OneUser

\* The name of a mapping in the event in hand, where names are steady.
LEMMA NameInHand ==
  ASSUME TypeInv, LogInv, Unhandled("users"), NEW p \in Existing, Steady(p)
  PROVE  /\ p \in Projects(Event) => Event.names[p] = project[p]
         /\ \A q \in Projects(Event) : Event.names[q] = project[p] => q = p
         /\ \A q \in Project : project[q] = project[p] => q = p
<1>1. p \in Project /\ project[p] \in Name /\ project[p] \notin changed
      /\ project[p] # "gone"
  BY NameAssumption DEF Existing, Steady, NoName
<1>2. \A q \in Projects(Event) :
        \/ Event.names[q] = project[q]
        \/ Event.names[q] \in changed /\ project[q] \in changed \cup {"gone"}
  BY EventAt DEF LogInv, NamesTold
<1>3. \A q \in Project : project[q] = project[p] => q = p
  BY <1>1 DEF LogInv, NamesUnique
<1> QED BY <1>1, <1>2, <1>3 DEF Projects

LEMMA ResolveMirror ==
  ASSUME Mirroring, Resolve
  PROVE  MirrorInv'
<1> USE DEF Mirroring
<1>1. Unhandled("users") /\ pc \in {"idle", "resolve"}
      /\ UNCHANGED <<topic, user, project, mapping, changed, members>>
  BY ReadsUnhandled DEF Resolve, Reads, Raise, Return, osm, bus, grafana
<1>2. handled["users"] \in Nat /\ handled \in [Topic -> Nat] /\ "users" \in Topic
  BY DEF TypeInv, TypeOK, Topic
<1>3. \/ Raise("raised")
      \/ /\ projList' = ProjListNow /\ todo' = Projects(Event) /\ pc' = "look_up"
         /\ UNCHANGED <<handled, lost>>
  BY DEF Resolve, bus
<1>4. \/ UNCHANGED handled
      \/ handled'["users"] = Now /\ pc' = "idle"
  BY <1>2, <1>3 DEF Raise, Return, Now
<1>5. lost' = lost \/ lost' = [lost EXCEPT ![Event.user] = "raised"]
  BY <1>3 DEF Raise
<1>6. pc = "idle" => Event.key = "edited"
  BY DEF Resolve, Reads
<1>7. Event.key \in {"created", "edited"}
  BY <1>6 DEF GrafanaInv, KindInHand
<1>8. ASSUME NEW p \in Existing, NEW u \in Present, u = Event.user, lost' = lost,
             lost[u] = "no", Steady(p), Mirrored(u, p)
      PROVE  Mirrored(u, p)'
  <2>1. lost \in [User -> {"no", "raised", "teamless", "cleaned"}] /\ u \in User
    BY DEF TypeInv, TypeOK, Present
  <2>2. /\ projList' = ProjListNow /\ todo' = Projects(Event) /\ pc' = "look_up"
        /\ UNCHANGED handled
    BY <1>3, <1>8, <2>1 DEF Raise
  <2>3. Now' = Now /\ Event' = Event
    BY <1>1, <2>2 DEF Now, Event
  <2>4. p \in Project /\ project[p] \in Name /\ mapping[u] \subseteq Project
    BY <2>1 DEF Existing, TypeInv, TypeOK
  <2>5. Event = Log[Now] /\ Now \in Place /\ Event \in UserEvent
    BY <1>1, EventAt
  <2>6. Leaves(u, p) /\ p \notin mapping[u] => Leaves(u, p)'
    <3>1. SUFFICES ASSUME Leaves(u, p), p \notin mapping[u] PROVE Leaves(u, p)'
      OBVIOUS
    <3>2. CASE pc = "idle"
      <4>1. Event.form = "ui"
        BY <1>6, <2>5, <3>2 DEF LogInv, FormsTold
      <4>2. projList' = NamesOf(mapping[u])
        BY <1>8, <2>2, <4>1 DEF ProjListNow
      <4>3. project[p] \notin projList'
        BY <1>1, <1>8, <2>4, <3>1, <4>2, NameInHand DEF NamesOf
      <4> QED BY <1>1, <2>2, <2>3, <3>1, <4>3, WordsStand DEF Leaves
    <3>3. CASE pc = "resolve"
      BY <1>1, <2>2, <2>3, <3>1, <3>3, WordsStand DEF Leaves
    <3> QED BY <1>1, <3>2, <3>3
  <2>7. Joins(u, p) => Joins(u, p)'
    <3>1. Granted(Now, u, p) => p \in todo'
      BY <2>2, <2>5 DEF Granted, Adds
    <3>2. \A i \in Place : Granted(i, u, p) /\ i = Now => p \in todo'
      BY <3>1
    <3> QED BY <1>1, <2>2, <2>3, <3>2, WordsStand DEF Joins
  <2>8. p \in mapping[u] /\ project[p] \notin projList' => JoinsLater(u, p)'
    <3>1. SUFFICES ASSUME p \in mapping[u], project[p] \notin projList'
                   PROVE  \E i \in Place : Granted(i, u, p) /\ i > Now
      BY <1>1, <2>3, WordsStand DEF JoinsLater
    <3>2. Event.form = "cli" /\ Event.key = "created"
      <4>1. Event.form # "ui"
        BY <1>8, <2>2, <3>1 DEF ProjListNow, NamesOf
      <4>2. Event.form # "name"
        BY <2>2, <3>1 DEF ProjListNow, NamesOf
      <4>3. Event.key = "created"
        BY <2>5, <4>1 DEF LogInv, FormsTold
      <4> QED BY <2>5, <4>1, <4>2, <4>3 DEF UserEvent, Form
    <3>3. p \notin Projects(Event)
      <4>1. projList' = {Event.names[q] : q \in Projects(Event)}
        BY <2>2, <3>2 DEF ProjListNow
      <4> QED BY <1>1, <1>8, <3>1, <4>1, NameInHand
    <3>4. PICK i \in Place : Granted(i, u, p)
      BY <2>4, <3>1 DEF LogInv, MappingsTold
    <3>5. i # Now /\ Now <= i
      BY <1>8, <2>5, <3>2, <3>3, <3>4 DEF Granted, Adds, LogInv, CreatedFirst
    <3> QED BY <3>4, <3>5, NowType
  <2> QED BY <1>1, <1>8, <2>6, <2>7, <2>8 DEF Mirrored
<1> QED BY <1>1, <1>4, <1>5, <1>8, OneUser

LEMMA LookUpMirror ==
  ASSUME Mirroring, NEW q \in Project, LookUp(q)
  PROVE  MirrorInv'
<1> USE DEF Mirroring
<1>1. Unhandled("users") /\ pc = "look_up" /\ q \in todo
      /\ UNCHANGED <<topic, user, project, mapping, changed>>
  BY ReadsUnhandled DEF LookUp, Raise, Return, osm, bus
<1>2. handled["users"] \in Nat /\ handled \in [Topic -> Nat] /\ "users" \in Topic
  BY DEF TypeInv, TypeOK, Topic
<1>3. \/ Raise("raised")
      \/ /\ teamName' \in TeamsFor(q)
         /\ teamList' = TeamsOf(Event.user)
         /\ members' = Without(Event.user, teamList' \ projList)
         /\ todo' = todo \ {q}
         /\ pc' = "join"
         /\ UNCHANGED <<handled, projList, lost>>
  BY DEF LookUp, bus
<1>4. UNCHANGED members \/ \E S : members' = Without(Event.user, S)
  BY DEF LookUp
<1>5. \/ UNCHANGED handled
      \/ handled'["users"] = Now /\ pc' = "idle"
  BY <1>2, <1>3 DEF Raise, Return, Now
<1>6. lost' = lost \/ lost' = [lost EXCEPT ![Event.user] = "raised"]
  BY <1>3 DEF Raise
<1>7. \A u \in User \ {Event.user}, n \in Name : u \in members'[n] <=> u \in members[n]
  BY <1>4 DEF Without
<1>8. ASSUME NEW p \in Existing, NEW u \in Present, u = Event.user, lost' = lost,
             lost[u] = "no", Steady(p), Mirrored(u, p)
      PROVE  Mirrored(u, p)'
  <2>1. lost \in [User -> {"no", "raised", "teamless", "cleaned"}] /\ u \in User
    BY DEF TypeInv, TypeOK, Present
  <2>2. /\ teamName' \in TeamsFor(q)
        /\ teamList' = TeamsOf(u)
        /\ members' = Without(u, teamList' \ projList)
        /\ todo' = todo \ {q}
        /\ pc' = "join"
        /\ UNCHANGED <<handled, projList>>
    BY <1>3, <1>8, <2>1 DEF Raise
  <2>3. Now' = Now /\ Event' = Event
    BY <1>1, <2>2 DEF Now, Event
  <2>4. project[p] \in Name
    BY DEF Existing
  <2>5. u \in members'[project[p]] <=> u \in members[project[p]] /\ project[p] \in projList
    BY <2>2, <2>4 DEF Without, TeamsOf
  <2>6. JoinsLater(u, p) => JoinsLater(u, p)' /\ Joins(u, p)'
    BY <1>1, <2>3, WordsStand DEF JoinsLater, Joins
  <2>7. Leaves(u, p) /\ project[p] \in projList => Leaves(u, p)'
    BY <1>1, <2>3, WordsStand DEF Leaves
  <2>8. Joins(u, p) => Joins(u, p)'
    <3>1. CASE p = q
      <4>1. teamName' = project[p]
        <5>1. p \in Projects(Event)
          BY <1>1, <3>1 DEF GrafanaInv, TodoMapped
        <5> QED BY <1>1, <1>8, <2>2, <3>1, <5>1, NameInHand DEF TeamsFor
      <4> QED BY <1>1, <2>2, <2>3, <4>1, WordsStand DEF Joins
    <3>2. CASE p # q
      <4>1. p \in todo => p \in todo'
        BY <2>2, <3>2
      <4> QED BY <1>1, <2>2, <2>3, <4>1, WordsStand DEF Joins
    <3> QED BY <3>1, <3>2
  <2>9. Event.user = u /\ project[p] \notin projList /\ p \in mapping[u] => JoinsLater(u, p)
    BY <1>1, <1>8 DEF Mirrored
  <2> QED BY <1>1, <1>8, <2>2, <2>5, <2>6, <2>7, <2>8, <2>9 DEF Mirrored
<1> QED BY <1>1, <1>5, <1>6, <1>7, <1>8, OneUser

LEMMA JoinMirror ==
  ASSUME Mirroring, Join
  PROVE  MirrorInv'
<1> USE DEF Mirroring
<1>1. Unhandled("users") /\ pc = "join" /\ teamName \in Name
      /\ UNCHANGED <<topic, user, project, mapping, changed, users>>
  BY ReadsUnhandled DEF Join, Raise, Finish, Return, osm, bus, TypeInv, Named
<1>2. handled["users"] \in Nat /\ handled \in [Topic -> Nat] /\ "users" \in Topic
  BY DEF TypeInv, TypeOK, Topic
<1>3. \/ Raise("raised")
      \/ /\ members' = Joined
         /\ \/ todo = {} /\ Finish
            \/ todo # {} /\ pc' = "look_up" /\ UNCHANGED <<handled, projList, todo, lost>>
  BY DEF Join, bus
<1>4. members' \in {members, Joined}
  BY DEF Join
<1>5. \/ UNCHANGED handled
      \/ handled'["users"] = Now /\ pc' = "idle"
  BY <1>2, <1>3 DEF Raise, Finish, Return, Now
<1>6. lost' = lost \/ lost' = [lost EXCEPT ![Event.user] = "raised"]
  BY <1>3 DEF Raise, Finish
<1>7. members \in [Name -> SUBSET User]
  BY DEF TypeInv, TypeOK
<1>8. \A u \in User \ {Event.user}, n \in Name : u \in members'[n] <=> u \in members[n]
  BY <1>1, <1>4, <1>7 DEF Joined
<1>9. ASSUME NEW p \in Existing, NEW u \in Present, u = Event.user, lost' = lost,
             lost[u] = "no", Steady(p), Mirrored(u, p)
      PROVE  Mirrored(u, p)'
  <2>1. lost \in [User -> {"no", "raised", "teamless", "cleaned"}] /\ u \in User
    BY DEF TypeInv, TypeOK, Present
  <2>2. /\ members' = Joined
        /\ \/ todo = {} /\ Finish
           \/ todo # {} /\ pc' = "look_up" /\ UNCHANGED <<handled, projList, todo>>
    BY <1>3, <1>9, <2>1 DEF Raise
  <2>3. project[p] \in Name /\ project[p] # "admin" /\ p \in Project
    BY <1>9 DEF Existing, Steady
  <2>4. Event = Log[Now] /\ Now \in Place
    BY <1>1, EventAt
  <2>5. p \notin mapping[u] /\ u \in members'[project[p]] =>
          \E i \in Place : Revoked(i, u, p) /\ i > Now
    <3> SUFFICES ASSUME p \notin mapping[u], u \in members'[project[p]]
                 PROVE  \E i \in Place : Revoked(i, u, p) /\ i > Now
      OBVIOUS
    <3>1. CASE u \in members[project[p]]
      BY <1>1, <1>9, <3>1 DEF Mirrored, Leaves
    <3>2. CASE u \notin members[project[p]]
      <4>1. teamName = project[p]
        BY <1>1, <1>7, <2>2, <2>3, <3>2 DEF Joined
      <4>2. p \in Projects(Event)
        <5>1. teamName \notin changed
          BY <1>9, <4>1 DEF Steady
        <5>2. PICK q \in Projects(Event) : teamName = project[q]
          BY <1>1, <5>1 DEF GrafanaInv, TeamMeant
        <5>3. \A r \in Project : project[r] = project[p] => r = p
          BY <1>1, <1>9, NameInHand
        <5>4. q \in Project
          BY <5>2 DEF Projects
        <5> QED BY <4>1, <5>2, <5>3, <5>4
      <4>3. Adds(Now, u, p)
        BY <1>1, <1>9, <2>4, <4>2 DEF Adds, GrafanaInv, KindInHand
      <4>4. PICK i \in Place : Revoked(i, u, p)
        BY <2>3, <2>4, <4>3 DEF LogInv, MappingsTold
      <4>5. ~(Now >= i)
        BY <2>4, <4>3, <4>4 DEF Revoked
      <4> QED BY <4>4, <4>5, NowType
    <3> QED BY <3>1, <3>2
  <2>6. p \in mapping[u] /\ u \notin members'[project[p]] =>
          JoinsLater(u, p) \/ (Joins(u, p) /\ p \in todo)
    <3> SUFFICES ASSUME p \in mapping[u], u \notin members'[project[p]], ~JoinsLater(u, p)
                 PROVE  Joins(u, p) /\ p \in todo
      OBVIOUS
    <3>1. u \notin members[project[p]]
      BY <1>1, <1>7, <2>2, <2>3 DEF Joined
    <3>2. Joins(u, p)
      BY <1>9, <3>1 DEF Mirrored
    <3>3. p \in todo \/ teamName = project[p]
      BY <1>1, <3>2 DEF Joins, JoinsLater
    <3>4. teamName # project[p]
      <4> SUFFICES ASSUME teamName = project[p] PROVE FALSE
        OBVIOUS
      <4>1. project[p] \in projList
        BY <1>1, <1>9 DEF Mirrored
      <4>2. u \in users /\ project[p] \notin teamList
        BY <1>1, <1>9, <3>1, <4>1 DEF GrafanaInv, StillMember
      <4>3. members' = [members EXCEPT ![teamName] = @ \cup {u}]
        BY <1>9, <2>2, <2>3, <4>2 DEF Joined
      <4> QED BY <1>7, <2>3, <4>3
    <3> QED BY <3>2, <3>3, <3>4
  <2>7. CASE todo = {} /\ Finish
    <3>1. handled'["users"] = Now /\ pc' = "idle"
      BY <1>2, <2>7 DEF Finish, Return, Now
    <3> QED BY <1>1, <2>5, <2>6, <2>7, <3>1, Passed
  <2>8. CASE pc' = "look_up" /\ UNCHANGED <<handled, projList, todo>>
    <3>1. Now' = Now /\ Event' = Event
      BY <1>1, <2>8 DEF Now, Event
    <3>2. (\E i \in Place : Revoked(i, u, p) /\ i > Now) => Leaves(u, p)'
      BY <1>1, <3>1, WordsStand DEF Leaves
    <3>3. JoinsLater(u, p) => Joins(u, p)' /\ JoinsLater(u, p)'
      BY <1>1, <3>1, WordsStand DEF Joins, JoinsLater
    <3>4. Joins(u, p) /\ p \in todo => Joins(u, p)'
      <4>1. Joins(u, p) => \E i \in Place : Granted(i, u, p) /\ (i > Now \/ i = Now)
        BY DEF Joins
      <4> QED BY <1>1, <2>8, <3>1, <4>1, WordsStand DEF Joins
    <3>5. p \in mapping[u] /\ project[p] \notin projList => JoinsLater(u, p)
      BY <1>1, <1>9 DEF Mirrored
    <3> QED BY <1>1, <1>9, <2>5, <2>6, <2>8, <3>2, <3>3, <3>4, <3>5 DEF Mirrored
  <2> QED BY <2>2, <2>7, <2>8
<1> QED BY <1>1, <1>5, <1>6, <1>8, <1>9, OneUser

LEMMA RemoveMembersMirror ==
  ASSUME Mirroring, RemoveMembers
  PROVE  MirrorInv'
<1> USE DEF Mirroring
<1> DEFINE named == {Event.names[p] : p \in Projects(Event)}
<1>1. Unhandled("users") /\ pc = "idle" /\ Event.key = "removed"
      /\ UNCHANGED <<topic, user, project, mapping, changed>>
  BY DEF RemoveMembers, Reads, Raise, Finish, Return, osm
<1>2. handled["users"] \in Nat /\ handled \in [Topic -> Nat] /\ "users" \in Topic
  BY DEF TypeInv, TypeOK, Topic
<1>3. \/ Raise("raised") \/ Raise("teamless")
      \/ /\ Finish
         /\ \E T : /\ members' = Without(Event.user, T)
                   /\ T \subseteq named
                   /\ \/ named \subseteq T
                      \/ named \cap teams = {}
  <2>1. \/ Raise("raised") \/ Raise("teamless")
        \/ members' = Without(Event.user, named) /\ Finish
        \/ \E n \in named \ teams :
             /\ \E S \in SUBSET (named \cap teams) : members' = Without(Event.user, S)
             /\ named = {n} /\ Finish
    BY DEF RemoveMembers
  <2>2. ASSUME NEW n \in named \ teams, NEW S \in SUBSET (named \cap teams), named = {n}
        PROVE  S \subseteq named /\ named \cap teams = {}
    BY <2>2
  <2> HIDE DEF named
  <2> QED BY <2>1, <2>2
<1>4. UNCHANGED members \/ \E S : members' = Without(Event.user, S)
  BY DEF RemoveMembers
<1>5. handled'["users"] = Now /\ pc' = "idle"
  BY <1>2, <1>3 DEF Raise, Finish, Return, Now
<1>6. lost' = lost \/ \E why \in {"raised", "teamless"} : lost' = [lost EXCEPT ![Event.user] = why]
  BY <1>3 DEF Raise, Finish
<1>7. \A u \in User \ {Event.user}, n \in Name : u \in members'[n] <=> u \in members[n]
  BY <1>4 DEF Without
<1>8. ASSUME NEW p \in Existing, NEW u \in Present, u = Event.user, lost' = lost,
             lost[u] = "no", Steady(p), Mirrored(u, p)
      PROVE  Mirrored(u, p)'
  <2>1. lost \in [User -> {"no", "raised", "teamless", "cleaned"}] /\ u \in User
    BY DEF TypeInv, TypeOK, Present
  <2>2. ~ Raise("raised") /\ ~ Raise("teamless")
    BY <1>8, <2>1 DEF Raise
  <2>3. PICK T : /\ members' = Without(u, T)
                 /\ T \subseteq named
                 /\ named \subseteq T \/ named \cap teams = {}
    BY <1>3, <1>8, <2>2
  <2>4. project[p] \in Name /\ p \in Project
    BY DEF Existing
  <2>5. Event = Log[Now] /\ Now \in Place
    BY <1>1, EventAt
  <2>6. project[p] \in named <=> p \in Projects(Event)
    BY <1>1, <1>8, NameInHand
  <2>7. \A i \in Place : Granted(i, u, p) => i # Now
    BY <1>1, <2>5 DEF Granted, Adds
  <2>8. u \in members'[project[p]] <=> u \in members[project[p]] /\ project[p] \notin T
    BY <2>3, <2>4 DEF Without
  <2> HIDE DEF named
  <2>9. p \notin mapping[u] /\ u \in members'[project[p]] =>
          \E i \in Place : Revoked(i, u, p) /\ i > Now
    <3> SUFFICES ASSUME p \notin mapping[u], u \in members'[project[p]]
                 PROVE  \E i \in Place : Revoked(i, u, p) /\ i > Now
      OBVIOUS
    <3>1. u \in members[project[p]] /\ project[p] \in teams
      BY <2>4, <2>8 DEF GrafanaInv, MembersPlaced
    <3>2. p \notin Projects(Event)
      BY <2>3, <2>6, <2>8, <3>1
    <3>3. \A i \in Place : Revoked(i, u, p) => i # Now
      BY <1>1, <2>5, <3>2 DEF Revoked, Takes
    <3> QED BY <1>8, <3>1, <3>3 DEF Mirrored, Leaves
  <2>10. p \in mapping[u] /\ u \notin members'[project[p]] => JoinsLater(u, p)
    <3> SUFFICES ASSUME p \in mapping[u], u \notin members'[project[p]] PROVE JoinsLater(u, p)
      OBVIOUS
    <3>1. CASE u \notin members[project[p]]
      BY <1>8, <2>7, <3>1 DEF Mirrored, Joins, JoinsLater
    <3>2. CASE u \in members[project[p]]
      <4>1. p \in Projects(Event)
        BY <2>3, <2>6, <2>8, <3>2
      <4>2. Takes(Now, u, p)
        BY <1>1, <1>8, <2>5, <4>1 DEF Takes
      <4>3. PICK i \in Place : Granted(i, u, p)
        BY <2>4 DEF LogInv, MappingsTold
      <4>4. ~(Now >= i)
        BY <2>5, <4>2, <4>3 DEF Granted
      <4> QED BY <4>3, <4>4, NowType DEF JoinsLater
    <3> QED BY <3>1, <3>2
  <2> QED BY <1>1, <1>5, <2>9, <2>10, Passed
<1> QED BY <1>1, <1>5, <1>6, <1>7, <1>8, OneUser

LEMMA DeleteGrafanaUserMirror ==
  ASSUME Mirroring, DeleteGrafanaUser
  PROVE  MirrorInv'
<1> USE DEF Mirroring
<1>1. Unhandled("users") /\ Event.key = "deleted"
      /\ UNCHANGED <<topic, user, project, mapping, changed>>
  BY DEF DeleteGrafanaUser, Reads, Raise, Finish, Return, osm
<1>2. handled["users"] \in Nat /\ handled \in [Topic -> Nat] /\ "users" \in Topic
  BY DEF TypeInv, TypeOK, Topic
<1>3. Raise("raised") \/ Finish
  BY DEF DeleteGrafanaUser
<1>4. handled'["users"] = Now /\ pc' = "idle"
  BY <1>2, <1>3 DEF Raise, Finish, Return, Now
<1>5. lost' = lost \/ lost' = [lost EXCEPT ![Event.user] = "raised"]
  BY <1>3 DEF Raise, Finish
<1>6. \A u \in User \ {Event.user}, n \in Name : u \in members'[n] <=> u \in members[n]
  BY DEF DeleteGrafanaUser, Removed, Without
<1>7. Event.user \notin Present
  BY <1>1, EventAt DEF LogInv, UsersTold, Present
<1> QED BY <1>1, <1>4, <1>5, <1>6, <1>7, OneUser

LEMMA LoopMirror ==
  ASSUME Mirroring, Loop
  PROVE  MirrorInv'
<1> USE DEF Mirroring
<1>1. UNCHANGED <<user, project, mapping, changed, topic, handled, pc, projList, todo, teamName>>
  BY DEF Loop, ListUsers, ListGrafanaUsers, DeleteObsolete, EndCleanup, osm, bus, handler
<1>2. HandledSent'
  BY <1>1, HandledSentConsumer DEF MirrorInv
<1>3. CASE UNCHANGED <<members, lost>>
  BY <1>1, <1>2, <1>3, Stands, MirrorStands
<1>4. ASSUME NEW v \in User, DeleteObsolete(v) PROVE MirrorInv'
  <2>1. /\ Removed(v)
        /\ lost' = IF v \in users THEN [lost EXCEPT ![v] = "cleaned"] ELSE lost
    BY <1>4 DEF DeleteObsolete
  <2>2. lost \in [User -> {"no", "raised", "teamless", "cleaned"}] /\ Present \subseteq User
    BY DEF TypeInv, TypeOK, Present
  <2>3. ASSUME NEW u \in Present, NEW p \in Existing, lost'[u] = "no", Mirrored(u, p)
        PROVE  Mirrored(u, p)'
    <3>1. u \in members'[project[p]] <=> u \in members[project[p]]
      <4>1. project[p] \in Name
        BY DEF Existing
      <4>2. CASE u = v
        <5>1. u \notin users
          BY <2>1, <2>2, <2>3, <4>2
        <5> QED BY <2>1, <4>1, <4>2, <5>1 DEF Removed, Without, GrafanaInv, MembersKnown
      <4>3. CASE u # v
        BY <2>1, <4>1, <4>3 DEF Removed, Without
      <4> QED BY <4>2, <4>3
    <3> QED BY <1>1, <2>3, <3>1, Stands
  <2>4. \A u \in Present : lost'[u] = "no" => lost[u] = "no"
    BY <2>1, <2>2
  <2> QED BY <1>1, <1>2, <2>3, <2>4, MirrorStands
<1> QED BY <1>3, <1>4 DEF Loop, ListUsers, ListGrafanaUsers, EndCleanup, grafana

LEMMA RedeliverMirror ==
  ASSUME Mirroring, LoseSubscription \/ Crash
  PROVE  MirrorInv'
<1> USE DEF Mirroring
<1>1. /\ UNCHANGED <<user, project, mapping, changed, topic, members, lost>>
      /\ pc' = "idle"
      /\ Redeliver
  BY DEF LoseSubscription, Crash, osm, grafana, handler
<1>2. handled'["users"] \in Nat /\ handled'["users"] <= handled["users"]
  <2>1. PICK start \in [Topic -> 0..MaxEvents] :
          /\ \A t \in Topic : start[t] \in committed[t]..handled[t]
          /\ handled' = start
    BY <1>1 DEF Redeliver
  <2> QED BY <2>1, BoundsAssumption DEF Topic, TypeInv, TypeOK
<1>3. HandledSent'
  BY <1>1, <1>2, LogType DEF MirrorInv, HandledSent, TypeInv, TypeOK, Topic, Log
<1> QED BY <1>1, <1>2, <1>3, Back, MirrorStands

LEMMA MirrorStep == Mirroring /\ [Next]_vars => MirrorInv'
<1> SUFFICES ASSUME Mirroring, [Next]_vars PROVE MirrorInv'
  OBVIOUS
<1>1. CASE Consume
  BY <1>1, HandleTeamMirror, CreateGrafanaUserMirror, ResolveMirror, LookUpMirror,
     JoinMirror, RemoveMembersMirror, DeleteGrafanaUserMirror DEF Consume
<1>2. CASE UNCHANGED vars
  <2>1. UNCHANGED <<user, project, mapping, changed, topic, handled, members, pc, projList, todo, teamName, lost>>
    BY <1>2 DEF vars, osm, grafana, bus, handler
  <2>2. HandledSent'
    BY <2>1, HandledSentConsumer DEF Mirroring, MirrorInv
  <2> QED BY <2>1, <2>2, Stands, MirrorStands DEF Mirroring
<1>3. CASE \E p \in Project : DeleteProject(p)
  <2>1. PICK p \in Project : DeleteProject(p)
    BY <1>3
  <2>2. project[p] \in Name
    BY <2>1, ExistingNamed DEF DeleteProject
  <2> QED BY <2>1, <2>2, ProjectMirror
<1> QED BY <1>1, <1>2, <1>3, StepKinds, CreateUserMirror, EditUserMirror, DeleteUserMirror,
           ProjectMirror, LoopMirror, RedeliverMirror

LEMMA MirroringHolds == Spec => []Mirroring
<1>1. Init => MirrorInv
  <2> SUFFICES ASSUME Init PROVE MirrorInv
    OBVIOUS
  <2>1. HandledSent
    BY DEF Init, HandledSent, Log, Topic
  <2>2. Present = {}
    BY DEF Init, Present
  <2> QED BY <2>1, <2>2 DEF MirrorInv
<1>2. Init => Mirroring
  BY <1>1, TypeStart, LogStart, GrafanaStart DEF Mirroring
<1>3. Mirroring /\ [Next]_vars => Mirroring'
  BY TypeStep, LogStep, GrafanaStep, MirrorStep DEF Mirroring
<1> QED BY <1>2, <1>3, PTL DEF Spec

\* A consumer that has handled all events has each user in the teams of its projects and
\* in no others, for any number of users and projects and any history of events, although
\* the two topics come in any order, events come twice and what is looked up is newer
\* than the event (dashboarder.py _user_msg, service.py create_grafana_teams_members).
THEOREM MappingsMirrored == Spec => []TeamsMirrored
<1>1. Mirroring => TeamsMirrored
  <2> SUFFICES ASSUME Mirroring, CaughtUp, NEW u \in Present, NEW p \in Existing,
                      lost[u] = "no", project[p] \notin changed \cup {"admin"}
               PROVE  u \in members[project[p]] <=> p \in mapping[u]
    BY DEF TeamsMirrored
  <2>1. Mirrored(u, p)
    BY DEF Mirroring, MirrorInv, Steady
  <2>2. \A i \in Place : i < Now
    BY LogType DEF Mirroring, TypeInv, TypeOK, Topic, CaughtUp, Unhandled, Place, Now, Log
  <2>3. \A i \in Place : ~(i > Now) /\ i # Now
    BY <2>2, NowType DEF Mirroring
  <2> QED BY <2>1, <2>3 DEF Mirrored, Leaves, Joins
<1> QED BY <1>1, MirroringHolds, PTL

-----------------------------------------------------------------------------
(* No event is cut short.  Without faults the users of the database are in   *)
(* Grafana from the moment the event of their creation is read.              *)

LoopIdle == ~keystone => cleanup = "list_users" /\ listed = {}
LostKnown == \A u \in User : user[u] = "absent" => lost[u] = "no"

Read(i) == i < Now \/ (i = Now /\ pc # "idle")

CreationsApplied ==
  faults = 0 /\ ~keystone =>
    \A i \in Place : Log[i].key = "created" =>
      /\ Log[i].user \in users => Read(i)
      /\ Read(i) /\ Log[i].user \in Present => Log[i].user \in users

AppliedInv == LoopIdle /\ LostKnown /\ CreationsApplied /\ EventsApplied

\* Faults are never undone.
LEMMA FaultsStay ==
  ASSUME faults \in Nat, Strike \/ faults' = faults
  PROVE  /\ faults' = 0 => faults = 0
         /\ Strike => faults' # 0
BY DEF Strike

\* A user of OSM the creation of which was read is in Grafana.
LEMMA UserInHand ==
  ASSUME TypeInv, LogInv, AppliedInv, Unhandled("users"), faults = 0, ~keystone
  PROVE  /\ Event.key = "created" /\ pc = "idle" => Event.user \notin users
         /\ Event.user \in Present /\ (pc # "idle" \/ Event.key # "created") =>
              Event.user \in users
<1>1. Now \in Place /\ Event = Log[Now] /\ Event.user \in User /\ Now \in Nat
  BY EventAt, NowType
<1>2. Event.key = "created" /\ pc = "idle" => Event.user \notin users
  BY <1>1 DEF AppliedInv, CreationsApplied, Read
<1>3. ASSUME Event.user \in Present, pc # "idle" \/ Event.key # "created"
      PROVE  Event.user \in users
  <2>1. user[Event.user] # "absent"
    BY <1>3 DEF Present
  <2>2. PICK i \in Place : Log[i].user = Event.user /\ Log[i].key = "created"
    BY <1>1, <2>1 DEF LogInv, CreationTold
  <2>3. i <= Now
    BY <1>1, <2>2 DEF LogInv, CreatedFirst
  <2>4. i = Now => pc # "idle"
    BY <1>1, <1>3, <2>2
  <2>5. Read(i)
    BY <1>1, <2>3, <2>4, NowType DEF Read
  <2> QED BY <1>3, <2>2, <2>5 DEF AppliedInv, CreationsApplied
<1> QED BY <1>2, <1>3

\* What an event about a user does, said of that user alone.
LEMMA CreationsStep ==
  ASSUME TypeInv, LogInv, AppliedInv, Unhandled("users"),
         UNCHANGED <<topic, user, keystone>>, faults' = 0 => faults = 0,
         \/ UNCHANGED handled /\ pc' # "idle"
         \/ handled'["users"] = Now /\ pc' = "idle",
         \A u \in User \ {Event.user} : u \in users' <=> u \in users,
         faults' = 0 /\ ~keystone /\ Event.user \in Present => Event.user \in users'
  PROVE  CreationsApplied'
<1> SUFFICES ASSUME faults' = 0, ~keystone,
                    NEW i \in Place, Log[i].key = "created"
             PROVE  /\ Log[i].user \in users' => Read(i)'
                    /\ Read(i)' /\ Log[i].user \in Present => Log[i].user \in users'
  <2>1. Place' = Place /\ Log' = Log /\ Present' = Present
    BY DEF Place, Log, Present
  <2> QED BY <2>1 DEF CreationsApplied
<1>1. Now \in Place /\ Event = Log[Now] /\ Event.user \in User /\ Now \in Nat /\ i \in Nat
  BY EventAt, NowType
<1>2. Read(i)' <=> i <= Now
  <2>1. CASE UNCHANGED handled /\ pc' # "idle"
    <3>1. Now' = Now
      BY <2>1 DEF Now
    <3> QED BY <1>1, <2>1, <3>1 DEF Read
  <2>2. CASE handled'["users"] = Now /\ pc' = "idle"
    <3>1. Now' = Now + 1
      BY <2>2 DEF Now
    <3> QED BY <1>1, <2>2, <3>1 DEF Read
  <2> QED BY <2>1, <2>2
<1>3. CASE Log[i].user = Event.user
  <2>1. i <= Now
    BY <1>1, <1>3 DEF LogInv, CreatedFirst
  <2> QED BY <1>2, <1>3, <2>1
<1>4. CASE Log[i].user # Event.user
  <2>1. i # Now /\ Log[i].user \in User
    <3>1. Log[i] \in UserEvent
      BY LogType DEF TypeInv, Place
    <3> QED BY <1>1, <1>4, <3>1 DEF UserEvent
  <2>2. Read(i) <=> i <= Now
    BY <1>1, <2>1 DEF Read
  <2>3. Log[i].user \in users' <=> Log[i].user \in users
    BY <1>4, <2>1
  <2> QED BY <1>2, <2>2, <2>3 DEF AppliedInv, CreationsApplied
<1> QED BY <1>3, <1>4

\* A user of OSM is given up only for a project without a team.
LEMMA LostStep ==
  ASSUME TypeInv, LogInv, AppliedInv, Unhandled("users"),
         UNCHANGED <<user, changed, keystone>>, faults' = 0 => faults = 0,
         \/ lost' = lost
         \/ \E why \in {"raised", "teamless"} :
              /\ lost' = [lost EXCEPT ![Event.user] = why]
              /\ faults' = 0 /\ ~keystone /\ changed = {} =>
                   why = "teamless" \/ Event.user \notin Present
  PROVE  LostKnown' /\ EventsApplied'
<1>1. lost \in [User -> {"no", "raised", "teamless", "cleaned"}] /\ Present' = Present
      /\ Present \subseteq User
  BY DEF TypeInv, TypeOK, Present
<1>2. CASE lost' = lost
  BY <1>1, <1>2 DEF AppliedInv, LostKnown, EventsApplied
<1>3. ASSUME NEW why \in {"raised", "teamless"}, lost' = [lost EXCEPT ![Event.user] = why],
             faults' = 0 /\ ~keystone /\ changed = {} =>
               why = "teamless" \/ Event.user \notin Present
      PROVE  LostKnown' /\ EventsApplied'
  <2>1. user[Event.user] # "absent"
    BY EventUser
  <2>2. LostKnown'
    BY <1>1, <1>3, <2>1 DEF AppliedInv, LostKnown
  <2>3. EventsApplied'
    BY <1>1, <1>3 DEF AppliedInv, EventsApplied
  <2> QED BY <2>2, <2>3
<1> QED BY <1>2, <1>3

LEMMA HandlingApplied ==
  ASSUME Mirroring, AppliedInv,
         CreateGrafanaUser \/ Resolve \/ (\E p \in Project : LookUp(p)) \/ Join
           \/ RemoveMembers \/ DeleteGrafanaUser
  PROVE  /\ Unhandled("users") /\ UNCHANGED <<topic, user, changed, keystone, cleanup, listed>>
         /\ faults' = 0 => faults = 0
         /\ Strike => faults' # 0
<1>1. Unhandled("users")
  BY ReadsUnhandled
     DEF Mirroring, CreateGrafanaUser, Resolve, LookUp, Join, RemoveMembers, DeleteGrafanaUser
<1>2. UNCHANGED <<topic, user, changed>>
  BY OsmStands DEF Consume
<1>3. UNCHANGED <<keystone, cleanup, listed>>
  BY DEF CreateGrafanaUser, Resolve, LookUp, Join, RemoveMembers, DeleteGrafanaUser, loop
<1>4. Strike \/ faults' = faults
  BY DEF CreateGrafanaUser, Resolve, LookUp, Join, RemoveMembers, DeleteGrafanaUser
<1> QED BY <1>1, <1>2, <1>3, <1>4, FaultsStay DEF Mirroring, TypeInv, TypeOK

\* An event that ends is followed by the next.
LEMMA Ends ==
  ASSUME TypeInv, Finish \/ \E why : Raise(why)
  PROVE  handled'["users"] = Now /\ pc' = "idle"
BY DEF Finish, Raise, Return, Now, TypeInv, TypeOK, Topic

LEMMA CreateGrafanaUserApplied ==
  ASSUME Mirroring, AppliedInv, CreateGrafanaUser
  PROVE  AppliedInv'
<1> USE HandlingApplied DEF Mirroring
<1>1. Event.key = "created" /\ pc = "idle"
  BY DEF CreateGrafanaUser, Reads
<1>2. /\ \/ Finish \/ Raise("raised")
         \/ pc' = "resolve" /\ UNCHANGED <<handled, lost>>
      /\ users' \in {users, users \cup {Event.user}}
      /\ \/ /\ Event.user \in users' /\ UNCHANGED lost
         \/ Event.user \in users /\ Raise("raised")
         \/ Strike /\ Raise("raised")
  BY DEF CreateGrafanaUser, bus, Finish
<1>3. faults' = 0 /\ ~keystone => Event.user \in users' /\ UNCHANGED lost
  BY <1>1, <1>2, UserInHand
<1>4. CreationsApplied'
  <2>1. \/ UNCHANGED handled /\ pc' # "idle"
        \/ handled'["users"] = Now /\ pc' = "idle"
    BY <1>2, Ends
  <2> QED BY <1>2, <1>3, <2>1, CreationsStep
<1>5. LostKnown' /\ EventsApplied'
  BY <1>2, <1>3, LostStep DEF Raise, Finish
<1> QED BY <1>4, <1>5 DEF AppliedInv, LoopIdle

LEMMA ResolveApplied ==
  ASSUME Mirroring, AppliedInv, Resolve
  PROVE  AppliedInv'
<1> USE HandlingApplied DEF Mirroring
<1>1. (pc # "idle" \/ Event.key # "created") /\ users' = users
  BY DEF Resolve, Reads, grafana
<1>2. \/ pc' = "look_up" /\ UNCHANGED <<handled, lost>>
      \/ Event.user \notin Present /\ Raise("raised")
      \/ Strike /\ Raise("raised")
  BY DEF Resolve, UserFound, bus
<1>3. CreationsApplied'
  <2>1. \/ UNCHANGED handled /\ pc' # "idle"
        \/ handled'["users"] = Now /\ pc' = "idle"
    BY <1>2, Ends
  <2> QED BY <1>1, <2>1, UserInHand, CreationsStep
<1>4. LostKnown' /\ EventsApplied'
  BY <1>2, LostStep DEF Raise
<1> QED BY <1>3, <1>4 DEF AppliedInv, LoopIdle

\* While names are steady the team of a mapping in hand is there to be found.
LEMMA TeamsFound ==
  ASSUME TypeInv, LogInv, Unhandled("users"), ~keystone, changed = {},
         NEW p \in Projects(Event)
  PROVE  TeamsFor(p) # {}
<1>1. Event.names[p] = project[p]
  BY EventAt DEF LogInv, NamesTold
<1>2. Event.names[p] \in Name
  BY EventAt DEF Projects, UserEvent, Mapped
<1> QED BY <1>1, <1>2 DEF TeamsFor

LEMMA LookUpApplied ==
  ASSUME Mirroring, AppliedInv, NEW p \in Project, LookUp(p)
  PROVE  AppliedInv'
<1> USE HandlingApplied DEF Mirroring
<1>1. pc = "look_up" /\ p \in Projects(Event)
  BY DEF LookUp, GrafanaInv, TodoMapped
<1>2. /\ users' \in {users, users \cup {Event.user}}
      /\ \/ pc' = "join" /\ UNCHANGED <<handled, lost>>
         \/ TeamsFor(p) = {} /\ Raise("raised")
         \/ Strike /\ Raise("raised")
  BY DEF LookUp, bus
<1>3. CreationsApplied'
  <2>1. \/ UNCHANGED handled /\ pc' # "idle"
        \/ handled'["users"] = Now /\ pc' = "idle"
    BY <1>2, Ends
  <2> QED BY <1>1, <1>2, <2>1, UserInHand, CreationsStep
<1>4. LostKnown' /\ EventsApplied'
  BY <1>1, <1>2, TeamsFound, LostStep DEF Raise
<1> QED BY <1>3, <1>4 DEF AppliedInv, LoopIdle

LEMMA JoinApplied ==
  ASSUME Mirroring, AppliedInv, Join
  PROVE  AppliedInv'
<1> USE HandlingApplied DEF Mirroring
<1>1. pc = "join" /\ users' = users
  BY DEF Join
<1>2. \/ pc' = "look_up" /\ UNCHANGED <<handled, lost>>
      \/ Finish
      \/ Strike /\ Raise("raised")
  BY DEF Join, bus
<1>3. CreationsApplied'
  <2>1. \/ UNCHANGED handled /\ pc' # "idle"
        \/ handled'["users"] = Now /\ pc' = "idle"
    BY <1>2, Ends
  <2> QED BY <1>1, <2>1, UserInHand, CreationsStep
<1>4. LostKnown' /\ EventsApplied'
  BY <1>2, LostStep DEF Raise, Finish
<1> QED BY <1>3, <1>4 DEF AppliedInv, LoopIdle

LEMMA RemoveMembersApplied ==
  ASSUME Mirroring, AppliedInv, RemoveMembers
  PROVE  AppliedInv'
<1> USE HandlingApplied DEF Mirroring
<1>1. Event.key = "removed" /\ users' = users
  BY DEF RemoveMembers, Reads
<1>2. \/ Finish
      \/ Raise("teamless")
      \/ ~(Event.user \in Present /\ Event.user \in users) /\ Raise("raised")
      \/ Strike /\ Raise("raised")
  BY DEF RemoveMembers, UserFound
<1>3. CreationsApplied'
  <2>1. handled'["users"] = Now /\ pc' = "idle"
    BY <1>2, Ends
  <2> QED BY <1>1, <2>1, UserInHand, CreationsStep
<1>4. LostKnown' /\ EventsApplied'
  BY <1>1, <1>2, UserInHand, LostStep DEF Raise, Finish
<1> QED BY <1>3, <1>4 DEF AppliedInv, LoopIdle

LEMMA DeleteGrafanaUserApplied ==
  ASSUME Mirroring, AppliedInv, DeleteGrafanaUser
  PROVE  AppliedInv'
<1> USE HandlingApplied DEF Mirroring
<1>1. users' = users \ {Event.user} \/ users' = users
  BY DEF DeleteGrafanaUser, Removed
<1>2. Event.user \notin Present
  <2>1. Event.key = "deleted" /\ Unhandled("users")
    BY DEF DeleteGrafanaUser, Reads
  <2> QED BY <2>1, EventAt DEF LogInv, UsersTold, Present
<1>3. Finish \/ Raise("raised")
  BY DEF DeleteGrafanaUser
<1>4. CreationsApplied'
  BY <1>1, <1>2, <1>3, Ends, CreationsStep
<1>5. LostKnown' /\ EventsApplied'
  BY <1>2, <1>3, LostStep DEF Raise, Finish
<1> QED BY <1>4, <1>5 DEF AppliedInv, LoopIdle

LEMMA HandleTeamApplied ==
  ASSUME Mirroring, AppliedInv, HandleTeam
  PROVE  AppliedInv'
<1> USE DEF Mirroring
<1>1. /\ UNCHANGED <<keystone, user, changed, users, lost, cleanup, listed, pc, topic>>
      /\ handled'["users"] = handled["users"]
  BY DEF HandleTeam, Return, osm, loop, TypeInv, TypeOK, Topic
<1>2. faults' = 0 => faults = 0
  BY FaultsStay DEF HandleTeam, TypeInv, TypeOK
<1>3. /\ Place' = Place /\ Log' = Log /\ Present' = Present
      /\ \A i : Read(i)' <=> Read(i)
  BY <1>1 DEF Place, Log, Present, Read, Now
<1> QED BY <1>1, <1>2, <1>3
        DEF AppliedInv, LoopIdle, LostKnown, CreationsApplied, EventsApplied

\* Nothing is told of users, or an event that creates none that OSM has.
Tells ==
  \/ Log' = Log
  \/ \E e : /\ Told(e)
            /\ e.key = "created" => user[e.user] = "absent" /\ e.user \in User

\* An event that is sent is not read yet.
LEMMA SentApplied ==
  ASSUME Mirroring, AppliedInv,
         Tells, UNCHANGED <<keystone, handled, grafana, handler, loop, lost, faults>>,
         \A u \in Present' : u \in Present \/ (u \in User /\ user[u] = "absent"),
         \A u \in User : user'[u] = "absent" => user[u] = "absent",
         changed \subseteq changed'
  PROVE  AppliedInv'
<1> USE DEF Mirroring
<1>1. UNCHANGED <<users, pc, cleanup, listed>> /\ Now' = Now
  BY DEF grafana, handler, loop, Now
<1>2. \A i : Read(i)' <=> Read(i)
  BY <1>1 DEF Read
<1>3. LoopIdle' /\ LostKnown'
  BY <1>1 DEF AppliedInv, LoopIdle, LostKnown
<1>4. EventsApplied'
  <2> SUFFICES ASSUME faults = 0, changed' = {}, ~keystone, NEW u \in Present'
               PROVE  lost[u] \in {"no", "teamless"}
    BY DEF EventsApplied
  <2> QED BY DEF AppliedInv, LostKnown, EventsApplied
<1>5. CreationsApplied'
  <2> SUFFICES ASSUME faults = 0, ~keystone, NEW i \in Place', Log'[i].key = "created"
               PROVE  /\ Log'[i].user \in users => Read(i)
                      /\ Read(i) /\ Log'[i].user \in Present' => Log'[i].user \in users
    BY <1>1, <1>2 DEF CreationsApplied
  <2>1. CASE i \in Place /\ Log'[i] = Log[i]
    <3>1. user[Log[i].user] # "absent"
      BY <2>1 DEF LogInv, UsersTold
    <3>2. Log[i].user \in Present' => Log[i].user \in Present
      BY <3>1
    <3> QED BY <2>1, <3>2 DEF AppliedInv, CreationsApplied
  <2>2. CASE ~(i \in Place /\ Log'[i] = Log[i])
    <3>1. PICK e : Told(e) /\ (e.key = "created" => user[e.user] = "absent" /\ e.user \in User)
      BY <2>2 DEF Place, Tells
    <3>2. i = Len(Log) + 1 /\ Log'[i] = e
      BY <2>2, <3>1, LogType DEF TypeInv, Told, Place
    <3>3. ~Read(i)
      <4>1. i > Now \/ (i = Now /\ pc = "idle")
        BY <3>2, LastAhead DEF MirrorInv
      <4>2. i \in Nat /\ Now \in Nat
        BY <3>2, LogType, NowType DEF TypeInv
      <4> QED BY <4>1, <4>2 DEF Read
    <3>4. e.user \notin users
      BY <3>1, <3>2 DEF GrafanaInv, UsersKnown
    <3> QED BY <3>2, <3>3, <3>4
  <2> QED BY <2>1, <2>2
<1> QED BY <1>3, <1>4, <1>5 DEF AppliedInv

LEMMA OsmStepApplied ==
  ASSUME Mirroring, AppliedInv,
         \/ \E u \in User, S \in SUBSET Project : CreateUser(u, S)
         \/ \E u \in User, A, R \in SUBSET Project : EditUser(u, A, R)
         \/ \E u \in User : DeleteUser(u)
         \/ \E p \in Project, n \in Name : CreateProject(p, n) \/ RenameProject(p, n)
         \/ \E p \in Project : DeleteProject(p)
  PROVE  AppliedInv'
<1> USE DEF Mirroring
<1>1. ASSUME NEW u \in User, NEW key \in {"created", "edited", "removed", "deleted"},
             NEW S \in SUBSET Existing, SendUser(u, key, S),
             key = "created" => user[u] = "absent"
      PROVE  /\ UNCHANGED <<keystone, handled, grafana, handler, loop, lost, faults>>
             /\ Tells
  BY <1>1, SentUser DEF About, Tells
<1>2. ASSUME NEW e, Send("project", e)
      PROVE  Tells /\ UNCHANGED <<keystone, handled, grafana, handler, loop, lost, faults>>
  BY <1>2, SentTeam DEF Tells
<1>3. user \in [User -> Lifetime]
  BY DEF TypeInv, TypeOK
<1>4. ASSUME NEW u \in User, NEW S \in SUBSET Project, CreateUser(u, S) PROVE AppliedInv'
  <2>1. \A v \in Present' : v \in Present \/ (v \in User /\ user[v] = "absent")
    BY <1>3, <1>4 DEF CreateUser, Present
  <2>2. \A v \in User : user'[v] = "absent" => user[v] = "absent"
    BY <1>3, <1>4 DEF CreateUser
  <2> QED BY <1>1, <1>4, <2>1, <2>2, SentApplied DEF CreateUser
<1>5. ASSUME NEW u \in User, NEW A \in SUBSET Project, NEW R \in SUBSET Project, EditUser(u, A, R)
      PROVE  AppliedInv'
  <2>1. A \subseteq Existing /\ R \subseteq Existing
    BY <1>5 DEF EditUser, TypeInv, MappingsExist
  <2>2. UNCHANGED <<user, changed>> /\ Present' = Present
    BY <1>5 DEF EditUser, Present
  <2> QED BY <1>1, <1>5, <2>1, <2>2, SentApplied DEF EditUser
<1>6. ASSUME NEW u \in User, DeleteUser(u) PROVE AppliedInv'
  <2>1. \A v \in Present' : v \in Present
    BY <1>3, <1>6 DEF DeleteUser, Present
  <2>2. \A v \in User : user'[v] = "absent" => user[v] = "absent"
    BY <1>3, <1>6 DEF DeleteUser
  <2> QED BY <1>1, <1>6, <2>1, <2>2, SentApplied DEF DeleteUser
<1>7. ASSUME NEW p \in Project, NEW n \in Name,
             CreateProject(p, n) \/ RenameProject(p, n) \/ DeleteProject(p)
      PROVE  AppliedInv'
  <2>1. \E e : Send("project", e)
    BY <1>7 DEF CreateProject, RenameProject, DeleteProject
  <2>2. UNCHANGED user /\ Present' = Present /\ changed \subseteq changed'
    BY <1>7 DEF CreateProject, RenameProject, DeleteProject, Present
  <2> QED BY <1>2, <2>1, <2>2, SentApplied
<1>8. CASE \E p \in Project : DeleteProject(p)
  <2>1. PICK p \in Project : DeleteProject(p)
    BY <1>8
  <2>2. project[p] \in Name
    BY <2>1, ExistingNamed DEF DeleteProject
  <2> QED BY <1>7, <2>1, <2>2
<1> QED BY <1>4, <1>5, <1>6, <1>7, <1>8

\* The loop deletes nobody of whom the database tells.
LEMMA LoopApplied ==
  ASSUME Mirroring, AppliedInv, Loop
  PROVE  AppliedInv'
<1> USE DEF Mirroring
<1>1. UNCHANGED <<keystone, user, changed>>
  BY OsmStands DEF Loop, ListUsers, ListGrafanaUsers, DeleteObsolete, EndCleanup
<1>2. keystone
  BY DEF AppliedInv, LoopIdle, Loop, ListUsers, ListGrafanaUsers, DeleteObsolete, EndCleanup
<1>3. \/ lost' = lost
      \/ \E v \in User : v \in users /\ lost' = [lost EXCEPT ![v] = "cleaned"]
  BY DEF Loop, ListUsers, ListGrafanaUsers, DeleteObsolete, EndCleanup
<1>4. LostKnown'
  <2>1. lost \in [User -> {"no", "raised", "teamless", "cleaned"}]
    BY DEF TypeInv, TypeOK
  <2> QED BY <1>1, <1>3, <2>1 DEF AppliedInv, LostKnown, GrafanaInv, UsersKnown
<1> QED BY <1>1, <1>2, <1>4 DEF AppliedInv, LoopIdle, CreationsApplied, EventsApplied

LEMMA RedeliverApplied ==
  ASSUME Mirroring, AppliedInv, LoseSubscription \/ Crash
  PROVE  AppliedInv'
<1>1. UNCHANGED <<keystone, user, lost>> /\ faults' # 0
  BY FaultsStay DEF LoseSubscription, Crash, osm, Mirroring, TypeInv, TypeOK
<1>2. UNCHANGED <<cleanup, listed>> \/ LeaveCleanup
  BY DEF LoseSubscription, Crash, loop
<1> QED BY <1>1, <1>2
        DEF AppliedInv, LoopIdle, LeaveCleanup, LostKnown, CreationsApplied, EventsApplied

LEMMA AppliedStep == Mirroring /\ AppliedInv /\ [Next]_vars => AppliedInv'
<1> SUFFICES ASSUME Mirroring, AppliedInv, [Next]_vars PROVE AppliedInv'
  OBVIOUS
<1>1. CASE Consume
  BY <1>1, HandleTeamApplied, CreateGrafanaUserApplied, ResolveApplied, LookUpApplied,
     JoinApplied, RemoveMembersApplied, DeleteGrafanaUserApplied DEF Consume
<1>2. CASE UNCHANGED vars
  <2>1. UNCHANGED <<keystone, user, changed, users, lost, cleanup, listed, pc, topic, handled, faults>>
    BY <1>2 DEF vars, osm, grafana, bus, handler, loop
  <2>2. /\ Place' = Place /\ Log' = Log /\ Present' = Present
        /\ \A i : Read(i)' <=> Read(i)
    BY <2>1 DEF Place, Log, Present, Read, Now
  <2> QED BY <2>1, <2>2
          DEF AppliedInv, LoopIdle, LostKnown, CreationsApplied, EventsApplied
<1> QED BY <1>1, <1>2, StepKinds, OsmStepApplied, LoopApplied, RedeliverApplied

\* While projects keep their names, and without faults, no event about a user of the
\* database is cut short, for any number of users and projects and whatever the order
\* in which the two topics are read: the user and the teams that an event tells of are
\* there when it is handled (dashboarder.py _user_msg, service.py
\* create_grafana_teams_members).
THEOREM NothingCutShort == Spec => []EventsApplied
<1>1. Init => AppliedInv
  <2> SUFFICES ASSUME Init PROVE AppliedInv
    OBVIOUS
  <2>1. Place = {} /\ Present = {}
    BY DEF Init, Place, Log, Topic, Present
  <2> QED BY <2>1
          DEF Init, AppliedInv, LoopIdle, LostKnown, CreationsApplied, EventsApplied
<1>2. Spec => []AppliedInv
  BY <1>1, AppliedStep, MirroringHolds, PTL DEF Spec
<1> QED BY <1>2, PTL DEF AppliedInv

=============================================================================

----------------------------- MODULE Dashboards -----------------------------
(***************************************************************************)
(* MON Dashboarder, first part: the loop that keeps a dashboard in Grafana *)
(* for each project, each Kubernetes cluster and each monitored NS of OSM  *)
(* (create_dashboards of osm_mon/dashboarder/service.py, and what it uses  *)
(* of osm_mon/dashboarder/backends/grafana.py).                            *)
(*                                                                         *)
(* A pass lists what Grafana has, walks over what OSM has and creates what *)
(* is missing, then deletes what it listed first and did not meet on its   *)
(* walk.  Meanwhile resources come and go, and the consumer of the same    *)
(* process, in a thread of its own, deletes the folder of a project, with  *)
(* the dashboards in it, when it hears that the project was deleted.       *)
(***************************************************************************)
EXTENDS Naturals, Sequences, FiniteSets

CONSTANTS
  Project, Cluster, Ns,  \* all that will ever exist
  ProjectOf,             \* the project of a cluster or NS: projects_read[0]
  NameOf,                \* the name of each
  Monitored,             \* the NSs whose VNFDs declare a monitoring parameter
  Keystone,              \* whether projects are kept in keystone
  FaultKind,             \* the kinds of fault that may strike
  MaxFaults              \* bound: how many faults strike in all

Resource == Project \cup Cluster \cup Ns

ASSUME KindsAssumption == /\ Project \cap Cluster = {}
                          /\ Project \cap Ns = {}
                          /\ Cluster \cap Ns = {}
ASSUME ProjectOfAssumption == ProjectOf \in [Cluster \cup Ns -> Project]
ASSUME NameOfAssumption == NameOf \in [Resource -> STRING \ {"General", "none"}]
ASSUME MonitoredAssumption == Monitored \subseteq Ns
ASSUME KeystoneAssumption == Keystone \in BOOLEAN
ASSUME FaultsAssumption == /\ FaultKind \subseteq {"db", "keystone", "grafana", "crash"}
                           /\ MaxFaults \in Nat

VARIABLES
  osm,                 \* the resources in OSM
  events,              \* what the consumer has still to do about deleted projects
  place,               \* the folder of each dashboard, or "none" without one
  folders,             \* the folders in Grafana
  datasources,         \* clusters whose data source Grafana has
  pc,                  \* where the loop is
  dashboardUids,       \* dashboard_uids, less those dealt with
  datasourceNames,     \* datasource_names, less those dealt with
  projects,            \* what was listed as projects
  todo,                \* what the outer loop at pc has still to visit
  clusters,            \* clusters the inner loop has still to visit
  osmResourceUids,     \* osm_resource_uids
  osmDatasourceNames,  \* osm_datasource_names
  project,             \* the project of the outer loop
  projectName,         \* project_name, which is never reset
  subject,             \* whose dashboard is being created
  folderId,            \* in which folder
  faults               \* history: the kinds of the faults that struck, oldest first

world == <<osm, events>>
grafana == <<place, folders, datasources>>
listed == <<dashboardUids, datasourceNames, projects>>
walk == <<todo, clusters, osmResourceUids, osmDatasourceNames, project, projectName>>
creation == <<subject, folderId>>
vars == <<world, grafana, pc, listed, walk, creation, faults>>

Lifetime == {"absent", "present", "gone"}

Present == {r \in Resource : osm[r] = "present"}

Names(S) == {NameOf[r] : r \in S}

\* A dashboard without a folder of its project is in Grafana's general folder.
General == "General"
Nowhere == "none"
Folder == Names(Project)

InGrafana == {r \in Resource : place[r] # Nowhere}

Kind(r) == IF r \in Project THEN Project ELSE IF r \in Cluster THEN Cluster ELSE Ns

PC == {"start", "list_projects", "cluster", "folder", "list_clusters", "look_up", "post", "ns"}

TypeOK ==
  /\ osm \in [Resource -> Lifetime]
  /\ events \in [Project -> {"none", "folder", "team"}]
  /\ place \in [Resource -> Folder \cup {General, Nowhere}]
  /\ folders \subseteq Folder
  /\ datasources \subseteq Cluster
  /\ pc \in PC
  /\ dashboardUids \subseteq Resource
  /\ datasourceNames \subseteq Names(Cluster)
  /\ projects \subseteq Project
  /\ todo \subseteq Resource
  /\ clusters \subseteq Cluster
  /\ osmResourceUids \subseteq Resource
  /\ osmDatasourceNames \subseteq Names(Cluster)
  /\ project \in Project \cup {Nowhere}
  /\ projectName \in Folder \cup {Nowhere}
  /\ subject \in Resource \cup {Nowhere}
  /\ folderId \in Folder \cup {General}
  /\ faults \in Seq(FaultKind)

\* OSM is in use already; Grafana is empty.
Init ==
  /\ osm \in [Resource -> {"absent", "present"}]
  /\ \A r \in Cluster \cup Ns : osm[r] = "present" => osm[ProjectOf[r]] = "present"
  /\ \A r, q \in Present : r # q /\ Kind(r) = Kind(q) => NameOf[r] # NameOf[q]
  /\ events = [p \in Project |-> "none"]
  /\ place = [r \in Resource |-> Nowhere]
  /\ folders = {}
  /\ datasources = {}
  /\ pc = "start"
  /\ dashboardUids = {} /\ datasourceNames = {} /\ projects = {}
  /\ todo = {} /\ clusters = {} /\ osmResourceUids = {} /\ osmDatasourceNames = {}
  /\ project = Nowhere /\ projectName = Nowhere
  /\ subject = Nowhere /\ folderId = General
  /\ faults = <<>>

Strike(kind) ==
  /\ kind \in FaultKind
  /\ Len(faults) < MaxFaults
  /\ faults' = Append(faults, kind)

Struck(kind) == \E i \in DOMAIN faults : faults[i] = kind

-----------------------------------------------------------------------------
(* OSM.  A resource needs its project, and names are unique.               *)

Appear(r) ==
  /\ osm[r] = "absent"
  /\ r \in Cluster \cup Ns => ProjectOf[r] \in Present
  /\ \A q \in Present : Kind(q) = Kind(r) => NameOf[q] # NameOf[r]
  /\ osm' = [osm EXCEPT ![r] = "present"]
  /\ UNCHANGED <<events, grafana, pc, listed, walk, creation, faults>>

Vanish(r) ==
  /\ r \in Present
  /\ \A q \in Present \ Project : ProjectOf[q] # r
  /\ osm' = [osm EXCEPT ![r] = "gone"]
  /\ events' = [p \in Project |-> IF p = r THEN "folder" ELSE events[p]]
  /\ UNCHANGED <<grafana, pc, listed, walk, creation, faults>>

-----------------------------------------------------------------------------
(* The consumer.  An operator marked "Mutant" is used by no behaviour.     *)

\* delete_grafana_team: Grafana deletes the dashboards of a folder with it.  An
\* exception ends in the except of _user_msg, and the event is lost.
DeleteFolder(p) ==
  /\ events[p] = "folder"
  /\ \/ /\ events' = [events EXCEPT ![p] = "team"]
        /\ UNCHANGED faults
     \/ /\ Strike("grafana")
        /\ events' = [events EXCEPT ![p] = "none"]
  /\ \/ /\ folders' = folders \ {NameOf[p]}
        /\ place' = [r \in Resource |-> IF place[r] = NameOf[p] THEN Nowhere ELSE place[r]]
     \/ faults' # faults /\ UNCHANGED <<folders, place>>
  /\ UNCHANGED <<osm, datasources, pc, listed, walk, creation>>

\* Teams matter here only to CreateFolder.
DeleteTeam(p) ==
  /\ events[p] = "team"
  /\ events' = [events EXCEPT ![p] = "none"]
  /\ UNCHANGED <<osm, grafana, pc, listed, walk, creation, faults>>

-----------------------------------------------------------------------------
(* The loop                                                                *)

\* create_dashboards returns or raises, and its variables are gone.
Leave ==
  /\ pc' = "start"
  /\ dashboardUids' = {} /\ datasourceNames' = {} /\ projects' = {}
  /\ todo' = {} /\ clusters' = {} /\ osmResourceUids' = {} /\ osmDatasourceNames' = {}
  /\ project' = Nowhere /\ projectName' = Nowhere
  /\ subject' = Nowhere /\ folderId' = General

\* grafana_cleanup, of which the model has only that it may raise, comes first.
StartFails == Strike("grafana") \/ (Keystone /\ Strike("keystone"))

ListGrafana ==
  /\ pc = "start"
  /\ \/ /\ dashboardUids' = InGrafana
        /\ datasourceNames' = Names(datasources)
        /\ pc' = "list_projects"
        /\ UNCHANGED <<projects, walk, creation, faults>>
     \/ StartFails /\ Leave
  /\ UNCHANGED <<world, grafana>>

\* keystone's exceptions are swallowed, those of the database are not.
ListProjects ==
  /\ pc = "list_projects"
  /\ \/ /\ projects' = Present \cap Project
        /\ UNCHANGED faults
     \/ /\ Keystone
        /\ Strike("keystone")
        /\ projects' = {}
  /\ todo' = projects'
  /\ clusters' = {}
  /\ pc' = "cluster"
  /\ UNCHANGED <<world, grafana, dashboardUids, datasourceNames, osmResourceUids,
                 osmDatasourceNames, project, projectName, creation>>

ListProjectsFails ==
  /\ pc = "list_projects"
  /\ ~Keystone
  /\ Strike("db")
  /\ Leave
  /\ UNCHANGED <<world, grafana>>

\* The clusters of the last project were visited.
ProjectDone == pc = "cluster" /\ clusters = {}

VisitProject(p) ==
  /\ ProjectDone
  /\ p \in todo
  /\ todo' = todo \ {p}
  /\ project' = p
  /\ osmResourceUids' = osmResourceUids \cup {p}
  /\ IF p \in dashboardUids
       THEN pc' = "list_clusters" /\ UNCHANGED <<projectName, subject>>
       ELSE /\ projectName' = NameOf[p]
            /\ subject' = p
            /\ pc' = IF NameOf[p] = "admin" THEN "look_up" ELSE "folder"
  /\ UNCHANGED <<world, grafana, listed, clusters, osmDatasourceNames, folderId, faults>>

\* create_grafana_folders: the status of the requests is not looked at, and what
\* they raise is not caught; nor is the failure to find the team it has created
\* or met, when the consumer deletes the team meanwhile.
CreateFolder ==
  /\ pc = "folder"
  /\ \/ folders' = folders \cup {NameOf[project]} /\ UNCHANGED faults
     \/ folders' \in {folders, folders \cup {NameOf[project]}} /\ Strike("grafana")
  /\ \/ pc' = "look_up" /\ UNCHANGED <<listed, walk, creation>>
     \/ /\ \/ \E p \in Project : events[p] = "team" /\ NameOf[p] = NameOf[project]
           \/ faults' # faults
        /\ Leave
  /\ UNCHANGED <<world, place, datasources>>

\* Mutant: only the clusters that get a dashboard count as clusters of OSM.
ListClustersCreatedOnly ==
  /\ pc = "list_clusters"
  /\ clusters' = {c \in Present \cap Cluster :
                    ProjectOf[c] = project /\ c \notin dashboardUids}
  /\ osmResourceUids' = osmResourceUids \cup clusters'
  /\ osmDatasourceNames' = osmDatasourceNames \cup Names(Present \cap Cluster)
  /\ pc' = "cluster"
  /\ UNCHANGED <<world, grafana, listed, todo, project, projectName, creation, faults>>

\* The clusters are listed again for each project.
ListClusters ==
  /\ pc = "list_clusters"
  /\ \/ /\ clusters' = {c \in Present \cap Cluster :
                          ProjectOf[c] = project /\ c \notin dashboardUids}
        /\ osmResourceUids' = osmResourceUids \cup (Present \cap Cluster)
        /\ osmDatasourceNames' = osmDatasourceNames \cup Names(Present \cap Cluster)
        /\ pc' = "cluster"
        /\ UNCHANGED <<todo, project, projectName, listed, creation, faults>>
     \/ Strike("db") /\ Leave
  /\ UNCHANGED <<world, grafana>>

\* Mutant: the data source is left to the next pass, which has the dashboard.
VisitClusterWithoutSource(c) ==
  /\ pc = "cluster"
  /\ c \in clusters
  /\ clusters' = clusters \ {c}
  /\ subject' = c
  /\ pc' = "look_up"
  /\ UNCHANGED <<world, grafana, listed, todo, osmResourceUids, osmDatasourceNames,
                 project, projectName, folderId, faults>>

\* create_datasource swallows what it raises.  Names of data sources are unique.
VisitCluster(c) ==
  /\ pc = "cluster"
  /\ c \in clusters
  /\ clusters' = clusters \ {c}
  /\ \/ /\ datasources' = IF NameOf[c] \in datasourceNames \cup Names(datasources)
                            THEN datasources ELSE datasources \cup {c}
        /\ UNCHANGED faults
     \/ /\ NameOf[c] \notin datasourceNames
        /\ Strike("grafana")
        /\ UNCHANGED datasources
  /\ subject' = c
  /\ pc' = "look_up"
  /\ UNCHANGED <<world, place, folders, listed, todo, osmResourceUids,
                 osmDatasourceNames, project, projectName, folderId>>

-----------------------------------------------------------------------------
(* create_dashboard                                                        *)

\* Where create_dashboard looks for a folder: a cluster of the project admin is
\* created without a project name, and then its own name is taken.
FolderName ==
  CASE subject \in Ns -> projectName
    [] subject \in Cluster /\ NameOf[project] # "admin" -> NameOf[project]
    [] OTHER -> NameOf[subject]

Created == IF subject \in Project THEN "list_clusters"
           ELSE IF subject \in Cluster THEN "cluster" ELSE "ns"

\* Mutant: the folder's identifier is taken without a look at the status.
LookUpFolderUnset ==
  /\ pc = "look_up"
  /\ folderId' = IF FolderName \in folders THEN FolderName ELSE Nowhere
  /\ pc' = "post"
  /\ UNCHANGED <<world, grafana, listed, walk, subject, faults>>

LookUpFolder ==
  /\ pc = "look_up"
  /\ \/ /\ folderId' = IF FolderName \in folders THEN FolderName ELSE General
        /\ pc' = "post"
        /\ UNCHANGED <<subject, faults>>
     \/ /\ Strike("grafana")
        /\ folderId' = General
        /\ \/ pc' = "post" /\ UNCHANGED subject
           \/ pc' = Created /\ subject' = Nowhere
  /\ UNCHANGED <<world, grafana, listed, walk>>

\* Grafana rejects a second dashboard with the same title in a folder ("name-exists").
NameExists(where) ==
  \E r \in Resource \ {subject} :
    where[r] = folderId /\ Kind(r) = Kind(subject) /\ NameOf[r] = NameOf[subject]

\* delete_admin_dashboard, by the title of the admin's project dashboard.
WithoutAdmin ==
  [r \in Resource |-> IF r \in Project /\ NameOf[r] = "admin" THEN Nowhere ELSE place[r]]

\* What is there when the dashboard is posted for the last time.
Cleared ==
  IF NameExists(place) /\ NameOf[subject] = "admin" THEN WithoutAdmin ELSE place

Posted ==
  IF NameExists(Cleared) \/ folderId \notin folders \cup {General}
    THEN Cleared
    ELSE [Cleared EXCEPT ![subject] = folderId]

\* Whatever is raised is swallowed, before or after the dashboard is there.
PostDashboard ==
  /\ pc = "post"
  /\ \/ place' = Posted /\ UNCHANGED faults
     \/ Strike("grafana") /\ place' \in {place, Cleared, Posted}
  /\ pc' = Created
  /\ subject' = Nowhere /\ folderId' = General
  /\ UNCHANGED <<world, folders, datasources, listed, walk>>

-----------------------------------------------------------------------------
(* NSs, and the end of a pass                                              *)

ListNss ==
  /\ ProjectDone
  /\ todo = {}
  /\ \/ /\ todo' = Present \cap Ns
        /\ osmResourceUids' = osmResourceUids \cup (Present \cap Ns)
        /\ pc' = "ns"
        /\ UNCHANGED <<listed, clusters, osmDatasourceNames, project, projectName,
                       creation, faults>>
     \/ Strike("db") /\ Leave
  /\ UNCHANGED <<world, grafana>>

\* The project of an NS is looked for in the database, or else among those listed.
FoundProjects == IF Keystone THEN projects ELSE Present \cap Project

\* An NS whose project is not found gets the name of an earlier one.  Without an
\* earlier one its VNFD counts as not valid.
NameFor(n, found) == IF ProjectOf[n] \in found THEN NameOf[ProjectOf[n]] ELSE projectName

\* The database raises when it is asked for the VNFD, or for the project.
FailingNames == IF Keystone THEN {Nowhere} ELSE {Nowhere, projectName}

\* Mutant: the project left over from the loop over projects is taken.
VisitNsOfLastProject(n) ==
  /\ pc = "ns"
  /\ n \in todo
  /\ todo' = todo \ {n}
  /\ IF n \in Monitored \ dashboardUids /\ project # Nowhere
       THEN projectName' = NameOf[project] /\ subject' = n /\ pc' = "look_up"
       ELSE UNCHANGED <<projectName, subject, pc>>
  /\ UNCHANGED <<world, grafana, listed, clusters, osmResourceUids, osmDatasourceNames,
                 project, folderId, faults>>

VisitNs(n) ==
  /\ pc = "ns"
  /\ n \in todo
  /\ todo' = todo \ {n}
  /\ \E name \in {NameFor(n, FoundProjects)} \cup FailingNames :
       /\ \/ name = NameFor(n, FoundProjects) /\ UNCHANGED faults
          \/ name \in FailingNames /\ n \in Monitored /\ Strike("db")
       /\ IF n \in Monitored \ dashboardUids /\ name # Nowhere
            THEN projectName' = name /\ subject' = n /\ pc' = "look_up"
            ELSE UNCHANGED <<projectName, subject, pc>>
  /\ UNCHANGED <<world, grafana, listed, clusters, osmResourceUids, osmDatasourceNames,
                 project, folderId>>

NssDone == pc = "ns" /\ todo = {}

ObsoleteDashboards == dashboardUids \ osmResourceUids
ObsoleteDatasources == datasourceNames \ osmDatasourceNames

\* Mutant: what was deleted meanwhile is left to the consumer.
DeleteDashboardOfNs(r) ==
  /\ NssDone
  /\ r \in ObsoleteDashboards
  /\ dashboardUids' = dashboardUids \ {r}
  /\ place' = IF r \in Ns THEN [place EXCEPT ![r] = Nowhere] ELSE place
  /\ UNCHANGED <<world, folders, datasources, pc, datasourceNames, projects, walk,
                 creation, faults>>

\* The status is not looked at, and what is raised is not caught.
DeleteDashboard(r) ==
  /\ NssDone
  /\ r \in ObsoleteDashboards
  /\ \/ place' = [place EXCEPT ![r] = Nowhere] /\ UNCHANGED faults
     \/ place' \in {place, [place EXCEPT ![r] = Nowhere]} /\ Strike("grafana")
  /\ \/ /\ dashboardUids' = dashboardUids \ {r}
        /\ UNCHANGED <<pc, datasourceNames, projects, walk, creation>>
     \/ faults' # faults /\ Leave
  /\ UNCHANGED <<world, folders, datasources>>

Sources(name) == {c \in datasources : NameOf[c] = name}

DeleteDatasource(name) ==
  /\ NssDone
  /\ ObsoleteDashboards = {}
  /\ name \in ObsoleteDatasources
  /\ \/ datasources' = datasources \ Sources(name) /\ UNCHANGED faults
     \/ datasources' \in {datasources, datasources \ Sources(name)} /\ Strike("grafana")
  /\ \/ /\ datasourceNames' = datasourceNames \ {name}
        /\ UNCHANGED <<pc, dashboardUids, projects, walk, creation>>
     \/ faults' # faults /\ Leave
  /\ UNCHANGED <<world, place, folders>>

\* The loop sleeps and starts again.
EndPass ==
  /\ NssDone
  /\ ObsoleteDashboards = {} /\ ObsoleteDatasources = {}
  /\ Leave
  /\ UNCHANGED <<world, grafana, faults>>

\* The container dies and is started again.  The consumer hears again of what its
\* group has not committed.
Crash ==
  /\ Strike("crash")
  /\ \E redelivered \in SUBSET {p \in Project : osm[p] = "gone"} :
       events' = [p \in Project |-> IF p \in redelivered \/ events[p] # "none"
                                     THEN "folder" ELSE "none"]
  /\ Leave
  /\ UNCHANGED <<osm, grafana>>

Loop ==
  \/ ListGrafana
  \/ ListProjects
  \/ ListProjectsFails
  \/ \E p \in Project : VisitProject(p)
  \/ CreateFolder
  \/ ListClusters
  \/ \E c \in Cluster : VisitCluster(c)
  \/ LookUpFolder
  \/ PostDashboard
  \/ ListNss
  \/ \E n \in Ns : VisitNs(n)
  \/ \E r \in Resource : DeleteDashboard(r)
  \/ \E name \in Names(Cluster) : DeleteDatasource(name)
  \/ EndPass

Next ==
  \/ \E r \in Resource : Appear(r) \/ Vanish(r)
  \/ \E p \in Project : DeleteFolder(p) \/ DeleteTeam(p)
  \/ Crash
  \/ ListGrafana
  \/ ListProjects
  \/ ListProjectsFails
  \/ \E p \in Project : VisitProject(p)
  \/ CreateFolder
  \/ ListClusters
  \/ \E c \in Cluster : VisitCluster(c)
  \/ LookUpFolder
  \/ PostDashboard
  \/ ListNss
  \/ \E n \in Ns : VisitNs(n)
  \/ \E r \in Resource : DeleteDashboard(r)
  \/ \E name \in Names(Cluster) : DeleteDatasource(name)
  \/ EndPass

Spec == Init /\ [][Next]_vars

\* The loop never ends, and the consumer handles what it is sent.
Fairness ==
  /\ WF_vars(Loop)
  /\ \A p \in Project : WF_vars(DeleteFolder(p) \/ DeleteTeam(p))

FairSpec == Spec /\ Fairness

-----------------------------------------------------------------------------
(* Properties                                                              *)

\* delete_admin_dashboard is called for whatever is named so, not only the project.
MistakenForAdmin(r) ==
  /\ subject \in Cluster \cup Ns
  /\ NameOf[subject] = "admin" /\ NameOf[r] = "admin"

\* The loop of create_dashboards deletes no dashboard of a resource that OSM still
\* has: what it listed first and is still there was met on its walk.  That is so
\* unless keystone failed, and but for the admin's dashboard, which is deleted to
\* make place for a namesake.  (Only the consumer deletes with a folder what is in
\* it.)
InUseKept ==
  [][\A r \in Present \cap InGrafana :
       UNCHANGED events /\ ~Struck("keystone") =>
         place'[r] # Nowhere \/ MistakenForAdmin(r)]_vars

HomeFolder(r) == IF r \in Project THEN NameOf[r] ELSE NameOf[ProjectOf[r]]

\* A cluster of the project admin goes to the folder of a project with the name of
\* the cluster, which may be anybody's.
AmongNamesakes(r) == r \in Cluster /\ HomeFolder(r) = "admin" /\ place[r] = NameOf[r]

\* An NS that was listed and is visited after its project was deleted, too, goes to
\* the folder whose name is left over.
Orphaned(r) == r \in Ns /\ {r, ProjectOf[r]} \cap Present = {}

Elsewhere == {r \in InGrafana : place[r] \notin {HomeFolder(r), General}}

FailuresOf(kind) == {i \in DOMAIN faults : faults[i] = kind}

\* Where projects are in the database, a failure of it puts the dashboard of one NS
\* at most in the folder of another project, for its team to see, under the name
\* left over from an earlier NS or project; the next NS has its own name again.
\* Without a failure, every dashboard is in the folder of its own project or in the
\* general one, whether OSM still has its resource or not.  The two exceptions are
\* the two above; with keystone nothing of the kind holds.
InOwnFolder ==
  ~Keystone =>
    Cardinality({r \in Elsewhere : ~AmongNamesakes(r) /\ ~Orphaned(r)})
      <= Cardinality(FailuresOf("db"))

\* The dashboard of a cluster has the data source it shows, unless Grafana failed:
\* the source is created first and deleted last.
SourceFirst ==
  ~Struck("grafana") =>
    \A c \in Present \cap InGrafana \cap Cluster : Sources(NameOf[c]) # {}

\* The resources that should have a dashboard.
Shown == Project \cup Cluster \cup Monitored

\* Grafana ends up with the dashboards of what OSM has and no others, although
\* folders are deleted next to the walk and any call may fail.
Mirrors ==
  \A r \in Resource :
    /\ <>[](r \in Shown \cap Present) => <>[](r \in InGrafana)
    /\ <>[](r \notin Present) => <>[](r \notin InGrafana)

\* The comment at the end of create_dashboards says that it deletes obsolete
\* dashboards: those of a project that exists are not.
OnlyObsoleteDeleted ==
  [][\A p \in Present \cap InGrafana \cap Project :
       UNCHANGED events => place'[p] # Nowhere]_vars

=============================================================================

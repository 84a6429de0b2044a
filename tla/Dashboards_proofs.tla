-------------------------- MODULE Dashboards_proofs --------------------------
(***************************************************************************)
(* Proofs about the loop over dashboards: type correctness, how many       *)
(* dashboards may be in the folder of another project, and that each has   *)
(* its data source and stays while OSM has its resource.                   *)
(***************************************************************************)
EXTENDS Dashboards, FiniteSetTheorems, TLAPS

-----------------------------------------------------------------------------
(* Types.  What is taken for a project or for the subject of a dashboard is *)
(* one wherever the code uses it.                                           *)

Taken ==
  /\ pc \in {"folder", "list_clusters"} => project \in Project
  /\ pc = "folder" => subject \in Project
  /\ pc \in {"look_up", "post"} => subject \in Resource
  /\ pc \in {"look_up", "post"} /\ subject \in Project => project \in Project

TypeInv == TypeOK /\ Taken

\* Folders are named as projects, and never "General" or "none".
LEMMA FolderTypes ==
  /\ \A p \in Project : NameOf[p] \in Folder
  /\ \A r \in Resource : NameOf[r] \notin {General, Nowhere}
  /\ Folder \subseteq STRING
BY NameOfAssumption DEF Folder, Names, Resource, General, Nowhere

\* Where a pass ends, every local variable is well typed.
LEMMA LeaveTypes ==
  ASSUME Leave
  PROVE  /\ pc' \in PC
         /\ dashboardUids' \subseteq Resource
         /\ datasourceNames' \subseteq Names(Cluster)
         /\ projects' \subseteq Project
         /\ todo' \subseteq Resource
         /\ clusters' \subseteq Cluster
         /\ osmResourceUids' \subseteq Resource
         /\ osmDatasourceNames' \subseteq Names(Cluster)
         /\ project' \in Project \cup {Nowhere}
         /\ projectName' \in Folder \cup {Nowhere}
         /\ subject' \in Resource \cup {Nowhere}
         /\ folderId' \in Folder \cup {General}
         /\ Taken'
BY DEF Leave, PC, Taken

\* A fault is one more, and what has struck has struck for ever.
LEMMA StrikeTypes ==
  ASSUME faults \in Seq(FaultKind), NEW kind, Strike(kind)
  PROVE  /\ faults' \in Seq(FaultKind)
         /\ faults' # faults
         /\ \A k : Struck(k) => Struck(k)'
         /\ Struck(kind)'
BY DEF Strike, Struck

\* The types hold at first.
LEMMA TypeStart == Init => TypeInv
<1> SUFFICES ASSUME Init PROVE TypeInv
  OBVIOUS
<1>1. osm \in [Resource -> Lifetime]
  BY DEF Init, Lifetime
<1> QED BY <1>1 DEF Init, TypeInv, TypeOK, Taken, PC

\* Every step keeps the types.
LEMMA TypeStep == TypeInv /\ [Next]_vars => TypeInv'
<1> SUFFICES ASSUME TypeInv, [Next]_vars PROVE TypeInv'
  OBVIOUS
<1> USE FolderTypes DEF TypeInv, TypeOK, Taken
<1>1. CASE UNCHANGED vars
  BY <1>1 DEF vars, world, grafana, listed, walk, creation
<1>2. CASE \E r \in Resource : Appear(r) \/ Vanish(r)
  <2>1. /\ osm' \in [Resource -> Lifetime]
        /\ events' \in [Project -> {"none", "folder", "team"}]
    BY <1>2 DEF Appear, Vanish, Lifetime
  <2>2. UNCHANGED <<grafana, pc, listed, walk, creation, faults>>
    BY <1>2 DEF Appear, Vanish
  <2> QED BY <2>1, <2>2 DEF grafana, listed, walk, creation
<1>3. CASE \E p \in Project : DeleteFolder(p) \/ DeleteTeam(p)
  <2>1. ASSUME NEW p \in Project, DeleteFolder(p) PROVE TypeInv'
    <3>1. UNCHANGED <<osm, datasources, pc, listed, walk, creation>>
      BY <2>1 DEF DeleteFolder
    <3>2. events' \in [Project -> {"none", "folder", "team"}]
      BY <2>1 DEF DeleteFolder
    <3>3. faults' \in Seq(FaultKind)
      BY <2>1, StrikeTypes DEF DeleteFolder
    <3>4. folders' \subseteq Folder
      BY <2>1 DEF DeleteFolder
    <3>5. place' \in [Resource -> Folder \cup {General, Nowhere}]
      BY <2>1 DEF DeleteFolder
    <3> QED BY <3>1, <3>2, <3>3, <3>4, <3>5 DEF listed, walk, creation
  <2>2. ASSUME NEW p \in Project, DeleteTeam(p) PROVE TypeInv'
    BY <2>2 DEF DeleteTeam, grafana, listed, walk, creation
  <2> QED BY <1>3, <2>1, <2>2
<1>4. CASE Crash
  <2>1. events' \in [Project -> {"none", "folder", "team"}]
    BY <1>4 DEF Crash
  <2>2. faults' \in Seq(FaultKind)
    BY <1>4, StrikeTypes DEF Crash
  <2> QED BY <1>4, <2>1, <2>2, LeaveTypes DEF Crash, grafana
<1>5. CASE ListGrafana
  <2>1. Names(datasources) \subseteq Names(Cluster) /\ InGrafana \subseteq Resource
    BY DEF Names, InGrafana
  <2>2. CASE StartFails /\ Leave
    BY <1>5, <2>2, LeaveTypes, StrikeTypes DEF ListGrafana, StartFails, world, grafana
  <2>3. CASE ~(StartFails /\ Leave)
    BY <1>5, <2>1, <2>3 DEF ListGrafana, world, grafana, walk, creation, PC
  <2> QED BY <2>2, <2>3
<1>6. CASE ListProjects
  <2>1. projects' \subseteq Project /\ faults' \in Seq(FaultKind)
    BY <1>6, StrikeTypes DEF ListProjects
  <2> QED BY <1>6, <2>1 DEF ListProjects, world, grafana, creation, PC, Resource
<1>7. CASE ListProjectsFails
  BY <1>7, LeaveTypes, StrikeTypes DEF ListProjectsFails, world, grafana
<1>8. CASE \E p \in Project : VisitProject(p)
  BY <1>8 DEF VisitProject, ProjectDone, world, grafana, listed, PC, Resource
<1>9. CASE CreateFolder
  <2>1. folders' \subseteq Folder /\ faults' \in Seq(FaultKind)
    BY <1>9, StrikeTypes DEF CreateFolder
  <2>2. CASE Leave
    BY <1>9, <2>1, <2>2, LeaveTypes DEF CreateFolder, world
  <2>3. CASE ~Leave
    <3>1. pc' = "look_up" /\ UNCHANGED <<listed, walk, creation>>
      BY <1>9, <2>3 DEF CreateFolder
    <3>2. subject \in Resource /\ project \in Project
      BY <1>9 DEF CreateFolder, Resource
    <3> QED BY <1>9, <2>1, <3>1, <3>2 DEF CreateFolder, world, listed, walk, creation, PC
  <2> QED BY <2>2, <2>3
<1>10. CASE ListClusters
  <2>1. Names(Present \cap Cluster) \subseteq Names(Cluster)
    BY DEF Names
  <2>2. CASE Strike("db") /\ Leave
    BY <1>10, <2>2, LeaveTypes, StrikeTypes DEF ListClusters, world, grafana
  <2>3. CASE ~(Strike("db") /\ Leave)
    BY <1>10, <2>1, <2>3 DEF ListClusters, world, grafana, listed, creation, PC, Present
  <2> QED BY <2>2, <2>3
<1>11. CASE \E c \in Cluster : VisitCluster(c)
  <2> SUFFICES ASSUME NEW c \in Cluster, VisitCluster(c) PROVE TypeInv'
    BY <1>11
  <2>1. datasources' \subseteq Cluster /\ faults' \in Seq(FaultKind)
    BY StrikeTypes DEF VisitCluster
  <2>2. c \in Resource /\ c \notin Project
    BY KindsAssumption DEF Resource
  <2> QED BY <2>1, <2>2 DEF VisitCluster, world, listed, PC
<1>12. CASE LookUpFolder
  <2>1. folderId' \in Folder \cup {General} /\ faults' \in Seq(FaultKind)
    BY <1>12, StrikeTypes DEF LookUpFolder
  <2>2. pc' \in PC /\ (pc' = "list_clusters" => project' \in Project)
    BY <1>12 DEF LookUpFolder, Created, walk, PC
  <2> QED BY <1>12, <2>1, <2>2 DEF LookUpFolder, Created, world, grafana, listed, walk
<1>13. CASE PostDashboard
  <2>1. Cleared \in [Resource -> Folder \cup {General, Nowhere}]
    BY DEF Cleared, WithoutAdmin
  <2>2. Posted \in [Resource -> Folder \cup {General, Nowhere}]
    BY <2>1 DEF Posted
  <2>3. /\ place' \in [Resource -> Folder \cup {General, Nowhere}]
        /\ faults' \in Seq(FaultKind)
    BY <1>13, <2>1, <2>2, StrikeTypes DEF PostDashboard
  <2>4. pc' \in PC /\ (pc' = "list_clusters" => project' \in Project)
    BY <1>13 DEF PostDashboard, Created, walk, PC
  <2> QED BY <1>13, <2>3, <2>4 DEF PostDashboard, Created, world, listed, walk
<1>14. CASE ListNss
  <2>1. CASE Strike("db") /\ Leave
    BY <1>14, <2>1, LeaveTypes, StrikeTypes DEF ListNss, world, grafana
  <2>2. CASE ~(Strike("db") /\ Leave)
    BY <1>14, <2>2 DEF ListNss, ProjectDone, world, grafana, listed, creation, PC, Present
  <2> QED BY <2>1, <2>2
<1>15. CASE \E n \in Ns : VisitNs(n)
  <2> SUFFICES ASSUME NEW n \in Ns, VisitNs(n) PROVE TypeInv'
    BY <1>15
  <2>1. NameFor(n, FoundProjects) \in Folder \cup {Nowhere}
    BY ProjectOfAssumption DEF NameFor
  <2>2. FailingNames \subseteq Folder \cup {Nowhere}
    BY DEF FailingNames
  <2>3. faults' \in Seq(FaultKind)
    BY StrikeTypes DEF VisitNs
  <2>4. projectName' \in Folder \cup {Nowhere}
    BY <2>1, <2>2 DEF VisitNs
  <2>5. /\ todo' \subseteq Resource
        /\ pc' \in PC
        /\ subject' \in Resource \cup {Nowhere}
        /\ pc' \notin {"folder", "list_clusters"}
        /\ pc' \in {"look_up", "post"} => subject' = n
    BY DEF VisitNs, PC, Resource
  <2>6. n \in Resource /\ n \notin Project
    BY KindsAssumption DEF Resource
  <2> QED BY <2>3, <2>4, <2>5, <2>6 DEF VisitNs, world, grafana, listed
<1>16. CASE \E r \in Resource : DeleteDashboard(r)
  <2> SUFFICES ASSUME NEW r \in Resource, DeleteDashboard(r) PROVE TypeInv'
    BY <1>16
  <2>1. place' \in [Resource -> Folder \cup {General, Nowhere}]
    BY DEF DeleteDashboard
  <2>2. faults' \in Seq(FaultKind)
    BY StrikeTypes DEF DeleteDashboard
  <2>3. CASE Leave
    BY <2>1, <2>2, <2>3, LeaveTypes DEF DeleteDashboard, world
  <2>4. CASE ~Leave
    BY <2>1, <2>2, <2>4 DEF DeleteDashboard, world, walk, creation
  <2> QED BY <2>3, <2>4
<1>17. CASE \E name \in Names(Cluster) : DeleteDatasource(name)
  <2> SUFFICES ASSUME NEW name \in Names(Cluster), DeleteDatasource(name) PROVE TypeInv'
    BY <1>17
  <2>1. datasources' \subseteq Cluster
    BY DEF DeleteDatasource, Sources
  <2>2. faults' \in Seq(FaultKind)
    BY StrikeTypes DEF DeleteDatasource
  <2>3. CASE Leave
    BY <2>1, <2>2, <2>3, LeaveTypes DEF DeleteDatasource, world
  <2>4. CASE ~Leave
    BY <2>1, <2>2, <2>4 DEF DeleteDatasource, world, walk, creation
  <2> QED BY <2>3, <2>4
<1>18. CASE EndPass
  BY <1>18, LeaveTypes DEF EndPass, world, grafana
<1> QED BY <1>1, <1>2, <1>3, <1>4, <1>5, <1>6, <1>7, <1>8, <1>9, <1>10, <1>11,
           <1>12, <1>13, <1>14, <1>15, <1>16, <1>17, <1>18 DEF Next

\* Every variable keeps its type: a dashboard is in the folder of some project, in
\* the general one or nowhere, and what create_dashboard finds is a folder.
THEOREM TypeCorrect == Spec => []TypeOK
<1>1. TypeInv => TypeOK
  BY DEF TypeInv
<1> QED BY <1>1, TypeStart, TypeStep, PTL DEF Spec

-----------------------------------------------------------------------------
(* Folders.  The invariant follows a name from where it is taken to the     *)
(* dashboard: FolderName, folderId, place.  It counts who is on the way to  *)
(* another project's folder with those who are there.                       *)

\* What is absent was never seen by the loop, and has no dashboard to come back to.
Unseen(r) ==
  /\ place[r] = Nowhere
  /\ r \notin todo \cup clusters
  /\ pc \in {"folder", "look_up", "post"} => subject # r

AbsentUnseen == \A r \in Resource : osm[r] = "absent" => Unseen(r)

\* A cluster or NS in OSM is in a project that is there too, and was there before it.
Housed == \A r \in Present \ Project : ProjectOf[r] \in Present

Founded == \A r \in Cluster \cup Ns : osm[ProjectOf[r]] = "absent" => osm[r] = "absent"

ClustersOfProject ==
  /\ \A c \in clusters : ProjectOf[c] = project
  /\ pc \in {"look_up", "post"} /\ subject \in Cluster => ProjectOf[subject] = project

\* The folder is another project's, and none of the exceptions applies.
Foreign(name, r) ==
  /\ name \notin {HomeFolder(r), General}
  /\ ~(r \in Cluster /\ HomeFolder(r) = "admin" /\ name = NameOf[r])
  /\ ~Orphaned(r)

Heading(r) ==
  \/ pc = "look_up" /\ subject = r /\ Foreign(FolderName, r)
  \/ pc = "post" /\ subject = r /\ Foreign(folderId, r)

Strays == {r \in Resource : (place[r] # Nowhere /\ Foreign(place[r], r)) \/ Heading(r)}

Bounded ==
  /\ IsFiniteSet(Strays)
  /\ Cardinality(Strays) <= Cardinality(FailuresOf("db"))

FolderInv ==
  /\ AbsentUnseen
  /\ Housed
  /\ Founded
  /\ ClustersOfProject
  /\ ~Keystone => Bounded

\* Failures are counted.
FaultsGrow == faults' = faults \/ \E kind : Strike(kind)

LEMMA FailuresFinite ==
  ASSUME faults \in Seq(FaultKind), NEW kind
  PROVE  IsFiniteSet(FailuresOf(kind)) /\ Cardinality(FailuresOf(kind)) \in Nat
<1>1. FailuresOf(kind) \in SUBSET (1 .. Len(faults))
  BY DEF FailuresOf
<1>2. IsFiniteSet(FailuresOf(kind))
  BY <1>1, FS_Interval, FS_Subset
<1> QED BY <1>2, FS_CardinalityType

LEMMA FailuresCounted ==
  ASSUME faults \in Seq(FaultKind), FaultsGrow, NEW kind
  PROVE  /\ Cardinality(FailuresOf(kind)') \in Nat
         /\ Cardinality(FailuresOf(kind)) <= Cardinality(FailuresOf(kind)')
         /\ Strike(kind) => Cardinality(FailuresOf(kind)') = Cardinality(FailuresOf(kind)) + 1
<1> DEFINE n == Len(faults) + 1
           F == FailuresOf(kind)
           G == FailuresOf(kind)'
<1>1. n \in Nat /\ n \notin DOMAIN faults /\ DOMAIN faults = 1 .. Len(faults)
  OBVIOUS
<1>2. IsFiniteSet(F) /\ Cardinality(F) \in Nat
  BY FailuresFinite
<1>3. G = F \/ G = F \cup {n}
  <2>1. CASE faults' = faults
    BY <2>1 DEF FailuresOf
  <2>2. ASSUME NEW k, Strike(k)
        PROVE  G = F \/ G = F \cup {n}
    BY <2>2 DEF Strike, FailuresOf
  <2> QED BY <2>1, <2>2 DEF FaultsGrow
<1>4. Strike(kind) => G = F \cup {n}
  BY DEF Strike, FailuresOf
<1>5. n \notin F
  BY <1>1 DEF FailuresOf
<1>6. Cardinality(F \cup {n}) = Cardinality(F) + 1
  BY <1>2, <1>5, FS_AddElement
<1> HIDE DEF n, F, G
<1>7. Cardinality(G) = Cardinality(F) \/ Cardinality(G) = Cardinality(F) + 1
  BY <1>3, <1>6, Zenon
<1>8. Cardinality(G) \in Nat /\ Cardinality(F) <= Cardinality(G)
  BY <1>2, <1>7
<1>9. Strike(kind) => Cardinality(G) = Cardinality(F) + 1
  BY <1>4, <1>6, Zenon
<1> QED BY <1>8, <1>9 DEF F, G

\* Without one more stray, the bound is kept.
LEMMA BoundKept ==
  ASSUME TypeInv, FaultsGrow, Bounded, Strays' \subseteq Strays
  PROVE  Bounded'
<1>1. IsFiniteSet(Strays) /\ Cardinality(Strays) <= Cardinality(FailuresOf("db"))
  BY DEF Bounded
<1>2. IsFiniteSet(Strays') /\ Cardinality(Strays') <= Cardinality(Strays)
  BY <1>1, FS_Subset
<1>3. Cardinality(Strays) \in Nat /\ Cardinality(Strays') \in Nat
  BY <1>1, <1>2, FS_CardinalityType
<1>4. /\ Cardinality(FailuresOf("db")) <= Cardinality(FailuresOf("db")')
      /\ Cardinality(FailuresOf("db")') \in Nat
  BY FailuresCounted DEF TypeInv, TypeOK
<1>5. Cardinality(FailuresOf("db")) \in Nat
  BY FailuresFinite DEF TypeInv, TypeOK
<1>6. Cardinality(Strays') <= Cardinality(FailuresOf("db")')
  BY <1>1, <1>2, <1>3, <1>4, <1>5
<1> QED BY <1>2, <1>6 DEF Bounded

\* A failure of the database pays for one more.
LEMMA BoundPaid ==
  ASSUME TypeInv, Strike("db"), Bounded, NEW n, Strays' \subseteq Strays \cup {n}
  PROVE  Bounded'
<1>1. IsFiniteSet(Strays) /\ Cardinality(Strays) <= Cardinality(FailuresOf("db"))
  BY DEF Bounded
<1>2. /\ IsFiniteSet(Strays \cup {n})
      /\ Cardinality(Strays \cup {n}) = IF n \in Strays THEN Cardinality(Strays)
                                                        ELSE Cardinality(Strays) + 1
  BY <1>1, FS_AddElement
<1>3. IsFiniteSet(Strays') /\ Cardinality(Strays') <= Cardinality(Strays \cup {n})
  BY <1>2, FS_Subset
<1>4. /\ Cardinality(Strays) \in Nat /\ Cardinality(Strays') \in Nat
      /\ Cardinality(Strays \cup {n}) \in Nat
  BY <1>1, <1>2, <1>3, FS_CardinalityType
<1>5. Cardinality(FailuresOf("db")') = Cardinality(FailuresOf("db")) + 1
  BY FailuresCounted DEF TypeInv, TypeOK, FaultsGrow
<1>6. Cardinality(FailuresOf("db")) \in Nat
  BY FailuresFinite DEF TypeInv, TypeOK
<1>7. Cardinality(Strays') <= Cardinality(FailuresOf("db")')
  BY <1>1, <1>2, <1>3, <1>4, <1>5, <1>6
<1> QED BY <1>3, <1>7 DEF Bounded

\* While OSM stays as it is, a stray is new only where a name is taken for it; the
\* dashboard that is posted goes where it was headed.
LEMMA StraysKept ==
  ASSUME TypeInv, osm' = osm,
         \A r \in Resource : \/ place'[r] \in {place[r], Nowhere}
                             \/ pc = "post" /\ subject = r /\ place'[r] = folderId,
         NEW S, \A r \in Resource : Heading(r)' => Heading(r) \/ r \in S
  PROVE  Strays' \subseteq Strays \cup S
<1> SUFFICES ASSUME NEW r \in Resource, r \in Strays', r \notin S PROVE r \in Strays
  BY DEF Strays
<1>1. CASE Heading(r)'
  BY <1>1 DEF Strays
<1>2. CASE place'[r] # Nowhere /\ Foreign(place[r], r)'
  <2>1. Foreign(place'[r], r)
    BY <1>2 DEF Foreign, HomeFolder, Orphaned, Present
  <2>2. CASE place'[r] = place[r]
    BY <1>2, <2>1, <2>2 DEF Strays
  <2>3. CASE pc = "post" /\ subject = r /\ place'[r] = folderId
    BY <2>1, <2>3 DEF Strays, Heading
  <2> QED BY <1>2, <2>2, <2>3
<1> QED BY <1>1, <1>2 DEF Strays

\* The name create_dashboard looks for is that of the own folder, but where the code
\* takes another for a cluster of the project admin.
LEMMA OwnName ==
  ASSUME TypeInv, ClustersOfProject, pc = "look_up", subject \in Project \cup Cluster
  PROVE  ~Heading(subject)
<1>1. CASE subject \in Project
  <2>1. subject \notin Cluster /\ subject \notin Ns
    BY <1>1, KindsAssumption
  <2> QED BY <1>1, <2>1 DEF Heading, Foreign, HomeFolder, FolderName
<1>2. CASE subject \in Cluster
  <2>1. subject \notin Project /\ subject \notin Ns
    BY <1>2, KindsAssumption
  <2> QED BY <1>2, <2>1 DEF Heading, Foreign, HomeFolder, FolderName, ClustersOfProject
<1> QED BY <1>1, <1>2

\* A step of the loop or of the consumer: what is left to show for it.
LEMMA FolderStepWithin ==
  ASSUME TypeInv, FolderInv, osm' = osm, FaultsGrow,
         AbsentUnseen', ClustersOfProject',
         ~Keystone => \/ Strays' \subseteq Strays
                      \/ Strike("db") /\ \E n : Strays' \subseteq Strays \cup {n}
  PROVE  FolderInv'
<1>1. Housed' /\ Founded'
  BY DEF FolderInv, Housed, Founded, Present
<1>2. ~Keystone => Bounded'
  BY BoundKept, BoundPaid DEF FolderInv
<1> QED BY <1>1, <1>2 DEF FolderInv

\* The loop moves on to a step that is not about one dashboard.
LEMMA FolderStepPast ==
  ASSUME TypeInv, FolderInv, osm' = osm, FaultsGrow,
         pc' \notin {"folder", "look_up", "post"},
         \A r \in todo' \cup clusters' : r \in todo \cup clusters \cup Present,
         \A c \in clusters' : ProjectOf[c] = project',
         \A r \in Resource : \/ place'[r] \in {place[r], Nowhere}
                             \/ pc = "post" /\ subject = r /\ place'[r] = folderId
  PROVE  FolderInv'
<1>1. AbsentUnseen'
  BY DEF FolderInv, AbsentUnseen, Unseen, Present
<1>2. ClustersOfProject'
  BY DEF ClustersOfProject
<1>3. \A r \in Resource : ~Heading(r)'
  BY DEF Heading
<1>4. Strays' \subseteq Strays
  BY <1>3, StraysKept
<1> QED BY <1>1, <1>2, <1>4, FolderStepWithin

\* The end of a pass leaves nothing behind but the dashboards.
LEMMA LeaveFolders ==
  ASSUME TypeInv, FolderInv, Leave, osm' = osm, FaultsGrow,
         \A r \in Resource : place'[r] \in {place[r], Nowhere}
  PROVE  FolderInv'
BY FolderStepPast DEF Leave

\* The invariant holds at first.
LEMMA FolderStart == Init => FolderInv
<1> SUFFICES ASSUME Init PROVE FolderInv
  OBVIOUS
<1>1. AbsentUnseen /\ ClustersOfProject
  BY DEF Init, AbsentUnseen, Unseen, ClustersOfProject
<1>2. Housed /\ Founded
  BY ProjectOfAssumption DEF Init, Housed, Founded, Present, Resource
<1>3. Strays = {} /\ FailuresOf("db") = {}
  BY DEF Init, Strays, Heading, FailuresOf
<1> QED BY <1>1, <1>2, <1>3, FS_EmptySet DEF FolderInv, Bounded

\* Every step keeps the invariant.
LEMMA FolderStep == TypeInv /\ FolderInv /\ [Next]_vars => FolderInv'
<1> SUFFICES ASSUME TypeInv, FolderInv, [Next]_vars PROVE FolderInv'
  OBVIOUS
<1>1. CASE UNCHANGED vars
  BY <1>1 DEF vars, world, grafana, listed, walk, creation, FolderInv, AbsentUnseen, Unseen,
              Housed, Founded, ClustersOfProject, Bounded, Strays, Heading, Foreign, FolderName,
              HomeFolder, Orphaned, FailuresOf, Present
<1>2. CASE \E r \in Resource : Appear(r) \/ Vanish(r)
  <2> PICK r \in Resource : Appear(r) \/ Vanish(r)
    BY <1>2
  <2>1. UNCHANGED <<place, pc, todo, clusters, project, projectName, subject, folderId, faults>>
    BY DEF Appear, Vanish, grafana, walk, creation
  <2>2. CASE Appear(r)
    <3>1. Present' = Present \cup {r} /\ osm' = [osm EXCEPT ![r] = "present"] /\ osm[r] = "absent"
      BY <2>2 DEF Appear, Present, TypeInv, TypeOK
    <3>2. AbsentUnseen'
      BY <2>1, <3>1 DEF FolderInv, AbsentUnseen, Unseen, TypeInv, TypeOK
    <3>3. r \in Cluster \cup Ns => ProjectOf[r] \in Present
      BY <2>2 DEF Appear
    <3>4. Housed' /\ Founded'
      BY <3>1, <3>3, KindsAssumption, ProjectOfAssumption
         DEF FolderInv, Housed, Founded, Resource, TypeInv, TypeOK, Present
    <3>5. ASSUME NEW q \in Resource, Orphaned(q), ~Orphaned(q)'
          PROVE  osm[q] = "absent"
      BY <3>1, <3>5 DEF Orphaned, FolderInv, Founded
    <3>6. Strays' \subseteq Strays
      <4> SUFFICES ASSUME NEW q \in Resource, q \in Strays' PROVE q \in Strays
        BY DEF Strays
      <4>1. CASE Orphaned(q) /\ ~Orphaned(q)'
        <5>1. Unseen(q)
          BY <4>1, <3>5 DEF FolderInv, AbsentUnseen
        <5> QED BY <2>1, <5>1 DEF Strays, Heading, Unseen
      <4>2. CASE ~(Orphaned(q) /\ ~Orphaned(q)')
        BY <2>1, <4>2 DEF Strays, Heading, Foreign, FolderName, HomeFolder
      <4> QED BY <4>1, <4>2
    <3> QED BY <2>1, <3>2, <3>4, <3>6, BoundKept DEF FolderInv, ClustersOfProject, FaultsGrow
  <2>3. CASE Vanish(r)
    <3>1. Present' = Present \ {r} /\ osm' = [osm EXCEPT ![r] = "gone"] /\ osm[r] = "present"
      BY <2>3 DEF Vanish, Present, TypeInv, TypeOK
    <3>2. AbsentUnseen'
      BY <2>1, <3>1 DEF FolderInv, AbsentUnseen, Unseen, TypeInv, TypeOK
    <3>3. Housed'
      BY <2>3, <3>1 DEF FolderInv, Housed, Vanish
    <3>4. Founded'
      BY <3>1 DEF FolderInv, Founded, TypeInv, TypeOK, Resource
    <3>5. Strays' \subseteq Strays
      BY <2>1, <3>1 DEF Strays, Heading, Foreign, FolderName, HomeFolder, Orphaned
    <3> QED BY <2>1, <3>2, <3>3, <3>4, <3>5, BoundKept DEF FolderInv, ClustersOfProject, FaultsGrow
  <2> QED BY <2>2, <2>3
<1>3. CASE \E p \in Project : DeleteFolder(p) \/ DeleteTeam(p)
  <2> PICK p \in Project : DeleteFolder(p) \/ DeleteTeam(p)
    BY <1>3
  <2>1. /\ UNCHANGED <<osm, pc, todo, clusters, project, projectName, subject, folderId>>
        /\ \A r \in Resource : place'[r] \in {place[r], Nowhere}
        /\ FaultsGrow
    BY DEF DeleteFolder, DeleteTeam, grafana, listed, walk, creation, FaultsGrow
  <2>2. AbsentUnseen' /\ ClustersOfProject'
    BY <2>1 DEF FolderInv, AbsentUnseen, Unseen, ClustersOfProject
  <2>3. \A r \in Resource : Heading(r)' => Heading(r)
    BY <2>1 DEF Heading, Foreign, FolderName, HomeFolder, Orphaned, Present
  <2>4. Strays' \subseteq Strays
    BY <2>1, <2>3, StraysKept
  <2> QED BY <2>1, <2>2, <2>4, FolderStepWithin
<1>4. CASE Crash
  BY <1>4, LeaveFolders DEF Crash, grafana, FaultsGrow
<1>5. CASE ListGrafana
  <2>1. CASE StartFails /\ Leave
    BY <1>5, <2>1, LeaveFolders DEF ListGrafana, StartFails, world, grafana, FaultsGrow
  <2>2. CASE ~(StartFails /\ Leave)
    <3>1. /\ UNCHANGED <<osm, place, todo, clusters, project, faults>>
          /\ pc' = "list_projects"
      BY <1>5, <2>2 DEF ListGrafana, world, grafana, walk
    <3> QED BY <3>1, FolderStepPast DEF FaultsGrow, FolderInv, ClustersOfProject
  <2> QED BY <2>1, <2>2
<1>6. CASE ListProjects
  <2>1. /\ UNCHANGED <<osm, place, project>>
        /\ pc' = "cluster" /\ clusters' = {} /\ todo' \subseteq Present
        /\ FaultsGrow
    BY <1>6 DEF ListProjects, world, grafana, FaultsGrow
  <2> QED BY <2>1, FolderStepPast
<1>7. CASE ListProjectsFails
  BY <1>7, LeaveFolders DEF ListProjectsFails, world, grafana, FaultsGrow
<1>8. CASE \E p \in Project : VisitProject(p)
  <2> PICK p \in Project : VisitProject(p)
    BY <1>8
  <2>1. /\ UNCHANGED <<osm, place, clusters, faults>>
        /\ clusters = {} /\ todo' = todo \ {p} /\ p \in todo /\ project' = p
        /\ pc' # "post"
        /\ pc' \in {"folder", "look_up"} => subject' = p
    BY DEF VisitProject, ProjectDone, world, grafana
  <2>2. p \in Resource /\ p \notin Cluster /\ p \notin Ns
    BY KindsAssumption DEF Resource
  <2>3. AbsentUnseen' /\ ClustersOfProject'
    BY <2>1, <2>2 DEF FolderInv, AbsentUnseen, Unseen, ClustersOfProject
  <2>4. \A r \in Resource : ~Heading(r)'
    BY <2>1, <2>2 DEF Heading, Foreign, FolderName, HomeFolder
  <2>5. Strays' \subseteq Strays
    BY <2>1, <2>4, StraysKept
  <2> QED BY <2>1, <2>3, <2>5, FolderStepWithin DEF FaultsGrow
<1>9. CASE CreateFolder
  <2>1. UNCHANGED <<osm, place>> /\ FaultsGrow
    BY <1>9 DEF CreateFolder, world, FaultsGrow
  <2>2. CASE Leave
    BY <2>1, <2>2, LeaveFolders
  <2>3. CASE ~Leave
    <3>1. /\ UNCHANGED <<todo, clusters, project, projectName, subject, folderId>>
          /\ pc' = "look_up" /\ pc = "folder"
      BY <1>9, <2>3 DEF CreateFolder, walk, creation
    <3>2. subject \in Project /\ subject \notin Cluster \cup Ns
      BY <3>1, KindsAssumption DEF TypeInv, Taken
    <3>3. AbsentUnseen' /\ ClustersOfProject'
      BY <2>1, <3>1, <3>2 DEF FolderInv, AbsentUnseen, Unseen, ClustersOfProject
    <3>4. \A r \in Resource : ~Heading(r)'
      BY <3>1, <3>2 DEF Heading, Foreign, FolderName, HomeFolder
    <3>5. Strays' \subseteq Strays
      BY <2>1, <3>4, StraysKept
    <3> QED BY <2>1, <3>3, <3>5, FolderStepWithin
  <2> QED BY <2>2, <2>3
<1>10. CASE ListClusters
  <2>1. CASE Strike("db") /\ Leave
    BY <1>10, <2>1, LeaveFolders DEF ListClusters, world, grafana, FaultsGrow
  <2>2. CASE ~(Strike("db") /\ Leave)
    <3>1. /\ UNCHANGED <<osm, place, todo, project, faults>> /\ pc' = "cluster"
          /\ clusters' \subseteq Present
          /\ \A c \in clusters' : ProjectOf[c] = project
      BY <1>10, <2>2 DEF ListClusters, world, grafana
    <3> QED BY <3>1, FolderStepPast DEF FaultsGrow
  <2> QED BY <2>1, <2>2
<1>11. CASE \E c \in Cluster : VisitCluster(c)
  <2> PICK c \in Cluster : VisitCluster(c)
    BY <1>11
  <2>1. /\ UNCHANGED <<osm, place, todo, project>>
        /\ c \in clusters /\ clusters' = clusters \ {c}
        /\ pc' = "look_up" /\ subject' = c
        /\ FaultsGrow
    BY DEF VisitCluster, world, FaultsGrow
  <2>2. c \notin Ns /\ c \notin Project
    BY KindsAssumption
  <2>3. AbsentUnseen' /\ ClustersOfProject'
    BY <2>1, <2>2 DEF FolderInv, AbsentUnseen, Unseen, ClustersOfProject
  <2>4. ProjectOf[c] = project'
    BY <2>1 DEF FolderInv, ClustersOfProject
  <2>5. \A r \in Resource : ~Heading(r)'
    BY <2>1, <2>2, <2>4 DEF Heading, Foreign, FolderName, HomeFolder
  <2>6. Strays' \subseteq Strays
    BY <2>1, <2>5, StraysKept
  <2> QED BY <2>1, <2>3, <2>6, FolderStepWithin
<1>12. CASE LookUpFolder
  <2>1. /\ UNCHANGED <<osm, place, todo, clusters, project, projectName>>
        /\ pc = "look_up"
        /\ FaultsGrow
    BY <1>12 DEF LookUpFolder, world, grafana, walk, FaultsGrow
  <2>2. CASE pc' = "post" /\ subject' = subject
    <3>1. folderId' \in {FolderName, General}
      BY <1>12, <2>2 DEF LookUpFolder
    <3>2. AbsentUnseen' /\ ClustersOfProject'
      BY <2>1, <2>2 DEF FolderInv, AbsentUnseen, Unseen, ClustersOfProject
    <3>3. \A r \in Resource : Heading(r)' => Heading(r)
      BY <2>1, <2>2, <3>1 DEF Heading, Foreign, HomeFolder, Orphaned, Present
    <3>4. Strays' \subseteq Strays
      BY <2>1, <3>3, StraysKept
    <3> QED BY <2>1, <3>2, <3>4, FolderStepWithin
  <2>3. CASE ~(pc' = "post" /\ subject' = subject)
    <3>1. pc' \notin {"folder", "look_up", "post"}
      BY <1>12, <2>3 DEF LookUpFolder, Created
    <3> QED BY <2>1, <3>1, FolderStepPast DEF FolderInv, ClustersOfProject
  <2> QED BY <2>2, <2>3
<1>13. CASE PostDashboard
  <2>1. /\ UNCHANGED <<osm, todo, clusters, project>>
        /\ pc = "post" /\ pc' \notin {"folder", "look_up", "post"}
        /\ place' \in {place, Cleared, Posted}
        /\ FaultsGrow
    BY <1>13 DEF PostDashboard, world, listed, walk, Created, FaultsGrow
  <2>2. \A r \in Resource : place'[r] \in {place[r], Nowhere} \/ (subject = r /\ place'[r] = folderId)
    BY <2>1 DEF Cleared, Posted, WithoutAdmin, TypeInv, TypeOK
  <2> QED BY <2>1, <2>2, FolderStepPast DEF FolderInv, ClustersOfProject
<1>14. CASE ListNss
  <2>1. CASE Strike("db") /\ Leave
    BY <1>14, <2>1, LeaveFolders DEF ListNss, world, grafana, FaultsGrow
  <2>2. CASE ~(Strike("db") /\ Leave)
    <3>1. /\ UNCHANGED <<osm, place, clusters, project, faults>> /\ pc' = "ns"
          /\ todo' \subseteq Present
      BY <1>14, <2>2 DEF ListNss, world, grafana
    <3> QED BY <3>1, FolderStepPast DEF FaultsGrow, FolderInv, ClustersOfProject
  <2> QED BY <2>1, <2>2
<1>15. CASE \E n \in Ns : VisitNs(n)
  <2> PICK n \in Ns : VisitNs(n)
    BY <1>15
  <2>1. /\ UNCHANGED <<osm, place, clusters, project>>
        /\ pc = "ns" /\ n \in todo /\ todo' = todo \ {n}
        /\ pc' \in {"ns", "look_up"} /\ (pc' = "look_up" => subject' = n)
        /\ FaultsGrow
    BY DEF VisitNs, world, grafana, FaultsGrow
  <2>2. n \in Resource /\ n \notin Project /\ n \notin Cluster
    BY KindsAssumption DEF Resource
  <2>3. AbsentUnseen' /\ ClustersOfProject'
    BY <2>1, <2>2 DEF FolderInv, AbsentUnseen, Unseen, ClustersOfProject
  <2>4. Strays' \subseteq Strays \cup {n}
    BY <2>1, StraysKept DEF Heading
  <2>5. ~Keystone /\ ~Strike("db") => Strays' \subseteq Strays
    <3> SUFFICES ASSUME ~Keystone, ~Strike("db"), pc' = "look_up" PROVE ~Heading(n)'
      BY <2>1, StraysKept DEF Heading
    <3>1. projectName' = NameFor(n, Present \cap Project)
      BY <2>1 DEF VisitNs, FoundProjects
    <3>2. CASE ProjectOf[n] \in Present
      BY <2>1, <2>2, <3>1, <3>2, ProjectOfAssumption DEF NameFor, Heading, Foreign, FolderName, HomeFolder
    <3>3. CASE ProjectOf[n] \notin Present
      <4>1. n \notin Present
        BY <2>2, <3>3 DEF FolderInv, Housed
      <4> QED BY <2>1, <3>3, <4>1 DEF Heading, Foreign, Orphaned, Present
    <3> QED BY <3>2, <3>3
  <2> QED BY <2>1, <2>3, <2>4, <2>5, FolderStepWithin
<1>16. CASE \E r \in Resource : DeleteDashboard(r)
  <2> PICK r \in Resource : DeleteDashboard(r)
    BY <1>16
  <2>1. /\ osm' = osm
        /\ \A q \in Resource : place'[q] \in {place[q], Nowhere}
        /\ FaultsGrow
    BY DEF DeleteDashboard, world, TypeInv, TypeOK, FaultsGrow
  <2>2. CASE Leave
    BY <2>1, <2>2, LeaveFolders
  <2>3. CASE ~Leave
    <3>1. UNCHANGED <<pc, todo, clusters, project>> /\ pc = "ns"
      BY <2>3 DEF DeleteDashboard, NssDone, walk
    <3> QED BY <2>1, <3>1, FolderStepPast DEF FolderInv, ClustersOfProject
  <2> QED BY <2>2, <2>3
<1>17. CASE \E name \in Names(Cluster) : DeleteDatasource(name)
  <2> PICK name \in Names(Cluster) : DeleteDatasource(name)
    BY <1>17
  <2>1. UNCHANGED <<osm, place>> /\ FaultsGrow
    BY DEF DeleteDatasource, world, FaultsGrow
  <2>2. CASE Leave
    BY <2>1, <2>2, LeaveFolders
  <2>3. CASE ~Leave
    <3>1. UNCHANGED <<pc, todo, clusters, project>> /\ pc = "ns"
      BY <2>3 DEF DeleteDatasource, NssDone, walk
    <3> QED BY <2>1, <3>1, FolderStepPast DEF FolderInv, ClustersOfProject
  <2> QED BY <2>2, <2>3
<1>18. CASE EndPass
  BY <1>18, LeaveFolders DEF EndPass, world, grafana, FaultsGrow
<1> QED BY <1>1, <1>2, <1>3, <1>4, <1>5, <1>6, <1>7, <1>8, <1>9, <1>10, <1>11, <1>12,
           <1>13, <1>14, <1>15, <1>16, <1>17, <1>18 DEF Next

\* Where projects are in the database, as many dashboards at most as there were
\* failures of it are in the folder of another project, but for those of NSs that
\* are gone with their projects and of clusters of the project admin; without such
\* a failure there is none.
THEOREM DashboardsInOwnFolder == Spec => []InOwnFolder
<1>1. TypeInv /\ FolderInv => InOwnFolder
  <2> SUFFICES ASSUME TypeInv, Bounded
               PROVE  Cardinality({r \in Elsewhere : ~AmongNamesakes(r) /\ ~Orphaned(r)})
                        <= Cardinality(FailuresOf("db"))
    BY DEF FolderInv, InOwnFolder
  <2> DEFINE E == {r \in Elsewhere : ~AmongNamesakes(r) /\ ~Orphaned(r)}
  <2>1. E \subseteq Strays
    BY DEF Elsewhere, InGrafana, AmongNamesakes, Strays, Foreign
  <2>2. IsFiniteSet(E) /\ Cardinality(E) <= Cardinality(Strays)
    BY <2>1, FS_Subset DEF Bounded
  <2>3. Cardinality(E) \in Nat /\ Cardinality(Strays) \in Nat
    BY <2>2, FS_CardinalityType DEF Bounded
  <2>4. Cardinality(FailuresOf("db")) \in Nat
    BY FailuresFinite DEF TypeInv, TypeOK
  <2> HIDE DEF E
  <2>5. Cardinality(E) <= Cardinality(FailuresOf("db"))
    BY <2>2, <2>3, <2>4 DEF Bounded
  <2> QED BY <2>5 DEF E
<1> QED BY <1>1, TypeStart, TypeStep, FolderStart, FolderStep, PTL DEF Spec

-----------------------------------------------------------------------------
(* Data sources.  What was listed is there until the end of the walk, and   *)
(* a dashboard that the walk has not met was listed: it is deleted before   *)
(* the data source.                                                         *)

SourcesListed == \A name \in datasourceNames : Sources(name) # {}

SourcePerDashboard == \A c \in Cluster \cap InGrafana : Sources(NameOf[c]) # {}

ListedOrMet ==
  pc # "start" =>
    \A c \in Cluster \cap InGrafana : c \in dashboardUids \/ NameOf[c] \in osmDatasourceNames

ClustersMet == \A c \in clusters \cup (osmResourceUids \cap Cluster) : NameOf[c] \in osmDatasourceNames

SubjectSourced ==
  pc \in {"look_up", "post"} /\ subject \in Cluster =>
    NameOf[subject] \in osmDatasourceNames /\ Sources(NameOf[subject]) # {}

Sourced ==
  /\ SourcesListed
  /\ SourcePerDashboard
  /\ ListedOrMet
  /\ ClustersMet
  /\ SubjectSourced

SourceInv == ~Struck("grafana") => Sourced

\* What has struck has struck for ever.
LEMMA StruckStays ==
  ASSUME TypeInv, [Next]_vars
  PROVE  /\ \A k : Struck(k) => Struck(k)'
         /\ \A k : Strike(k) => Struck(k)'
<1>1. faults \in Seq(FaultKind)
  BY DEF TypeInv, TypeOK
<1>2. UNCHANGED faults \/ \E k : Strike(k)
  BY DEF Next, Appear, Vanish, DeleteFolder, DeleteTeam, Crash, ListGrafana, StartFails,
     ListProjects, ListProjectsFails, VisitProject, CreateFolder, ListClusters, VisitCluster,
     LookUpFolder, PostDashboard, ListNss, VisitNs, DeleteDashboard, DeleteDatasource, EndPass,
     vars
<1>3. UNCHANGED faults => \A k : Struck(k) => Struck(k)'
  BY DEF Struck
<1> QED BY <1>1, <1>2, <1>3, StrikeTypes

\* The end of a pass.
LEMMA SourceLeave ==
  ASSUME Sourced, Leave, datasources' = datasources,
         \A r \in Resource : place'[r] \in {place[r], Nowhere}
  PROVE  Sourced'
<1>1. \A name : Sources(name)' = Sources(name)
  BY DEF Sources
<1>2. InGrafana' \subseteq InGrafana
  BY DEF InGrafana
<1>3. SourcePerDashboard'
  BY <1>1, <1>2 DEF Sourced, SourcePerDashboard
<1>4. SourcesListed' /\ ListedOrMet' /\ ClustersMet' /\ SubjectSourced'
  BY DEF Leave, SourcesListed, ListedOrMet, ClustersMet, SubjectSourced
<1> QED BY <1>3, <1>4 DEF Sourced

\* A step within a pass that creates no dashboard and deletes no data source.
LEMMA SourceWalk ==
  ASSUME Sourced, pc = "start" => pc' = "start",
         UNCHANGED <<datasourceNames, dashboardUids>>,
         datasources \subseteq datasources',
         \A r \in Resource : place'[r] \in {place[r], Nowhere},
         osmDatasourceNames \subseteq osmDatasourceNames',
         \A c \in clusters' \cup (osmResourceUids' \cap Cluster) :
           \/ c \in clusters \cup (osmResourceUids \cap Cluster)
           \/ NameOf[c] \in osmDatasourceNames',
         SubjectSourced'
  PROVE  Sourced'
<1>1. \A name : Sources(name) \subseteq Sources(name)'
  BY DEF Sources
<1>2. InGrafana' \subseteq InGrafana
  BY DEF InGrafana
<1>3. SourcesListed' /\ SourcePerDashboard'
  BY <1>1, <1>2 DEF Sourced, SourcesListed, SourcePerDashboard
<1>4. ListedOrMet' /\ ClustersMet'
  BY <1>2 DEF Sourced, ListedOrMet, ClustersMet
<1> QED BY <1>3, <1>4 DEF Sourced

LEMMA SourceStart == Init => SourceInv
BY DEF Init, SourceInv, Sourced, SourcesListed, SourcePerDashboard, ListedOrMet, ClustersMet,
   SubjectSourced, InGrafana

LEMMA SourceStep == TypeInv /\ SourceInv /\ [Next]_vars => SourceInv'
<1> SUFFICES ASSUME TypeInv, SourceInv, [Next]_vars, ~Struck("grafana")'
             PROVE  Sourced'
  BY DEF SourceInv
<1>0. ~Strike("grafana") /\ Sourced
  BY StruckStays DEF SourceInv
<1>S. \A r \in Resource : r \in Project \cup Ns => r \notin Cluster
  BY KindsAssumption
<1>1. CASE UNCHANGED <<grafana, pc, listed, walk, creation>>
  <2>1. UNCHANGED <<place, datasources, pc, datasourceNames, dashboardUids, clusters,
                    osmResourceUids, osmDatasourceNames, subject>>
    BY <1>1 DEF grafana, listed, walk, creation
  <2>2. SubjectSourced'
    BY <1>0, <2>1 DEF Sourced, SubjectSourced, Sources
  <2> QED BY <1>0, <2>1, <2>2, SourceWalk
<1>2. CASE UNCHANGED vars
  BY <1>1, <1>2 DEF vars
<1>3. CASE \E r \in Resource : Appear(r) \/ Vanish(r)
  BY <1>1, <1>3 DEF Appear, Vanish
<1>4. CASE \E p \in Project : DeleteTeam(p)
  BY <1>1, <1>4 DEF DeleteTeam
<1>5. CASE \E p \in Project : DeleteFolder(p)
  <2>1. /\ UNCHANGED <<datasources, pc, datasourceNames, dashboardUids, clusters,
                       osmResourceUids, osmDatasourceNames, subject>>
        /\ \A r \in Resource : place'[r] \in {place[r], Nowhere}
    BY <1>5 DEF DeleteFolder, listed, walk, creation
  <2>2. SubjectSourced'
    BY <1>0, <2>1 DEF Sourced, SubjectSourced, Sources
  <2> QED BY <1>0, <2>1, <2>2, SourceWalk
<1>6. CASE Leave /\ UNCHANGED grafana
  BY <1>0, <1>6, SourceLeave DEF grafana
<1>7. CASE Crash \/ ListProjectsFails \/ EndPass
  BY <1>6, <1>7 DEF Crash, ListProjectsFails, EndPass
<1>8. CASE ListGrafana
  <2>1. CASE Leave
    BY <1>6, <1>8, <2>1 DEF ListGrafana
  <2>2. CASE ~Leave
    <3>1. /\ dashboardUids' = InGrafana /\ datasourceNames' = Names(datasources)
          /\ pc' = "list_projects"
          /\ UNCHANGED <<place, datasources, clusters, osmResourceUids, osmDatasourceNames>>
      BY <1>8, <2>2 DEF ListGrafana, walk, grafana
    <3>2. UNCHANGED InGrafana /\ \A name : Sources(name)' = Sources(name)
      BY <3>1 DEF InGrafana, Sources
    <3>3. SourcesListed'
      BY <3>1 DEF SourcesListed, Sources, Names
    <3>4. SourcePerDashboard' /\ ListedOrMet' /\ ClustersMet' /\ SubjectSourced'
      BY <1>0, <3>1, <3>2 DEF Sourced, SourcePerDashboard, ListedOrMet, ClustersMet, SubjectSourced
    <3> QED BY <3>3, <3>4 DEF Sourced
  <2> QED BY <2>1, <2>2
<1>9. CASE ListProjects
  <2>1. /\ UNCHANGED <<place, datasources, datasourceNames, dashboardUids, osmResourceUids,
                       osmDatasourceNames>>
        /\ pc # "start" /\ pc' = "cluster" /\ clusters' = {}
    BY <1>9 DEF ListProjects, grafana
  <2>2. SubjectSourced'
    BY <2>1 DEF SubjectSourced
  <2> QED BY <1>0, <2>1, <2>2, SourceWalk
<1>10. CASE \E p \in Project : VisitProject(p)
  <2> PICK p \in Project : VisitProject(p)
    BY <1>10
  <2>1. /\ UNCHANGED <<place, datasources, datasourceNames, dashboardUids, clusters,
                       osmDatasourceNames>>
        /\ pc # "start" /\ osmResourceUids' = osmResourceUids \cup {p}
        /\ pc' \in {"look_up", "post"} => subject' = p
    BY DEF VisitProject, ProjectDone, grafana, listed
  <2>2. p \notin Cluster
    BY KindsAssumption
  <2>3. SubjectSourced'
    BY <2>1, <2>2 DEF SubjectSourced
  <2> QED BY <1>0, <2>1, <2>2, <2>3, SourceWalk
<1>11. CASE CreateFolder
  <2>1. UNCHANGED <<place, datasources>> /\ pc = "folder"
    BY <1>11 DEF CreateFolder
  <2>2. CASE Leave
    BY <1>0, <2>1, <2>2, SourceLeave
  <2>3. CASE ~Leave
    <3>1. UNCHANGED <<datasourceNames, dashboardUids, clusters, osmResourceUids,
                      osmDatasourceNames, subject>>
      BY <1>11, <2>3 DEF CreateFolder, listed, walk, creation
    <3>2. subject \notin Cluster
      BY <2>1, KindsAssumption DEF TypeInv, Taken
    <3>3. SubjectSourced'
      BY <3>1, <3>2 DEF SubjectSourced
    <3> QED BY <1>0, <2>1, <3>1, <3>3, SourceWalk
  <2> QED BY <2>2, <2>3
<1>12. CASE ListClusters
  <2>1. CASE Leave
    BY <1>6, <1>12, <2>1 DEF ListClusters
  <2>2. CASE ~Leave
    <3>1. /\ UNCHANGED <<place, datasources, datasourceNames, dashboardUids>>
          /\ pc # "start" /\ pc' = "cluster"
          /\ clusters' \subseteq Present \cap Cluster
          /\ osmResourceUids' = osmResourceUids \cup (Present \cap Cluster)
          /\ osmDatasourceNames' = osmDatasourceNames \cup Names(Present \cap Cluster)
      BY <1>12, <2>2 DEF ListClusters, grafana, listed
    <3>2. \A c \in Present \cap Cluster : NameOf[c] \in osmDatasourceNames'
      BY <3>1 DEF Names
    <3>3. SubjectSourced'
      BY <3>1 DEF SubjectSourced
    <3> QED BY <1>0, <3>1, <3>2, <3>3, SourceWalk
  <2> QED BY <2>1, <2>2
<1>13. CASE \E c \in Cluster : VisitCluster(c)
  <2> PICK c \in Cluster : VisitCluster(c)
    BY <1>13
  <2>1. /\ UNCHANGED <<place, datasourceNames, dashboardUids, osmResourceUids, osmDatasourceNames>>
        /\ pc # "start"
        /\ c \in clusters /\ clusters' = clusters \ {c}
        /\ subject' = c
        /\ datasources' = IF NameOf[c] \in datasourceNames \cup Names(datasources)
                            THEN datasources ELSE datasources \cup {c}
    BY <1>0 DEF VisitCluster, listed
  <2>2. Sources(NameOf[c])' # {}
    <3>1. CASE NameOf[c] \in datasourceNames
      <4>1. Sources(NameOf[c]) # {} /\ datasources' = datasources
        BY <1>0, <2>1, <3>1 DEF Sourced, SourcesListed
      <4> QED BY <4>1 DEF Sources
    <3>2. CASE NameOf[c] \in Names(datasources)
      BY <2>1, <3>2 DEF Sources, Names
    <3>3. CASE c \in datasources'
      BY <3>3 DEF Sources
    <3> QED BY <2>1, <3>1, <3>2, <3>3
  <2>3. SubjectSourced'
    BY <1>0, <2>1, <2>2 DEF Sourced, ClustersMet, SubjectSourced
  <2> QED BY <1>0, <2>1, <2>3, SourceWalk
<1>14. CASE LookUpFolder
  <2>1. /\ UNCHANGED <<place, datasources, datasourceNames, dashboardUids, clusters,
                       osmResourceUids, osmDatasourceNames>>
        /\ pc = "look_up"
        /\ pc' = "post" => subject' = subject
        /\ pc' # "look_up"
    BY <1>14 DEF LookUpFolder, grafana, listed, walk, Created
  <2>2. SubjectSourced'
    BY <1>0, <2>1 DEF Sourced, SubjectSourced, Sources
  <2> QED BY <1>0, <2>1, <2>2, SourceWalk
<1>15. CASE PostDashboard
  <2>1. /\ UNCHANGED <<datasources, datasourceNames, dashboardUids, clusters, osmResourceUids,
                       osmDatasourceNames>>
        /\ pc = "post" /\ pc' \notin {"start", "look_up", "post"}
        /\ place' = Posted
    BY <1>0, <1>15 DEF PostDashboard, listed, walk, Created
  <2>2. \A r \in Resource : place'[r] \in {place[r], Nowhere} \/ r = subject
    BY <2>1 DEF Cleared, Posted, WithoutAdmin, TypeInv, TypeOK
  <2>3. InGrafana' \subseteq InGrafana \cup {subject}
    BY <2>2 DEF InGrafana
  <2>4. subject \in Cluster => NameOf[subject] \in osmDatasourceNames /\ Sources(NameOf[subject]) # {}
    BY <1>0, <2>1 DEF Sourced, SubjectSourced
  <2>5. \A name : Sources(name)' = Sources(name)
    BY <2>1 DEF Sources
  <2>6. SourcesListed' /\ SourcePerDashboard' /\ ListedOrMet'
    BY <1>0, <2>1, <2>3, <2>4, <2>5 DEF Sourced, SourcesListed, SourcePerDashboard, ListedOrMet
  <2>7. ClustersMet' /\ SubjectSourced'
    BY <1>0, <2>1 DEF Sourced, ClustersMet, SubjectSourced
  <2> QED BY <2>6, <2>7 DEF Sourced
<1>16. CASE ListNss
  <2>1. CASE Leave
    BY <1>6, <1>16, <2>1 DEF ListNss
  <2>2. CASE ~Leave
    <3>1. /\ UNCHANGED <<place, datasources, datasourceNames, dashboardUids, clusters,
                         osmDatasourceNames>>
          /\ pc # "start" /\ pc' = "ns"
          /\ osmResourceUids' = osmResourceUids \cup (Present \cap Ns)
      BY <1>16, <2>2 DEF ListNss, ProjectDone, grafana, listed
    <3>2. osmResourceUids' \cap Cluster = osmResourceUids \cap Cluster
      BY <3>1, KindsAssumption
    <3>3. SubjectSourced'
      BY <3>1 DEF SubjectSourced
    <3> QED BY <1>0, <3>1, <3>2, <3>3, SourceWalk
  <2> QED BY <2>1, <2>2
<1>17. CASE \E n \in Ns : VisitNs(n)
  <2> PICK n \in Ns : VisitNs(n)
    BY <1>17
  <2>1. /\ UNCHANGED <<place, datasources, datasourceNames, dashboardUids, clusters,
                       osmResourceUids, osmDatasourceNames>>
        /\ pc = "ns"
        /\ pc' \in {"look_up", "post"} => subject' = n
    BY DEF VisitNs, grafana, listed
  <2>2. SubjectSourced'
    BY <2>1, KindsAssumption DEF SubjectSourced
  <2> QED BY <1>0, <2>1, <2>2, SourceWalk
<1>18. CASE \E r \in Resource : DeleteDashboard(r)
  <2> PICK r \in Resource : DeleteDashboard(r)
    BY <1>18
  <2>1. /\ UNCHANGED <<datasources, pc, datasourceNames, clusters, osmResourceUids,
                       osmDatasourceNames>>
        /\ pc = "ns"
        /\ place' = [place EXCEPT ![r] = Nowhere]
        /\ dashboardUids' = dashboardUids \ {r}
    BY <1>0 DEF DeleteDashboard, NssDone, walk
  <2>2. InGrafana' = InGrafana \ {r}
    BY <2>1 DEF InGrafana, TypeInv, TypeOK
  <2>3. \A name : Sources(name)' = Sources(name)
    BY <2>1 DEF Sources
  <2>4. SourcesListed' /\ SourcePerDashboard' /\ ListedOrMet'
    BY <1>0, <2>1, <2>2, <2>3 DEF Sourced, SourcesListed, SourcePerDashboard, ListedOrMet
  <2>5. ClustersMet' /\ SubjectSourced'
    BY <1>0, <2>1 DEF Sourced, ClustersMet, SubjectSourced
  <2> QED BY <2>4, <2>5 DEF Sourced
<1>19. CASE \E name \in Names(Cluster) : DeleteDatasource(name)
  <2> PICK name \in Names(Cluster) : DeleteDatasource(name)
    BY <1>19
  <2>1. /\ UNCHANGED <<place, pc, dashboardUids, clusters, osmResourceUids, osmDatasourceNames>>
        /\ pc = "ns"
        /\ ObsoleteDashboards = {} /\ name \in ObsoleteDatasources
        /\ datasources' = datasources \ Sources(name)
        /\ datasourceNames' = datasourceNames \ {name}
    BY <1>0 DEF DeleteDatasource, NssDone, walk
  <2>2. \A other : other # name => Sources(other)' = Sources(other)
    BY <2>1 DEF Sources
  <2>3. ASSUME NEW c \in Cluster \cap InGrafana
        PROVE  NameOf[c] # name
    <3>1. NameOf[c] \in osmDatasourceNames
      BY <1>0, <2>1, <2>3 DEF Sourced, ListedOrMet, ClustersMet, ObsoleteDashboards
    <3> QED BY <2>1, <3>1 DEF ObsoleteDatasources
  <2>4. InGrafana' = InGrafana
    BY <2>1 DEF InGrafana
  <2>5. SourcesListed' /\ SourcePerDashboard' /\ ListedOrMet'
    BY <1>0, <2>1, <2>2, <2>3, <2>4 DEF Sourced, SourcesListed, SourcePerDashboard, ListedOrMet
  <2>6. ClustersMet' /\ SubjectSourced'
    BY <1>0, <2>1 DEF Sourced, ClustersMet, SubjectSourced
  <2> QED BY <2>5, <2>6 DEF Sourced
<1> QED BY <1>2, <1>3, <1>4, <1>5, <1>7, <1>8, <1>9, <1>10, <1>11, <1>12, <1>13, <1>14,
           <1>15, <1>16, <1>17, <1>18, <1>19 DEF Next

\* Unless Grafana failed, every dashboard of a cluster has its data source, whatever
\* clusters come and go with whatever names, and wherever a pass is cut short.
THEOREM ClustersHaveSources == Spec => []SourceFirst
<1>1. SourceInv => SourceFirst
  BY DEF SourceInv, Sourced, SourcePerDashboard, SourceFirst
<1> QED BY <1>1, TypeStart, TypeStep, SourceStart, SourceStep, PTL DEF Spec
-----------------------------------------------------------------------------
(* What is in use is kept.  A resource that had a dashboard when the pass   *)
(* began and is in OSM now has been there all the time, so that the walk    *)
(* meets it: a project when projects are listed, a cluster with the first   *)
(* project at the latest, and its project is there, an NS at the end.       *)

InPass == pc \notin {"start", "list_projects"}

Creating == pc \in {"folder", "look_up", "post"}

OnProject == pc \in {"folder", "list_clusters"} \/ (Creating /\ subject \in Project)

OnNss == pc = "ns" \/ (pc \in {"look_up", "post"} /\ subject \in Ns)

\* What the loop has listed existed, and no two projects of a list are namesakes.
AbsentUnlisted == \A r \in Resource : osm[r] = "absent" => r \notin dashboardUids \cup projects

UniqueNames ==
  \A p, q \in Project \cap Present : NameOf[p] = NameOf[q] => p = q

UniqueListed == \A p, q \in projects : NameOf[p] = NameOf[q] => p = q

\* Where the walk over the projects is, and that it makes no dashboard twice.
WalkShape ==
  /\ ~InPass => osmResourceUids = {} /\ todo = {} /\ projects = {}
  /\ pc = "list_projects" => InGrafana \subseteq dashboardUids
  /\ todo \cap Project \subseteq projects
  /\ \A p \in todo \cap Project : p \in dashboardUids \/ place[p] = Nowhere
  /\ Creating /\ subject \in Project => subject \in projects \ todo /\ place[subject] = Nowhere
  /\ projects \subseteq osmResourceUids \cup todo
  /\ OnNss => todo \cap Project = {}

ProjectsMet ==
  InPass => \A p \in Present \cap Project : p \in dashboardUids \cup InGrafana => p \in projects

ClusterProjectsMet ==
  InPass => \A c \in Present \cap Cluster \cap dashboardUids : ProjectOf[c] \in projects

ClustersListed ==
  InPass /\ ~OnProject /\ projects \cap osmResourceUids # {} =>
    Present \cap Cluster \cap dashboardUids \subseteq osmResourceUids

NssListed == OnNss => Present \cap Ns \cap dashboardUids \subseteq osmResourceUids

WalkInv == AbsentUnlisted /\ UniqueNames /\ UniqueListed /\ WalkShape

MetInv == ProjectsMet /\ ClusterProjectsMet /\ ClustersListed /\ NssListed

KeptInv == WalkInv /\ (~Struck("keystone") => MetInv)

LEMMA KeptStart == Init => KeptInv
<1> SUFFICES ASSUME Init PROVE KeptInv
  OBVIOUS
<1>1. UniqueNames
  BY DEF Init, UniqueNames, Present, Resource, Kind
<1> QED BY <1>1 DEF Init, KeptInv, WalkInv, MetInv, AbsentUnlisted, UniqueListed, WalkShape,
     InPass, Creating, OnProject, OnNss, InGrafana, ProjectsMet, ClusterProjectsMet,
     ClustersListed, NssListed

\* The end of a pass.
LEMMA KeptLeave ==
  ASSUME KeptInv, Leave, osm' = osm
  PROVE  KeptInv'
<1>1. AbsentUnlisted' /\ UniqueListed'
  BY DEF Leave, AbsentUnlisted, UniqueListed
<1>2. UniqueNames'
  BY DEF KeptInv, WalkInv, UniqueNames, Present
<1>3. WalkShape' /\ MetInv'
  BY DEF Leave, WalkShape, MetInv, InPass, Creating, OnProject, OnNss, ProjectsMet,
     ClusterProjectsMet, ClustersListed, NssListed
<1> QED BY <1>1, <1>2, <1>3 DEF KeptInv, WalkInv

\* A step of a pass, after OSM's projects were listed, in which OSM stays and no
\* dashboard is made but that of a project of the list.
LEMMA KeptWalk ==
  ASSUME WalkInv, osm' = osm, InPass, InPass',
         projects' = projects, dashboardUids' \subseteq dashboardUids,
         osmResourceUids \subseteq osmResourceUids',
         \A p \in Project : p \in InGrafana' => p \in InGrafana \cup projects,
         WalkShape',
         MetInv => ClustersListed' /\ NssListed'
  PROVE  WalkInv' /\ (MetInv => MetInv')
<1>1. Present' = Present
  BY DEF Present
<1>2. AbsentUnlisted' /\ UniqueNames' /\ UniqueListed'
  BY <1>1 DEF WalkInv, AbsentUnlisted, UniqueNames, UniqueListed
<1>3. MetInv => ProjectsMet' /\ ClusterProjectsMet'
  BY <1>1 DEF MetInv, ProjectsMet, ClusterProjectsMet
<1> QED BY <1>2, <1>3 DEF WalkInv, MetInv

\* The resources that appear and vanish.
LEMMA KeptWorld ==
  ASSUME TypeInv, FolderInv, KeptInv, NEW r \in Resource, Appear(r) \/ Vanish(r)
  PROVE  KeptInv'
<1>1. /\ UNCHANGED <<place, pc, dashboardUids, projects, todo, osmResourceUids, subject, faults>>
      /\ osm' \in {[osm EXCEPT ![r] = "present"], [osm EXCEPT ![r] = "gone"]}
  BY DEF Appear, Vanish, grafana, listed, walk, creation
<1>2. /\ InGrafana' = InGrafana
      /\ InPass' <=> InPass
      /\ OnProject' <=> OnProject
      /\ OnNss' <=> OnNss
      /\ UniqueListed'
      /\ WalkShape'
  BY <1>1 DEF InGrafana, InPass, OnProject, OnNss, Creating, KeptInv, WalkInv, UniqueListed,
     WalkShape
<1>3. AbsentUnlisted'
  BY <1>1 DEF KeptInv, WalkInv, AbsentUnlisted, TypeInv, TypeOK
<1>4. CASE Appear(r)
  <2>1. osm[r] = "absent" /\ Present' = Present \cup {r}
    BY <1>4 DEF Appear, Present, TypeInv, TypeOK
  <2>2. r \notin dashboardUids \cup InGrafana
    BY <2>1 DEF KeptInv, WalkInv, AbsentUnlisted, FolderInv, AbsentUnseen, Unseen, InGrafana
  <2>3. UniqueNames'
    <3>1. \A q \in Present : Kind(q) = Kind(r) => NameOf[q] # NameOf[r]
      BY <1>4 DEF Appear
    <3>2. \A p \in Project : Kind(p) = Project
      BY DEF Kind
    <3>3. r \in Project => \A q \in Present \cap Project : NameOf[q] # NameOf[r]
      BY <3>1, <3>2
    <3> QED BY <2>1, <3>3 DEF KeptInv, WalkInv, UniqueNames
  <2>4. MetInv => MetInv'
    BY <1>1, <1>2, <2>1, <2>2 DEF MetInv, ProjectsMet, ClusterProjectsMet, ClustersListed, NssListed
  <2> QED BY <1>1, <1>2, <1>3, <2>3, <2>4 DEF KeptInv, WalkInv, Struck
<1>5. CASE Vanish(r)
  <2>1. Present' \subseteq Present
    BY <1>5 DEF Vanish, Present, TypeInv, TypeOK
  <2>2. UniqueNames'
    BY <2>1 DEF KeptInv, WalkInv, UniqueNames
  <2>3. MetInv => MetInv'
    BY <1>1, <1>2, <2>1 DEF MetInv, ProjectsMet, ClusterProjectsMet, ClustersListed, NssListed
  <2> QED BY <1>1, <1>2, <1>3, <2>2, <2>3 DEF KeptInv, WalkInv, Struck
<1> QED BY <1>4, <1>5

\* The lists a pass begins with.
LEMMA KeptListGrafana ==
  ASSUME TypeInv, FolderInv, KeptInv, ListGrafana, ~Leave
  PROVE  KeptInv'
<1>1. /\ UNCHANGED <<osm, place, projects, todo, osmResourceUids, subject, faults>>
      /\ pc = "start" /\ pc' = "list_projects" /\ dashboardUids' = InGrafana
  BY DEF ListGrafana, world, grafana, walk, creation
<1>2. AbsentUnlisted'
  BY <1>1 DEF KeptInv, WalkInv, AbsentUnlisted, FolderInv, AbsentUnseen, Unseen, InGrafana
<1>3. UniqueNames' /\ UniqueListed'
  BY <1>1 DEF KeptInv, WalkInv, UniqueNames, UniqueListed, Present
<1>4. WalkShape'
  BY <1>1 DEF KeptInv, WalkInv, WalkShape, InPass, Creating, OnNss, InGrafana
<1>5. MetInv'
  BY <1>1 DEF MetInv, InPass, OnNss, ProjectsMet, ClusterProjectsMet, ClustersListed, NssListed
<1> QED BY <1>2, <1>3, <1>4, <1>5 DEF KeptInv, WalkInv

LEMMA KeptListProjects ==
  ASSUME TypeInv, FolderInv, KeptInv, ListProjects
  PROVE  KeptInv'
<1>1. /\ UNCHANGED <<osm, place, dashboardUids, osmResourceUids, subject>>
      /\ pc = "list_projects" /\ pc' = "cluster" /\ todo' = projects'
      /\ projects' \subseteq Present \cap Project
  BY DEF ListProjects, world, grafana, creation
<1>2. Present' = Present /\ InGrafana' = InGrafana
  BY <1>1 DEF Present, InGrafana
<1>3. osmResourceUids = {} /\ InGrafana \subseteq dashboardUids
  BY <1>1 DEF KeptInv, WalkInv, WalkShape, InPass
<1>4. AbsentUnlisted'
  BY <1>1, <1>2 DEF KeptInv, WalkInv, AbsentUnlisted, Present
<1>5. UniqueNames' /\ UniqueListed'
  BY <1>1, <1>2 DEF KeptInv, WalkInv, UniqueNames, UniqueListed
<1>6. WalkShape'
  BY <1>1, <1>2, <1>3 DEF WalkShape, InPass, Creating, OnNss, InGrafana, Resource
<1>7. ASSUME ~Struck("keystone")'
      PROVE  MetInv'
  <2>1. projects' = Present \cap Project
    BY <1>7, StrikeTypes DEF ListProjects, TypeInv, TypeOK
  <2>2. ProjectsMet'
    BY <1>2, <2>1 DEF ProjectsMet
  <2>3. \A c \in Present \cap Cluster : ProjectOf[c] \in Present \cap Project
    BY KindsAssumption, ProjectOfAssumption DEF FolderInv, Housed
  <2>4. ClusterProjectsMet'
    BY <1>2, <2>1, <2>3 DEF ClusterProjectsMet
  <2>5. ClustersListed' /\ NssListed'
    BY <1>1, <1>3 DEF ClustersListed, NssListed, OnNss
  <2> QED BY <2>2, <2>4, <2>5 DEF MetInv
<1> QED BY <1>4, <1>5, <1>6, <1>7 DEF KeptInv, WalkInv

\* Folders that are deleted, and whatever does not concern the walk.
LEMMA KeptAside ==
  ASSUME KeptInv, UNCHANGED <<osm, pc, dashboardUids, projects, todo, osmResourceUids, subject>>,
         \A r \in Resource : place'[r] \in {place[r], Nowhere}
  PROVE  WalkInv' /\ (MetInv => MetInv')
<1>1. Present' = Present /\ InGrafana' \subseteq InGrafana
  BY DEF Present, InGrafana
<1>2. AbsentUnlisted' /\ UniqueNames' /\ UniqueListed'
  BY <1>1 DEF KeptInv, WalkInv, AbsentUnlisted, UniqueNames, UniqueListed
<1>3. WalkShape'
  BY <1>1 DEF KeptInv, WalkInv, WalkShape, InPass, Creating, OnNss, Resource
<1>4. MetInv => MetInv'
  BY <1>1 DEF MetInv, ProjectsMet, ClusterProjectsMet, ClustersListed, NssListed, InPass,
     OnProject, OnNss, Creating
<1> QED BY <1>2, <1>3, <1>4 DEF WalkInv

\* The steps of the walk.
LEMMA KeptProject ==
  ASSUME TypeInv, KeptInv, NEW p \in Project, VisitProject(p)
  PROVE  WalkInv' /\ (MetInv => MetInv')
<1>1. /\ UNCHANGED <<osm, place, projects, dashboardUids>>
      /\ pc = "cluster" /\ pc' \in {"folder", "look_up", "list_clusters"}
      /\ p \in todo /\ todo' = todo \ {p} /\ osmResourceUids' = osmResourceUids \cup {p}
      /\ pc' # "list_clusters" => subject' = p /\ p \notin dashboardUids
  BY DEF VisitProject, ProjectDone, world, grafana, listed
<1>2. p \notin Ns
  BY KindsAssumption
<1>3. InGrafana' = InGrafana
  BY <1>1 DEF InGrafana
<1>4. WalkShape'
  BY <1>1, <1>2, <1>3 DEF KeptInv, WalkInv, WalkShape, InPass, Creating, OnNss
<1>5. ClustersListed' /\ NssListed'
  BY <1>1, <1>2 DEF ClustersListed, NssListed, OnProject, OnNss, Creating
<1> QED BY <1>1, <1>3, <1>4, <1>5, KeptWalk DEF KeptInv, InPass

LEMMA KeptCreateFolder ==
  ASSUME TypeInv, KeptInv, CreateFolder, ~Leave
  PROVE  WalkInv' /\ (MetInv => MetInv')
<1>1. /\ UNCHANGED <<osm, place, projects, dashboardUids, todo, osmResourceUids, subject>>
      /\ pc = "folder" /\ pc' = "look_up" /\ subject \in Project
  BY DEF CreateFolder, world, listed, walk, creation, TypeInv, Taken
<1>2. subject \notin Ns
  BY <1>1, KindsAssumption
<1>3. InGrafana' = InGrafana
  BY <1>1 DEF InGrafana
<1>4. WalkShape'
  BY <1>1, <1>2, <1>3 DEF KeptInv, WalkInv, WalkShape, InPass, Creating, OnNss
<1>5. ClustersListed' /\ NssListed'
  BY <1>1, <1>2 DEF ClustersListed, NssListed, OnProject, OnNss, Creating
<1> QED BY <1>1, <1>3, <1>4, <1>5, KeptWalk DEF KeptInv, InPass

LEMMA KeptListClusters ==
  ASSUME TypeInv, KeptInv, ListClusters, ~Leave
  PROVE  WalkInv' /\ (MetInv => MetInv')
<1>1. /\ UNCHANGED <<osm, place, projects, dashboardUids, todo>>
      /\ pc = "list_clusters" /\ pc' = "cluster"
      /\ osmResourceUids' = osmResourceUids \cup (Present \cap Cluster)
  BY DEF ListClusters, world, grafana, listed
<1>2. InGrafana' = InGrafana /\ Present' = Present
  BY <1>1 DEF InGrafana, Present
<1>3. WalkShape'
  BY <1>1, <1>2 DEF KeptInv, WalkInv, WalkShape, InPass, Creating, OnNss
<1>4. ClustersListed' /\ NssListed'
  BY <1>1, <1>2 DEF ClustersListed, NssListed, OnNss
<1> QED BY <1>1, <1>2, <1>3, <1>4, KeptWalk DEF KeptInv, InPass

LEMMA KeptCluster ==
  ASSUME TypeInv, KeptInv, NEW c \in Cluster, VisitCluster(c)
  PROVE  WalkInv' /\ (MetInv => MetInv')
<1>1. /\ UNCHANGED <<osm, place, projects, dashboardUids, todo, osmResourceUids>>
      /\ pc = "cluster" /\ pc' = "look_up" /\ subject' = c
  BY DEF VisitCluster, world, listed
<1>2. c \notin Project /\ c \notin Ns
  BY KindsAssumption
<1>3. InGrafana' = InGrafana /\ Present' = Present
  BY <1>1 DEF InGrafana, Present
<1>4. WalkShape'
  BY <1>1, <1>2, <1>3 DEF KeptInv, WalkInv, WalkShape, InPass, Creating, OnNss
<1>5. MetInv => ClustersListed' /\ NssListed'
  BY <1>1, <1>2, <1>3 DEF MetInv, ClustersListed, NssListed, InPass, OnProject, OnNss, Creating
<1> QED BY <1>1, <1>3, <1>4, <1>5, KeptWalk DEF KeptInv, InPass

\* create_dashboard ends or goes on with the same subject.
LEMMA KeptCreation ==
  ASSUME TypeInv, KeptInv, LookUpFolder \/ PostDashboard
  PROVE  WalkInv' /\ (MetInv => MetInv')
<1>1. /\ UNCHANGED <<osm, projects, dashboardUids, todo, osmResourceUids>>
      /\ pc \in {"look_up", "post"}
      /\ \/ pc' = "post" /\ subject' = subject
         \/ pc' = Created
      /\ subject \in Resource
  BY DEF LookUpFolder, PostDashboard, world, listed, walk, TypeInv, Taken
<1>2. /\ subject \in Project => pc' \in {"post", "list_clusters"}
      /\ subject \in Cluster => pc' \in {"post", "cluster"}
      /\ subject \in Ns => pc' \in {"post", "ns"}
      /\ pc' = "post" => subject' = subject
  BY <1>1, KindsAssumption DEF Created
<1>3. \A r \in Resource : r # subject => place'[r] \in {place[r], Nowhere}
  BY DEF LookUpFolder, PostDashboard, grafana, Cleared, Posted, WithoutAdmin, TypeInv, TypeOK
<1>4. pc' = "post" => place' = place
  BY <1>1 DEF LookUpFolder, PostDashboard, grafana, Created
<1>5. InGrafana' \subseteq InGrafana \cup {subject} /\ Present' = Present
  BY <1>1, <1>3 DEF InGrafana, Present
<1>6. subject \in Project \/ subject \in Cluster \/ subject \in Ns
  BY <1>1 DEF Resource
<1>7. /\ OnProject' <=> OnProject
      /\ OnNss' => OnNss
  BY <1>1, <1>2, <1>6, KindsAssumption DEF OnProject, OnNss, Creating
<1>8. InPass /\ InPass'
  BY <1>1, <1>2, <1>6 DEF InPass
<1>9. subject \in Project => subject \in projects \ todo /\ place[subject] = Nowhere
  BY <1>1 DEF KeptInv, WalkInv, WalkShape, Creating
<1>10. WalkShape'
  <2>1. WalkShape
    BY DEF KeptInv, WalkInv
  <2>2. \A p \in todo \cap Project : p \in dashboardUids \/ place'[p] = Nowhere
    BY <1>3, <1>9, <2>1 DEF WalkShape, Resource
  <2>3. Creating' /\ subject' \in Project =>
          subject' \in projects' \ todo' /\ place'[subject'] = Nowhere
    BY <1>1, <1>2, <1>4, <1>6, <1>9 DEF Creating
  <2> QED BY <1>1, <1>2, <1>6, <1>7, <1>8, <2>1, <2>2, <2>3 DEF WalkShape, InPass
<1>11. MetInv => ClustersListed' /\ NssListed'
  BY <1>1, <1>5, <1>7, <1>8 DEF MetInv, ClustersListed, NssListed
<1> QED BY <1>1, <1>5, <1>8, <1>9, <1>10, <1>11, KeptWalk DEF KeptInv

LEMMA KeptNss ==
  ASSUME TypeInv, KeptInv, (ListNss /\ ~Leave) \/ \E n \in Ns : VisitNs(n)
  PROVE  WalkInv' /\ (MetInv => MetInv')
<1>1. CASE ListNss /\ ~Leave
  <2>1. /\ UNCHANGED <<osm, place, projects, dashboardUids>>
        /\ pc = "cluster" /\ pc' = "ns" /\ todo = {} /\ todo' = Present \cap Ns
        /\ osmResourceUids' = osmResourceUids \cup (Present \cap Ns)
    BY <1>1 DEF ListNss, ProjectDone, world, grafana, listed
  <2>2. InGrafana' = InGrafana /\ Present' = Present
    BY <2>1 DEF InGrafana, Present
  <2>3. todo' \cap Project = {} /\ projects \subseteq osmResourceUids
    BY <2>1, KindsAssumption DEF KeptInv, WalkInv, WalkShape
  <2>4. WalkShape'
    BY <2>1, <2>2, <2>3 DEF WalkShape, InPass, Creating
  <2>5. projects \cap osmResourceUids' = projects \cap osmResourceUids
    BY <2>1, <2>3
  <2>6. MetInv => ClustersListed' /\ NssListed'
    BY <2>1, <2>2, <2>5 DEF MetInv, ClustersListed, NssListed, InPass, OnProject, OnNss, Creating
  <2> QED BY <2>1, <2>2, <2>4, <2>6, KeptWalk DEF KeptInv, InPass
<1>2. ASSUME NEW n \in Ns, VisitNs(n)
      PROVE  WalkInv' /\ (MetInv => MetInv')
  <2>1. /\ UNCHANGED <<osm, place, projects, dashboardUids, osmResourceUids>>
        /\ pc = "ns" /\ todo' = todo \ {n}
        /\ pc' = "ns" \/ (pc' = "look_up" /\ subject' = n)
    BY <1>2 DEF VisitNs, world, grafana, listed
  <2>2. InGrafana' = InGrafana /\ Present' = Present
    BY <2>1 DEF InGrafana, Present
  <2>3. n \notin Project /\ n \notin projects
    BY KindsAssumption DEF TypeInv, TypeOK
  <2>4. WalkShape'
    BY <2>1, <2>2, <2>3 DEF KeptInv, WalkInv, WalkShape, InPass, Creating, OnNss
  <2>5. MetInv => ClustersListed' /\ NssListed'
    BY <2>1, <2>2, <2>3 DEF MetInv, ClustersListed, NssListed, InPass, OnProject, OnNss, Creating
  <2> QED BY <2>1, <2>2, <2>4, <2>5, KeptWalk DEF KeptInv, InPass
<1> QED BY <1>1, <1>2

LEMMA KeptDelete ==
  ASSUME TypeInv, KeptInv, ~Leave,
         \/ \E r \in Resource : DeleteDashboard(r)
         \/ \E name \in Names(Cluster) : DeleteDatasource(name)
  PROVE  WalkInv' /\ (MetInv => MetInv')
<1>1. /\ UNCHANGED <<osm, projects, todo, osmResourceUids, pc, subject>>
      /\ pc = "ns" /\ dashboardUids' \subseteq dashboardUids
      /\ \A r \in Resource : place'[r] \in {place[r], Nowhere}
  BY DEF DeleteDashboard, DeleteDatasource, NssDone, world, walk, creation, TypeInv, TypeOK
<1>2. InGrafana' \subseteq InGrafana /\ Present' = Present
  BY <1>1 DEF InGrafana, Present
<1>3. WalkShape'
  BY <1>1, <1>2 DEF KeptInv, WalkInv, WalkShape, InPass, Creating, OnNss
<1>4. MetInv => ClustersListed' /\ NssListed'
  BY <1>1, <1>2 DEF MetInv, ClustersListed, NssListed, InPass, OnProject, OnNss, Creating
<1> QED BY <1>1, <1>2, <1>3, <1>4, KeptWalk DEF KeptInv, InPass

LEMMA KeptStep == TypeInv /\ FolderInv /\ KeptInv /\ [Next]_vars => KeptInv'
<1> SUFFICES ASSUME TypeInv, FolderInv, KeptInv, [Next]_vars PROVE KeptInv'
  OBVIOUS
<1>1. CASE WalkInv' /\ (MetInv => MetInv')
  BY <1>1, StruckStays DEF KeptInv
<1>2. CASE UNCHANGED vars
  <2>1. /\ UNCHANGED <<osm, pc, dashboardUids, projects, todo, osmResourceUids, subject>>
        /\ place' = place
    BY <1>2 DEF vars, world, grafana, listed, walk, creation
  <2> QED BY <1>1, <2>1, KeptAside
<1>3. CASE \E r \in Resource : Appear(r) \/ Vanish(r)
  BY <1>3, KeptWorld
<1>4. CASE \E p \in Project : DeleteFolder(p) \/ DeleteTeam(p)
  <2>1. /\ UNCHANGED <<osm, pc, dashboardUids, projects, todo, osmResourceUids, subject>>
        /\ \A r \in Resource : place'[r] \in {place[r], Nowhere}
    BY <1>4 DEF DeleteFolder, DeleteTeam, grafana, listed, walk, creation
  <2> QED BY <1>1, <2>1, KeptAside
<1>5. CASE Leave
  <2>1. osm' = osm \/ \E r \in Resource : Appear(r) \/ Vanish(r)
    BY <1>5 DEF Next, Crash, ListGrafana, ListProjects, ListProjectsFails, VisitProject,
       CreateFolder, ListClusters, VisitCluster, LookUpFolder, PostDashboard, ListNss, VisitNs,
       DeleteDashboard, DeleteDatasource, EndPass, DeleteFolder, DeleteTeam, world, vars
  <2> QED BY <1>3, <1>5, <2>1, KeptLeave
<1>6. CASE ~Leave
  <2>1. CASE Crash \/ ListProjectsFails \/ EndPass
    BY <1>6, <2>1 DEF Crash, ListProjectsFails, EndPass
  <2>2. CASE ListGrafana
    BY <1>6, <2>2, KeptListGrafana
  <2>3. CASE ListProjects
    BY <2>3, KeptListProjects
  <2>4. CASE \E p \in Project : VisitProject(p)
    BY <1>1, <2>4, KeptProject
  <2>5. CASE CreateFolder
    BY <1>1, <1>6, <2>5, KeptCreateFolder
  <2>6. CASE ListClusters
    BY <1>1, <1>6, <2>6, KeptListClusters
  <2>7. CASE \E c \in Cluster : VisitCluster(c)
    BY <1>1, <2>7, KeptCluster
  <2>8. CASE LookUpFolder \/ PostDashboard
    BY <1>1, <2>8, KeptCreation
  <2>9. CASE ListNss \/ \E n \in Ns : VisitNs(n)
    BY <1>1, <1>6, <2>9, KeptNss
  <2>10. CASE \/ \E r \in Resource : DeleteDashboard(r)
              \/ \E name \in Names(Cluster) : DeleteDatasource(name)
    BY <1>1, <1>6, <2>10, KeptDelete
  <2> QED BY <1>2, <1>3, <1>4, <2>1, <2>2, <2>3, <2>4, <2>5, <2>6, <2>7, <2>8, <2>9, <2>10
             DEF Next
<1> QED BY <1>5, <1>6

\* What a step may not do to a dashboard.
Keeps(r) == UNCHANGED events /\ ~Struck("keystone") => place'[r] # Nowhere \/ MistakenForAdmin(r)

LEMMA KeptByPost ==
  ASSUME TypeInv, KeptInv, NEW r \in Present \cap InGrafana, PostDashboard
  PROVE  Keeps(r)
<1> SUFFICES ASSUME ~Struck("keystone"), place'[r] = Nowhere PROVE MistakenForAdmin(r)
  BY DEF Keeps
<1>1. place' \in {place, Cleared, Posted} /\ pc = "post"
  BY DEF PostDashboard
<1>2. r \in Resource /\ place[r] # Nowhere
  BY DEF Present, InGrafana
<1>3. folderId # Nowhere
  BY FolderTypes DEF TypeInv, TypeOK, Folder, Names, Resource, General, Nowhere
<1>4. /\ Cleared = WithoutAdmin /\ NameOf[subject] = "admin"
      /\ r \in Project /\ NameOf[r] = "admin"
  BY <1>1, <1>2, <1>3 DEF Cleared, Posted, WithoutAdmin, TypeInv, TypeOK
<1>5. subject \in Resource
  BY <1>1 DEF TypeInv, Taken
<1>6. subject \notin Project
  <2> SUFFICES ASSUME subject \in Project PROVE FALSE
    OBVIOUS
  <2>1. subject \in projects /\ place[subject] = Nowhere
    BY <1>1 DEF KeptInv, WalkInv, WalkShape, Creating
  <2>2. r \in projects
    BY <1>1, <1>4 DEF KeptInv, MetInv, ProjectsMet, InPass
  <2>3. r = subject
    BY <1>4, <2>1, <2>2 DEF KeptInv, WalkInv, UniqueListed
  <2> QED BY <1>2, <2>1, <2>3
<1> QED BY <1>4, <1>5, <1>6 DEF MistakenForAdmin, Resource

LEMMA KeptByDelete ==
  ASSUME TypeInv, KeptInv, NEW r \in Present \cap InGrafana,
         NEW q \in Resource, DeleteDashboard(q)
  PROVE  Keeps(r)
<1> SUFFICES ASSUME ~Struck("keystone"), place'[r] = Nowhere PROVE FALSE
  BY DEF Keeps
<1>1. r \in Resource /\ place[r] # Nowhere
  BY DEF Present, InGrafana
<1>2. place' \in {place, [place EXCEPT ![q] = Nowhere]}
  BY DEF DeleteDashboard
<1>3. r = q
  BY <1>1, <1>2 DEF TypeInv, TypeOK
<1>4. pc = "ns" /\ todo = {} /\ r \in dashboardUids /\ r \notin osmResourceUids
  BY <1>3 DEF DeleteDashboard, NssDone, ObsoleteDashboards
<1>5. projects \subseteq osmResourceUids
  BY <1>4 DEF KeptInv, WalkInv, WalkShape
<1>6. InPass /\ ~OnProject /\ OnNss /\ MetInv
  BY <1>4 DEF InPass, OnProject, OnNss, Creating, KeptInv
<1>7. CASE r \in Project
  BY <1>4, <1>5, <1>6, <1>7 DEF MetInv, ProjectsMet
<1>8. CASE r \in Cluster
  BY <1>4, <1>5, <1>6, <1>8 DEF MetInv, ClusterProjectsMet, ClustersListed
<1>9. CASE r \in Ns
  BY <1>4, <1>6, <1>9 DEF MetInv, NssListed
<1> QED BY <1>1, <1>7, <1>8, <1>9 DEF Resource

LEMMA KeptAction ==
  ASSUME TypeInv, KeptInv, Next, NEW r \in Present \cap InGrafana
  PROVE  Keeps(r)
<1>1. CASE place' = place
  BY <1>1 DEF Keeps, InGrafana
<1>2. ASSUME NEW p \in Project, DeleteFolder(p) PROVE Keeps(r)
  BY <1>2 DEF Keeps, DeleteFolder, TypeInv, TypeOK
<1>3. CASE PostDashboard
  BY <1>3, KeptByPost
<1>4. CASE \E q \in Resource : DeleteDashboard(q)
  BY <1>4, KeptByDelete
<1>5. CASE \E q \in Resource : Appear(q) \/ Vanish(q)
  BY <1>1, <1>5 DEF Appear, Vanish, grafana
<1>6. CASE \/ \E p \in Project : DeleteTeam(p)
           \/ Crash \/ ListGrafana \/ ListProjects \/ ListProjectsFails
           \/ \E p \in Project : VisitProject(p)
           \/ CreateFolder \/ ListClusters \/ LookUpFolder \/ ListNss \/ EndPass
           \/ \E c \in Cluster : VisitCluster(c)
           \/ \E n \in Ns : VisitNs(n)
           \/ \E name \in Names(Cluster) : DeleteDatasource(name)
  <2>1. place' = place
    BY <1>6 DEF DeleteTeam, Crash, ListGrafana, ListProjects, ListProjectsFails, VisitProject,
       CreateFolder, ListClusters, LookUpFolder, ListNss, EndPass, VisitCluster, VisitNs,
       DeleteDatasource, grafana
  <2> QED BY <1>1, <2>1
<1> QED BY <1>2, <1>3, <1>4, <1>5, <1>6 DEF Next

\* Unless keystone failed, no step but the consumer's takes away the dashboard of a
\* resource that OSM has, except that of the project admin for a namesake: whatever
\* comes, goes or fails while the loop walks.
THEOREM DashboardsInUseKept == Spec => InUseKept
<1>1. TypeInv /\ KeptInv /\ [Next]_vars =>
        [\A r \in Present \cap InGrafana :
           UNCHANGED events /\ ~Struck("keystone") =>
             place'[r] # Nowhere \/ MistakenForAdmin(r)]_vars
  BY KeptAction DEF Keeps
<1> QED BY <1>1, TypeStart, TypeStep, FolderStart, FolderStep, KeptStart, KeptStep, PTL
        DEF Spec, InUseKept
=============================================================================

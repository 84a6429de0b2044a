---------------------------- MODULE MCDashboards ----------------------------
(* Instances of Dashboards for TLC. *)
EXTENDS Dashboards

CONSTANTS p1, p2, c1, n1, n2

OneProject == {p1}
TwoProjects == {p1, p2}
OneCluster == {c1}
NoCluster == {}
OneNs == {n1}
TwoNss == {n1, n2}
NoNs == {}

\* A project with one NS, and the project admin with the other and with a cluster
\* that is named as the first project.
OwnProject == [r \in Cluster \cup Ns |-> IF r = n1 THEN p1 ELSE p2]
PlainAndAdmin == [r \in Resource |->
                    CASE r \in {p1, c1} -> "x" [] r = p2 -> "admin" [] r = n1 -> "n" [] OTHER -> "m"]

\* Everything but the cluster is in OSM already.
MCInit == Init /\ Present = Resource \ {c1}
MCSpec == MCInit /\ [][Next]_vars /\ Fairness

=============================================================================

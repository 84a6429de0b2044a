--------------------------- MODULE MCGrafanaTeams ---------------------------
(* Instances of GrafanaTeams for TLC. *)
EXTENDS GrafanaTeams

CONSTANTS u1, p1, p2

OneUser == {u1}
TwoProjects == {p1, p2}

\* The project admin or another one from the start, and one to come.
FirstNamed(n) == [p \in Project |-> IF p = p1 THEN n ELSE "absent"]
AdminOrX == {FirstNamed("admin"), FirstNamed("x")}
=============================================================================

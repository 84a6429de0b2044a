--------------------------- MODULE MCOpenstackVnf ---------------------------
(* Instances of OpenstackVnf for TLC. *)
EXTENDS OpenstackVnf

CONSTANTS n1, n2, a, b, c, i1, i2, i3

\* One VNF of one VDU with two interfaces, and one of two VDUs.
TheVdurs == n1 :> <<a>> @@ n2 :> <<b, c>>
TheParams == a :> <<"packets">> @@ b :> <<"cpu">> @@ c :> <<"packets">>
TheInterfaces == a :> {i1, i2} @@ b :> {} @@ c :> {i3}

\* A rate that is wrong shows in the third cycle, a text or a table in the second.
EnoughCycles == [x \in Account |-> IF x = "rocky" THEN 3 ELSE 2]
=============================================================================

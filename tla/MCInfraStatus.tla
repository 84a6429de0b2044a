--------------------------- MODULE MCInfraStatus ---------------------------
(* An instance of InfraStatus for TLC: an OpenStack VIM without block storage *)
(* and with two machines, of one of which a metric without a name is asked,   *)
(* a vCD with one machine, and an SDN controller.                             *)
EXTENDS InfraStatus

CONSTANTS os, vcd, onos, m1, m2, m3

TheTypes == [v \in {os, vcd} |-> IF v = os THEN "openstack" ELSE "vmware"]
TheHosts == [m \in Machine |-> IF m = m2 THEN vcd ELSE os]
TheRecorded == [v \in {os, vcd} |-> IF v = os THEN {"storage", "network"} ELSE {}]
NoBlockStorage == {<<os, "storage">>}

\* At the start one machine is there at most.
MCInit ==
  /\ Init
  /\ Cardinality({m \in Machine : record[m] = "filled"}) <= 1
MCSpec == MCInit /\ [][Next]_vars /\ Fairness
=============================================================================

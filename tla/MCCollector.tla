---------------------------- MODULE MCCollector ----------------------------
(* Instances of Collector for TLC. *)
EXTENDS Collector

CONSTANTS v1, v2, f1, f2, s1

OneVim == {v1}
TwoVims == {v1, v2}
OneVnf == {f1}
TwoVnfs == {f1, f2}
NoSdnc == {}
OneSdnc == {s1}

AllOpenstack == [v \in Vim |-> "openstack"]
OpenstackAndVmware == [v \in Vim |-> IF v = v1 THEN "openstack" ELSE "vmware"]
OpenstackAndOther == [v \in Vim |-> IF v = v1 THEN "openstack" ELSE "other"]
OpenstackAndVio == [v \in Vim |-> IF v = v1 THEN "openstack" ELSE "vio"]

AllOnV1 == [f \in Vnf |-> v1]
AllOnV2 == [f \in Vnf |-> v2]

EachFaultOnce == [k \in FaultKind |-> 1]

\* A target that fails while the database does, or the container; and a pool that
\* loses a worker and its time.
SickTargetOrPool == {{"ail", "db"}, {"ail", "crash"}, {"deadline", "kill"}}
AilAndDb == {{"ail", "db"}}
=============================================================================

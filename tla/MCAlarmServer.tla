---------------------------- MODULE MCAlarmServer ----------------------------
(* Instances of AlarmServer for TLC. *)
EXTENDS AlarmServer

\* Every kind of fault, each once.
EachFaultOnce == [k \in FaultKind |-> 1]

OneCrash == [k \in FaultKind |-> IF k = "crash" THEN 1 ELSE 0]

AnyTwo == {kinds \in SUBSET FaultKind : Cardinality(kinds) = 2}

\* The bound on identifiers never binds: a request is read once per start.
ASSUME UuidsSuffice ==
  MaxUuids >= MaxRequests * (1 + MaxFaults["crash"] + MaxFaults["subscription"])
=============================================================================

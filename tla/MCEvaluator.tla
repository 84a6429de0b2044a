---------------------------- MODULE MCEvaluator ----------------------------
(* Instances of Evaluator for TLC. *)
EXTENDS Evaluator, TLC

CONSTANTS a1, a2

OneAlarm == {a1}
TwoAlarms == {a1, a2}

AllGt == [a \in Alarm |-> "gt"]
GtAndLt == [a \in Alarm |-> IF a = a1 THEN "gt" ELSE "lt"]

EachFaultOnce == [k \in FaultKind |-> 1]

\* A process that a timeout leaves behind meets one that a failed fork leaves, a
\* failed query or a crash; and database and bus fail together.
LateOrFailing ==
  {{"timeout", "fork"}, {"timeout", "query"}, {"timeout", "crash"}, {"db", "bus"}}
=============================================================================

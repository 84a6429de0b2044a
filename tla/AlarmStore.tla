----------------------------- MODULE AlarmStore -----------------------------
(***************************************************************************)
(* What MON Server promises its clients, without requests, positions or    *)
(* collections: a store of alarms that changes atomically, never takes     *)
(* back an alarm it let go of, and whose positive answers are true when    *)
(* they are given.                                                         *)
(***************************************************************************)
EXTENDS Naturals, Sequences

CONSTANTS
  CorrelationId,
  Uuid,
  NoUuid

VARIABLES
  stored,   \* alarms that exist
  retired,  \* identifiers that are spent: of deleted and of abandoned alarms
  answers   \* what clients were told, oldest first

avars == <<stored, retired, answers>>

Init ==
  /\ stored = {}
  /\ retired = {}
  /\ answers = <<>>

Create(u) ==
  /\ u \notin stored \cup retired
  /\ stored' = stored \cup {u}
  /\ UNCHANGED <<retired, answers>>

Delete(u) ==
  /\ u \in stored
  /\ stored' = stored \ {u}
  /\ retired' = retired \cup {u}
  /\ UNCHANGED answers

\* A creation that failed before the alarm existed.
Abandon(u) ==
  /\ u \notin stored
  /\ retired' = retired \cup {u}
  /\ UNCHANGED <<stored, answers>>

\* A negative answer promises nothing: the client cannot tell what was done.
Truthful(a) ==
  a.status => IF a.key = "create" THEN a.uuid \in stored ELSE a.uuid \in retired

Answer(a) ==
  /\ Truthful(a)
  /\ answers' = Append(answers, a)
  /\ UNCHANGED <<stored, retired>>

Next ==
  \/ \E u \in Uuid : Create(u) \/ Delete(u) \/ Abandon(u)
  \/ \E req \in CorrelationId, key \in {"create", "delete"}, status \in BOOLEAN,
        u \in Uuid \cup {NoUuid} :
       Answer([req |-> req, key |-> key, status |-> status, uuid |-> u])

Spec == Init /\ [][Next]_avars
=============================================================================

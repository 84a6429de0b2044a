------------------------- MODULE AlarmServer_proofs -------------------------
(***************************************************************************)
(* Theorems about MON Server, for any number of requests, identifiers and  *)
(* faults.                                                                 *)
(***************************************************************************)
EXTENDS AlarmServer, TLAPS

USE BoundsAssumption

-----------------------------------------------------------------------------
(* Type correctness                                                        *)

LEMMA RequestUuid == \A r \in Request : r.uuid \in MaybeUuid
BY DEF Request, MaybeUuid, NoUuid

\* While an alarm is being created the handler holds a uuid, never None.
CreatingHasUuid == pc \in {"create_action", "create_alarm"} => uuid \in Uuid

TypeInv == TypeOK /\ CreatingHasUuid

LEMMA TypeInit == Init => TypeInv
BY DEF Init, TypeInv, CreatingHasUuid, TypeOK, PC, MaybeUuid, Uuid, NoUuid, NoReply, Reply, FaultKind

LEMMA StrikeType ==
  ASSUME TypeOK, NEW k \in FaultKind, Strike(k)
  PROVE  faults' \in [FaultKind -> Nat]
BY DEF TypeOK, Strike

LEMMA RefuseType ==
  ASSUME TypeOK, NEW key \in {"create", "delete"}, Refuse(key)
  PROVE  pc' \in PC /\ response' \in Reply
<1> DEFINE u == IF key = "create" THEN NoUuid ELSE uuid
<1>1. position \in Nat /\ u \in MaybeUuid
  BY DEF TypeOK, MaybeUuid
<1>2. [req |-> position, key |-> key, status |-> FALSE, uuid |-> u] \in Reply
  BY <1>1 DEF Reply
<1> QED
  BY <1>2 DEF Refuse, Respond, PC

LEMMA AcceptType ==
  ASSUME TypeOK, NEW key \in {"create", "delete"}, Respond(position, key, TRUE, uuid)
  PROVE  pc' \in PC /\ response' \in Reply
<1>1. position \in Nat /\ uuid \in MaybeUuid
  BY DEF TypeOK
<1>2. [req |-> position, key |-> key, status |-> TRUE, uuid |-> uuid] \in Reply
  BY <1>1 DEF Reply
<1> QED
  BY <1>2 DEF Respond, PC

LEMMA TypeStep == TypeInv /\ [Next]_vars => TypeInv'
<1> SUFFICES ASSUME TypeInv, [Next]_vars
             PROVE  TypeInv'
  OBVIOUS
<1> USE DEF TypeInv, TypeOK, CreatingHasUuid
<1>1. CASE Send
  BY <1>1 DEF Send, consumer, handler, store
<1>2. CASE Commit
  BY <1>2 DEF Commit, handler, store
<1>3. CASE Start
  BY <1>3, StrikeType DEF Start, PC, FaultKind
<1>4. CASE LoseSubscription
  BY <1>4, StrikeType DEF LoseSubscription, PC, consumer, store, FaultKind
<1>5. CASE Resubscribe
  BY <1>5 DEF Resubscribe, PC, store
<1>6. CASE Crash
  BY <1>6, StrikeType DEF Crash, PC, consumer, store, FaultKind, MaybeUuid,
     NoUuid, NoReply, Reply
<1>7. CASE ReadCreate
  BY <1>7 DEF ReadCreate, Read, FreshUuid, PC, store, MaybeUuid, Uuid
<1>8. CASE ReadIncompleteCreate
  BY <1>8 DEF ReadIncompleteCreate, Read, Respond, Reply, PC, store, MaybeUuid
<1>9. CASE ReadDelete
  BY <1>9, RequestUuid DEF ReadDelete, Read, NextRequest, PC, store
<1>10. CASE ReadIgnored
  BY <1>10 DEF ReadIgnored, Read, handler, store
<1>11. CASE CreateAction
  <2>1. faults' \in [FaultKind -> Nat]
    BY <1>11, StrikeType DEF CreateAction, FaultKind
  <2>2. pc' \in PC /\ response' \in Reply
    BY <1>11, RefuseType, AcceptType DEF CreateAction, PC
  <2>3. alarms' \subseteq Uuid /\ alarmsAction' \subseteq Uuid
    BY <1>11 DEF CreateAction, store
  <2> QED
    BY <1>11, <2>1, <2>2, <2>3 DEF CreateAction, consumer, store
<1>12. CASE CreateAlarm
  <2>1. faults' \in [FaultKind -> Nat]
    BY <1>12, StrikeType DEF CreateAlarm, FaultKind
  <2>2. pc' \in PC /\ response' \in Reply
    BY <1>12, RefuseType, AcceptType DEF CreateAlarm, PC
  <2>3. alarms' \subseteq Uuid /\ alarmsAction' \subseteq Uuid
    BY <1>12 DEF CreateAlarm, store
  <2> QED
    BY <1>12, <2>1, <2>2, <2>3 DEF CreateAlarm, consumer, store
<1>13. CASE DeleteAction
  <2>1. faults' \in [FaultKind -> Nat]
    BY <1>13, StrikeType DEF DeleteAction, FaultKind
  <2>2. pc' \in PC /\ response' \in Reply
    BY <1>13, RefuseType, AcceptType DEF DeleteAction, PC
  <2>3. alarms' \subseteq Uuid /\ alarmsAction' \subseteq Uuid
    BY <1>13 DEF DeleteAction, store
  <2> QED
    BY <1>13, <2>1, <2>2, <2>3 DEF DeleteAction, Refuse, Respond, consumer, store
<1>14. CASE DeleteAlarm
  <2>1. faults' \in [FaultKind -> Nat]
    BY <1>14, StrikeType DEF DeleteAlarm, FaultKind
  <2>2. pc' \in PC /\ response' \in Reply
    BY <1>14, RefuseType, AcceptType DEF DeleteAlarm, PC
  <2>3. alarms' \subseteq Uuid /\ alarmsAction' \subseteq Uuid
    BY <1>14 DEF DeleteAlarm, store
  <2> QED
    BY <1>14, <2>1, <2>2, <2>3 DEF DeleteAlarm, Refuse, Respond, consumer, store
<1>15. CASE Publish
  <2>1. faults' \in [FaultKind -> Nat]
    BY <1>15, StrikeType DEF Publish, FaultKind
  <2>2. pc' \in PC /\ response' \in Reply /\ uuid' \in MaybeUuid
    BY <1>15 DEF Publish, PC, NoReply, Reply, MaybeUuid
  <2>3. replies' \in Seq(Reply)
    <3>1. Append(replies, response) \in Seq(Reply)
      OBVIOUS
    <3> QED
      BY <1>15, <3>1 DEF Publish
  <2> QED
    BY <1>15, <2>1, <2>2, <2>3 DEF Publish, consumer, store
<1>16. CASE UNCHANGED vars
  BY <1>16 DEF vars, consumer, store, handler
<1> QED
  BY <1>1, <1>2, <1>3, <1>4, <1>5, <1>6, <1>7, <1>8, <1>9, <1>10, <1>11, <1>12,
     <1>13, <1>14, <1>15, <1>16 DEF Next, Handle

\* Every variable of the server stays in its type; in particular a restart never
\* duplicates the exporter's job in prometheus_jobs.
THEOREM TypeCorrect == Spec => []TypeOK
<1>1. Init => TypeInv
  BY TypeInit
<1>2. TypeInv /\ [Next]_vars => TypeInv'
  BY TypeStep
<1>3. TypeInv => TypeOK
  BY DEF TypeInv
<1> QED
  BY <1>1, <1>2, <1>3, PTL DEF Spec

-----------------------------------------------------------------------------
(* What clients can rely on.  The invariant adds to the three properties   *)
(* that every identifier in sight has been drawn, that nobody can name the *)
(* alarm being created before it is stored, and what the response about to *)
(* be published says of the store.                                         *)

Drawn == DOMAIN owner \cup {NoUuid}

OnlyDrawnUuids ==
  /\ alarms \cup alarmsAction \subseteq DOMAIN owner
  /\ \A i \in DOMAIN replies : replies[i].uuid \in Drawn
  /\ \A i \in DOMAIN requests : requests[i].uuid \in Drawn
  /\ uuid \in Drawn
  /\ response.uuid \in Drawn

Unnamed(u) ==
  /\ u \notin alarms
  /\ \A i \in DOMAIN replies : replies[i].uuid # u
  /\ \A i \in DOMAIN requests : requests[i].uuid # u

Creating == pc \in {"create_action", "create_alarm"} => uuid \in DOMAIN owner /\ Unnamed(uuid)

ActionFirst == pc = "create_alarm" => uuid \in alarmsAction

Deleting == pc \in {"delete_action", "delete_alarm"} => DeleteSent(uuid)

Pending ==
  pc = "publish" /\ response.status =>
    IF response.key = "create" THEN response.uuid \in alarms \cap alarmsAction
    ELSE response.uuid \in DOMAIN owner \ (alarms \cup alarmsAction)

ActionGone == pc = "delete_alarm" => uuid \in DOMAIN owner \ alarmsAction

\* As DeletedForGood, and the identifier is a drawn one.
DeletedStaysDeleted ==
  \A i \in DOMAIN replies :
    replies[i].key = "delete" /\ replies[i].status =>
      replies[i].uuid \in DOMAIN owner \ (alarms \cup alarmsAction)

IInv ==
  /\ TypeInv
  /\ OnlyDrawnUuids
  /\ Creating
  /\ ActionFirst
  /\ Deleting
  /\ ActionGone
  /\ Pending
  /\ AcknowledgedStored
  /\ DeletedStaysDeleted
  /\ StoresAgree

LEMMA SafetyInit == Init => IInv
<1> SUFFICES ASSUME Init PROVE IInv
  OBVIOUS
<1>1. TypeInv
  BY TypeInit
<1> QED
  BY <1>1 DEF Init, IInv, OnlyDrawnUuids, Drawn, Creating, ActionFirst, Deleting,
     ActionGone, Pending, AcknowledgedStored, Acknowledged, DeletedStaysDeleted,
     StoresAgree, NoReply

LEMMA AppendFacts ==
  ASSUME NEW S, NEW s \in Seq(S), NEW e \in S
  PROVE  /\ DOMAIN s = 1..Len(s)
         /\ DOMAIN Append(s, e) = 1..(Len(s) + 1)
         /\ \A i \in DOMAIN s : Append(s, e)[i] = s[i]
         /\ Append(s, e)[Len(s) + 1] = e
  OBVIOUS

LEMMA SafetyStep == IInv /\ [Next]_vars => IInv'
<1> SUFFICES ASSUME IInv, [Next]_vars
             PROVE  IInv'
  OBVIOUS
<1>0. TypeInv /\ TypeInv'
  BY TypeStep DEF IInv
<1>1. CASE Send
  <2>1. PICK r \in Request : r.uuid \in Known /\ requests' = Append(requests, r)
    BY <1>1 DEF Send
  <2>2. /\ DOMAIN requests' = DOMAIN requests \cup {Len(requests) + 1}
        /\ \A i \in DOMAIN requests : requests'[i] = requests[i]
        /\ requests'[Len(requests) + 1] = r
    BY <1>0, <2>1, AppendFacts DEF TypeInv, TypeOK
  <2>3. UNCHANGED <<consumer, handler, store, replies, owner>>
    BY <1>1 DEF Send
  <2>4. OnlyDrawnUuids'
    BY <2>1, <2>2, <2>3 DEF IInv, consumer, handler, store, OnlyDrawnUuids, Drawn, Known
  <2>5. Creating'
    <3>1. pc \in {"create_action", "create_alarm"} => uuid # NoUuid
      BY <1>0 DEF TypeInv, CreatingHasUuid, Uuid, NoUuid
    <3> QED
      BY <2>1, <2>2, <2>3, <3>1 DEF IInv, handler, store, Creating, Unnamed, Known
  <2>6. ActionFirst'
    BY <2>1, <2>2, <2>3 DEF IInv, consumer, handler, store, ActionFirst
  <2>7. Deleting'
    BY <2>1, <2>2, <2>3 DEF IInv, consumer, handler, store, Deleting, DeleteSent
  <2>8. ActionGone'
    BY <2>1, <2>2, <2>3 DEF IInv, consumer, handler, store, ActionGone, OnlyDrawnUuids
  <2>9. Pending'
    BY <2>1, <2>2, <2>3 DEF IInv, consumer, handler, store, Pending, OnlyDrawnUuids
  <2>10. AcknowledgedStored'
    BY <2>1, <2>2, <2>3 DEF IInv, consumer, handler, store, AcknowledgedStored, Acknowledged, DeleteSent
  <2>11. DeletedStaysDeleted'
    BY <2>1, <2>2, <2>3 DEF IInv, consumer, handler, store, DeletedStaysDeleted
  <2>12. StoresAgree'
    BY <2>1, <2>2, <2>3 DEF IInv, consumer, handler, store, StoresAgree, Acknowledged, DeleteSent
  <2> QED
    BY <1>0, <2>4, <2>5, <2>6, <2>7, <2>8, <2>9, <2>10, <2>11, <2>12 DEF IInv
<1>2. CASE Commit
  BY <1>0, <1>2 DEF Commit, consumer, store, handler,
     IInv, TypeInv, TypeOK, OnlyDrawnUuids, Drawn, Creating, ActionFirst, Deleting, ActionGone,
     Pending, AcknowledgedStored, DeletedStaysDeleted, StoresAgree, Unnamed, DeleteSent,
     Acknowledged
<1>3. CASE Start
  BY <1>0, <1>3 DEF Start, consumer, store, handler,
     IInv, TypeInv, TypeOK, OnlyDrawnUuids, Drawn, Creating, ActionFirst, Deleting, ActionGone,
     Pending, AcknowledgedStored, DeletedStaysDeleted, StoresAgree, Unnamed, DeleteSent,
     Acknowledged
<1>4. CASE LoseSubscription
  BY <1>0, <1>4 DEF LoseSubscription, consumer, store, handler,
     IInv, TypeInv, TypeOK, OnlyDrawnUuids, Drawn, Creating, ActionFirst, Deleting, ActionGone,
     Pending, AcknowledgedStored, DeletedStaysDeleted, StoresAgree, Unnamed, DeleteSent,
     Acknowledged
<1>5. CASE Resubscribe
  BY <1>0, <1>5 DEF Resubscribe, consumer, store, handler,
     IInv, TypeInv, TypeOK, OnlyDrawnUuids, Drawn, Creating, ActionFirst, Deleting, ActionGone,
     Pending, AcknowledgedStored, DeletedStaysDeleted, StoresAgree, Unnamed, DeleteSent,
     Acknowledged
<1>6. CASE Crash
  BY <1>0, <1>6 DEF Crash, NoReply, consumer, store, handler,
     IInv, TypeInv, TypeOK, OnlyDrawnUuids, Drawn, Creating, ActionFirst, Deleting, ActionGone,
     Pending, AcknowledgedStored, DeletedStaysDeleted, StoresAgree, Unnamed, DeleteSent,
     Acknowledged
<1>7. CASE ReadCreate
  <2>1. /\ DOMAIN owner' = DOMAIN owner \cup {uuid'}
        /\ uuid' = Len(owner) + 1
        /\ uuid' \notin DOMAIN owner
        /\ uuid' # NoUuid
    BY <1>0, <1>7, AppendFacts DEF ReadCreate, Read, FreshUuid, TypeInv, TypeOK, NoUuid
  <2>2. /\ pc' = "create_action"
        /\ UNCHANGED <<requests, replies, store, response>>
    BY <1>7 DEF ReadCreate, Read
  <2>3. OnlyDrawnUuids'
    BY <2>1, <2>2 DEF IInv, store, OnlyDrawnUuids, Drawn
  <2>4. Creating'
    BY <2>1, <2>2 DEF IInv, store, Creating, Unnamed, OnlyDrawnUuids, Drawn
  <2>5. ActionFirst'
    BY <2>1, <2>2 DEF IInv, store, ActionFirst
  <2>6. Deleting'
    BY <2>1, <2>2 DEF IInv, store, Deleting, DeleteSent
  <2>7. ActionGone'
    BY <2>1, <2>2 DEF IInv, store, ActionGone, OnlyDrawnUuids
  <2>8. Pending'
    BY <2>1, <2>2 DEF IInv, store, Pending, OnlyDrawnUuids
  <2>9. AcknowledgedStored'
    BY <2>1, <2>2 DEF IInv, store, AcknowledgedStored, Acknowledged, DeleteSent
  <2>10. DeletedStaysDeleted'
    BY <2>1, <2>2 DEF IInv, store, DeletedStaysDeleted
  <2>11. StoresAgree'
    BY <2>1, <2>2 DEF IInv, store, StoresAgree, Acknowledged, DeleteSent
  <2> QED
    BY <1>0, <2>3, <2>4, <2>5, <2>6, <2>7, <2>8, <2>9, <2>10, <2>11 DEF IInv
<1>8. CASE ReadIncompleteCreate
  BY <1>0, <1>8 DEF ReadIncompleteCreate, Read, Respond, consumer, store, handler,
     IInv, TypeInv, TypeOK, OnlyDrawnUuids, Drawn, Creating, ActionFirst, Deleting, ActionGone,
     Pending, AcknowledgedStored, DeletedStaysDeleted, StoresAgree, Unnamed, DeleteSent,
     Acknowledged
<1>9. CASE ReadDelete
  BY <1>0, <1>9 DEF ReadDelete, Read, NextRequest, consumer, store, handler,
     IInv, TypeInv, TypeOK, OnlyDrawnUuids, Drawn, Creating, ActionFirst, Deleting, ActionGone,
     Pending, AcknowledgedStored, DeletedStaysDeleted, StoresAgree, Unnamed, DeleteSent,
     Acknowledged
<1>10. CASE ReadIgnored
  BY <1>0, <1>10 DEF ReadIgnored, Read, consumer, store, handler,
     IInv, TypeInv, TypeOK, OnlyDrawnUuids, Drawn, Creating, ActionFirst, Deleting, ActionGone,
     Pending, AcknowledgedStored, DeletedStaysDeleted, StoresAgree, Unnamed, DeleteSent,
     Acknowledged
<1>11. CASE CreateAction
  <2>1. UNCHANGED <<requests, replies, owner, uuid>>
    BY <1>11 DEF CreateAction
  <2>2. OnlyDrawnUuids'
    BY <1>0, <1>11, <2>1 DEF IInv, CreateAction, Refuse, Respond, TypeInv, TypeOK, OnlyDrawnUuids, Drawn, Creating
  <2>3. Creating'
    BY <1>0, <1>11, <2>1 DEF IInv, CreateAction, Refuse, Respond, TypeInv, TypeOK, Creating, Unnamed
  <2>4. ActionFirst'
    BY <1>0, <1>11, <2>1 DEF IInv, CreateAction, Refuse, Respond, TypeInv, TypeOK, ActionFirst
  <2>5. Deleting'
    BY <1>0, <1>11, <2>1 DEF IInv, CreateAction, Refuse, Respond, TypeInv, TypeOK, Deleting, DeleteSent
  <2>6. ActionGone'
    BY <1>0, <1>11, <2>1 DEF IInv, CreateAction, Refuse, Respond, TypeInv, TypeOK, ActionGone, OnlyDrawnUuids
  <2>7. Pending'
    BY <1>0, <1>11, <2>1 DEF IInv, CreateAction, Refuse, Respond, TypeInv, TypeOK, Pending, OnlyDrawnUuids
  <2>8. AcknowledgedStored'
    BY <1>0, <1>11, <2>1 DEF IInv, CreateAction, Refuse, Respond, TypeInv, TypeOK, AcknowledgedStored, Acknowledged, DeleteSent
  <2>9. DeletedStaysDeleted'
    BY <1>0, <1>11, <2>1 DEF IInv, CreateAction, Refuse, Respond, TypeInv, TypeOK, DeletedStaysDeleted, Creating, Unnamed
  <2>10. StoresAgree'
    BY <1>0, <1>11, <2>1 DEF IInv, CreateAction, Refuse, Respond, TypeInv, TypeOK, StoresAgree, Acknowledged, DeleteSent, Creating, Unnamed
  <2> QED
    BY <1>0, <2>2, <2>3, <2>4, <2>5, <2>6, <2>7, <2>8, <2>9, <2>10 DEF IInv
<1>12. CASE CreateAlarm
  <2>1. UNCHANGED <<requests, replies, owner, uuid>>
    BY <1>12 DEF CreateAlarm
  <2>2. OnlyDrawnUuids'
    BY <1>0, <1>12, <2>1 DEF IInv, CreateAlarm, Refuse, Respond, TypeInv, TypeOK, OnlyDrawnUuids, Drawn, Creating
  <2>3. Creating'
    BY <1>0, <1>12, <2>1 DEF IInv, CreateAlarm, Refuse, Respond, TypeInv, TypeOK, Creating, Unnamed
  <2>4. ActionFirst'
    BY <1>0, <1>12, <2>1 DEF IInv, CreateAlarm, Refuse, Respond, TypeInv, TypeOK, ActionFirst
  <2>5. Deleting'
    BY <1>0, <1>12, <2>1 DEF IInv, CreateAlarm, Refuse, Respond, TypeInv, TypeOK, Deleting, DeleteSent
  <2>6. ActionGone'
    BY <1>0, <1>12, <2>1 DEF IInv, CreateAlarm, Refuse, Respond, TypeInv, TypeOK, ActionGone, OnlyDrawnUuids
  <2>7. Pending'
    BY <1>0, <1>12, <2>1 DEF IInv, CreateAlarm, Refuse, Respond, TypeInv, TypeOK, Pending, OnlyDrawnUuids, ActionFirst
  <2>8. AcknowledgedStored'
    BY <1>0, <1>12, <2>1 DEF IInv, CreateAlarm, Refuse, Respond, TypeInv, TypeOK, AcknowledgedStored, Acknowledged, DeleteSent
  <2>9. DeletedStaysDeleted'
    BY <1>0, <1>12, <2>1 DEF IInv, CreateAlarm, Refuse, Respond, TypeInv, TypeOK, DeletedStaysDeleted, Creating, Unnamed
  <2>10. StoresAgree'
    BY <1>0, <1>12, <2>1 DEF IInv, CreateAlarm, Refuse, Respond, TypeInv, TypeOK, StoresAgree, Acknowledged, DeleteSent, ActionFirst
  <2> QED
    BY <1>0, <2>2, <2>3, <2>4, <2>5, <2>6, <2>7, <2>8, <2>9, <2>10 DEF IInv
<1>13. CASE DeleteAction
  <2>1. UNCHANGED <<requests, replies, owner, uuid>>
    BY <1>13 DEF DeleteAction
  <2>2. OnlyDrawnUuids'
    BY <1>0, <1>13, <2>1 DEF IInv, DeleteAction, Refuse, Respond, TypeInv, TypeOK, OnlyDrawnUuids, Drawn
  <2>3. Creating'
    BY <1>0, <1>13, <2>1 DEF IInv, DeleteAction, Refuse, Respond, TypeInv, TypeOK, Creating, Unnamed
  <2>4. ActionFirst'
    BY <1>0, <1>13, <2>1 DEF IInv, DeleteAction, Refuse, Respond, TypeInv, TypeOK, ActionFirst
  <2>5. Deleting'
    BY <1>0, <1>13, <2>1 DEF IInv, DeleteAction, Refuse, Respond, TypeInv, TypeOK, Deleting, DeleteSent
  <2>6. ActionGone'
    BY <1>0, <1>13, <2>1 DEF IInv, DeleteAction, Refuse, Respond, TypeInv, TypeOK, ActionGone, OnlyDrawnUuids
  <2>7. Pending'
    BY <1>0, <1>13, <2>1 DEF IInv, DeleteAction, Refuse, Respond, TypeInv, TypeOK, Pending, OnlyDrawnUuids
  <2>8. AcknowledgedStored'
    BY <1>0, <1>13, <2>1, ZenonT(30) DEF IInv, DeleteAction, Refuse, Respond, TypeInv, TypeOK, AcknowledgedStored, Acknowledged, DeleteSent, Deleting
  <2>9. DeletedStaysDeleted'
    BY <1>0, <1>13, <2>1 DEF IInv, DeleteAction, Refuse, Respond, TypeInv, TypeOK, DeletedStaysDeleted
  <2>10. StoresAgree'
    BY <1>0, <1>13, <2>1 DEF IInv, DeleteAction, Refuse, Respond, TypeInv, TypeOK, StoresAgree, Acknowledged, DeleteSent, Deleting
  <2> QED
    BY <1>0, <2>2, <2>3, <2>4, <2>5, <2>6, <2>7, <2>8, <2>9, <2>10 DEF IInv
<1>14. CASE DeleteAlarm
  <2>1. UNCHANGED <<requests, replies, owner, uuid>>
    BY <1>14 DEF DeleteAlarm
  <2>2. OnlyDrawnUuids'
    BY <1>0, <1>14, <2>1 DEF IInv, DeleteAlarm, Refuse, Respond, TypeInv, TypeOK, OnlyDrawnUuids, Drawn
  <2>3. Creating'
    BY <1>0, <1>14, <2>1 DEF IInv, DeleteAlarm, Refuse, Respond, TypeInv, TypeOK, Creating, Unnamed
  <2>4. ActionFirst'
    BY <1>0, <1>14, <2>1 DEF IInv, DeleteAlarm, Refuse, Respond, TypeInv, TypeOK, ActionFirst
  <2>5. Deleting'
    BY <1>0, <1>14, <2>1 DEF IInv, DeleteAlarm, Refuse, Respond, TypeInv, TypeOK, Deleting, DeleteSent
  <2>6. ActionGone'
    BY <1>0, <1>14, <2>1 DEF IInv, DeleteAlarm, Refuse, Respond, TypeInv, TypeOK, ActionGone, OnlyDrawnUuids
  <2>7. Pending'
    BY <1>0, <1>14, <2>1 DEF IInv, DeleteAlarm, Refuse, Respond, TypeInv, TypeOK, Pending, OnlyDrawnUuids, ActionGone
  <2>8. AcknowledgedStored'
    BY <1>0, <1>14, <2>1, SMTT(30) DEF IInv, DeleteAlarm, Refuse, Respond, TypeInv, TypeOK, AcknowledgedStored, Acknowledged, DeleteSent, Deleting
  <2>9. DeletedStaysDeleted'
    BY <1>0, <1>14, <2>1 DEF IInv, DeleteAlarm, Refuse, Respond, TypeInv, TypeOK, DeletedStaysDeleted
  <2>10. StoresAgree'
    <3>1. /\ pc = "delete_alarm"
          /\ alarms' \in {alarms, alarms \ {uuid}}
          /\ UNCHANGED alarmsAction
      BY <1>14 DEF DeleteAlarm
    <3> QED
      BY <2>1, <3>1 DEF IInv, StoresAgree, Acknowledged, DeleteSent, ActionGone
  <2> QED
    BY <1>0, <2>2, <2>3, <2>4, <2>5, <2>6, <2>7, <2>8, <2>9, <2>10 DEF IInv
<1>15. CASE Publish
  <2>1. \/ UNCHANGED replies
        \/ /\ DOMAIN replies' = DOMAIN replies \cup {Len(replies) + 1}
           /\ \A i \in DOMAIN replies : replies'[i] = replies[i]
           /\ replies'[Len(replies) + 1] = response
    <3>1. \/ UNCHANGED replies
          \/ replies' = Append(replies, response)
      BY <1>15 DEF Publish
    <3>2. /\ DOMAIN Append(replies, response) = DOMAIN replies \cup {Len(replies) + 1}
          /\ \A i \in DOMAIN replies : Append(replies, response)[i] = replies[i]
          /\ Append(replies, response)[Len(replies) + 1] = response
      BY <1>0, AppendFacts DEF TypeInv, TypeOK
    <3> QED
      BY <3>1, <3>2
  <2>2. /\ pc = "publish"
        /\ pc' = "idle"
        /\ uuid' = NoUuid
        /\ response' = NoReply
        /\ UNCHANGED <<requests, store, owner>>
    BY <1>15 DEF Publish
  <2>3. OnlyDrawnUuids'
    BY <2>1, <2>2 DEF IInv, store, NoReply, OnlyDrawnUuids, Drawn
  <2>4. Creating'
    BY <2>1, <2>2 DEF IInv, store, NoReply, Creating, Unnamed
  <2>5. ActionFirst'
    BY <2>1, <2>2 DEF IInv, store, NoReply, ActionFirst
  <2>6. Deleting'
    BY <2>1, <2>2 DEF IInv, store, NoReply, Deleting, DeleteSent
  <2>7. ActionGone'
    BY <2>1, <2>2 DEF IInv, store, NoReply, ActionGone, OnlyDrawnUuids
  <2>8. Pending'
    BY <2>1, <2>2 DEF IInv, store, NoReply, Pending, OnlyDrawnUuids
  <2>9. AcknowledgedStored'
    BY <2>1, <2>2 DEF IInv, store, NoReply, AcknowledgedStored, Acknowledged, DeleteSent, Pending
  <2>10. DeletedStaysDeleted'
    BY <2>1, <2>2 DEF IInv, store, NoReply, DeletedStaysDeleted, Pending
  <2>11. StoresAgree'
    BY <2>1, <2>2 DEF IInv, store, NoReply, StoresAgree, Acknowledged, DeleteSent, Pending
  <2> QED
    BY <1>0, <2>3, <2>4, <2>5, <2>6, <2>7, <2>8, <2>9, <2>10, <2>11 DEF IInv
<1>16. CASE UNCHANGED vars
  BY <1>0, <1>16 DEF vars, consumer, store, handler,
     IInv, TypeInv, TypeOK, OnlyDrawnUuids, Drawn, Creating, ActionFirst, Deleting, ActionGone,
     Pending, AcknowledgedStored, DeletedStaysDeleted, StoresAgree, Unnamed, DeleteSent,
     Acknowledged
<1> QED
  BY <1>1, <1>2, <1>3, <1>4, <1>5, <1>6, <1>7, <1>8, <1>9, <1>10, <1>11, <1>12,
     <1>13, <1>14, <1>15, <1>16 DEF Next, Handle

LEMMA Safety == Spec => []IInv
<1>1. Init => IInv
  BY SafetyInit
<1>2. IInv /\ [Next]_vars => IInv'
  BY SafetyStep
<1> QED
  BY <1>1, <1>2, PTL DEF Spec

\* An alarm acknowledged to a client keeps its two documents until its deletion is
\* requested, in spite of crashes, redeliveries and failures of the database.
THEOREM AcknowledgedAlarmsStored == Spec => []AcknowledgedStored
<1>1. IInv => AcknowledgedStored
  BY DEF IInv
<1> QED
  BY <1>1, Safety, PTL

\* An alarm whose deletion was acknowledged is gone for good.
THEOREM DeletionsFinal == Spec => []DeletedForGood
<1>1. IInv => DeletedForGood
  BY DEF IInv, DeletedStaysDeleted, DeletedForGood
<1> QED
  BY <1>1, Safety, PTL

\* The two collections differ only by deletions under way or cut short and by
\* creations no client was told of.
THEOREM CollectionsAgree == Spec => []StoresAgree
<1>1. IInv => StoresAgree
  BY DEF IInv
<1> QED
  BY <1>1, Safety, PTL

-----------------------------------------------------------------------------
(* A committed creation was carried out.  The invariant says it of every   *)
(* request read so far but the one in hand, which cannot be committed.     *)

Executed(n) ==
  requests[n].key = "create" /\ requests[n].form = "good" =>
    \E u \in DOMAIN owner : owner[u] = n /\ (u \in alarms \/ DeleteSent(u))

InHand(n) ==
  /\ n = position
  /\ \/ pc = "down"
     \/ pc \in {"create_action", "create_alarm"} /\ owner[uuid] = n

ReadExecuted ==
  faults["db"] = 0 => \A n \in 1..position : Executed(n) \/ InHand(n)

CommitInv == ReadExecuted /\ CommittedExecuted

\* What was carried out stays so.
LEMMA ExecutedStable ==
  ASSUME IInv, IInv', NEW n \in 1..Len(requests), Executed(n),
         \A i \in DOMAIN requests : i \in DOMAIN requests' /\ requests'[i] = requests[i],
         \A u \in DOMAIN owner : u \in DOMAIN owner' /\ owner'[u] = owner[u],
         \A u \in alarms \ alarms' : DeleteSent(u)
  PROVE  Executed(n)'
<1>1. \A u : DeleteSent(u) => DeleteSent(u)'
  BY DEF DeleteSent
<1>2. n \in DOMAIN requests
  BY DEF IInv, TypeInv, TypeOK
<1> QED
  BY <1>1, <1>2 DEF Executed

LEMMA StrikeGrows ==
  ASSUME TypeOK, NEW k \in FaultKind, Strike(k)
  PROVE  /\ faults'[k] # 0
         /\ \A l \in FaultKind : faults'[l] = 0 => faults[l] = 0
BY DEF TypeOK, Strike

\* No step rewrites the topic or the history of the identifiers, and an alarm is
\* only ever removed by a deletion somebody sent.
LEMMA HistoryStable ==
  ASSUME IInv, [Next]_vars
  PROVE  /\ \A i \in DOMAIN requests : i \in DOMAIN requests' /\ requests'[i] = requests[i]
         /\ \A u \in DOMAIN owner : u \in DOMAIN owner' /\ owner'[u] = owner[u]
         /\ \A u \in alarms \ alarms' : DeleteSent(u)
         /\ faults'["db"] = 0 => faults["db"] = 0
<1>0. TypeOK
  BY DEF IInv, TypeInv
<1>1. \A i \in DOMAIN requests : i \in DOMAIN requests' /\ requests'[i] = requests[i]
  <2>1. \/ UNCHANGED requests
        \/ \E r \in Request : requests' = Append(requests, r)
    BY DEF Next, Handle, Send, Commit, Start, LoseSubscription, Resubscribe, Crash,
       ReadCreate, ReadIncompleteCreate, ReadDelete, ReadIgnored, Read, CreateAction,
       CreateAlarm, DeleteAction, DeleteAlarm, Publish, vars
  <2>2. ASSUME NEW r \in Request, requests' = Append(requests, r)
        PROVE  \A i \in DOMAIN requests : i \in DOMAIN requests' /\ requests'[i] = requests[i]
    BY <1>0, <2>2, AppendFacts DEF TypeOK
  <2> QED
    BY <2>1, <2>2
<1>2. \A u \in DOMAIN owner : u \in DOMAIN owner' /\ owner'[u] = owner[u]
  <2>1. UNCHANGED owner \/ owner' = Append(owner, position + 1)
    BY DEF Next, Handle, Send, Commit, Start, LoseSubscription, Resubscribe,
       Crash, ReadCreate, ReadIncompleteCreate, ReadDelete, ReadIgnored, Read,
       CreateAction, CreateAlarm, DeleteAction, DeleteAlarm, Publish, vars
  <2>2. position + 1 \in Nat /\ owner \in Seq(Nat)
    BY <1>0 DEF TypeOK
  <2>3. ASSUME owner' = Append(owner, position + 1)
        PROVE  \A u \in DOMAIN owner : u \in DOMAIN owner' /\ owner'[u] = owner[u]
    BY <2>2, <2>3, AppendFacts
  <2> QED
    BY <2>1, <2>3
<1>3. \A u \in alarms \ alarms' : DeleteSent(u)
  <2>1. \/ alarms \subseteq alarms'
        \/ pc = "delete_alarm" /\ alarms' \in {alarms, alarms \ {uuid}}
    BY DEF Next, Handle, Send, Commit, Start, LoseSubscription, Resubscribe, Crash,
       ReadCreate, ReadIncompleteCreate, ReadDelete, ReadIgnored, Read, CreateAction,
       CreateAlarm, DeleteAction, DeleteAlarm, Publish, vars, store
  <2> QED
    BY <2>1 DEF IInv, Deleting
<1>4. faults'["db"] = 0 => faults["db"] = 0
  <2>1. UNCHANGED faults \/ \E k \in FaultKind : Strike(k)
    BY DEF Next, Handle, Send, Commit, Start, LoseSubscription, Resubscribe, Crash,
       ReadCreate, ReadIncompleteCreate, ReadDelete, ReadIgnored, Read, CreateAction,
       CreateAlarm, DeleteAction, DeleteAlarm, Publish, vars, FaultKind
  <2> QED
    BY <1>0, <2>1, StrikeGrows DEF FaultKind
<1> QED
  BY <1>1, <1>2, <1>3, <1>4

LEMMA CommitStep ==
  ASSUME IInv, IInv', CommitInv, [Next]_vars
  PROVE  CommitInv'
<1>0. TypeInv /\ TypeInv'
  BY DEF IInv
<1>1. \A n \in 1..Len(requests) : Executed(n) => Executed(n)'
  BY HistoryStable, ExecutedStable
<1>2. faults'["db"] = 0 => faults["db"] = 0
  BY HistoryStable
<1>3. CommittedExecuted'
  <2>1. CASE Commit
    <3>1. pc \in {"idle", "publish"} /\ committed' = position
      BY <2>1 DEF Commit
    <3>2. \A n : ~InHand(n)
      BY <3>1 DEF InHand
    <3>3. \A n \in 1..position : n \in 1..Len(requests)
      BY <1>0 DEF TypeInv, TypeOK
    <3>4. faults'["db"] = 0 => \A n \in 1..committed' : Executed(n)'
      BY <1>1, <1>2, <3>1, <3>2, <3>3 DEF CommitInv, ReadExecuted
    <3> QED
      BY <3>4 DEF CommittedExecuted, Executed
  <2>2. CASE ~Commit
    <3>1. UNCHANGED committed
      BY <2>2 DEF Next, Handle, Send, Start, LoseSubscription, Resubscribe, Crash,
         ReadCreate, ReadIncompleteCreate, ReadDelete, ReadIgnored, Read, CreateAction,
         CreateAlarm, DeleteAction, DeleteAlarm, Publish, vars, consumer
    <3>2. \A n \in 1..committed : n \in 1..Len(requests)
      BY <1>0 DEF TypeInv, TypeOK
    <3>3. faults["db"] = 0 => \A n \in 1..committed : Executed(n)
      BY DEF CommitInv, CommittedExecuted, Executed
    <3>4. faults'["db"] = 0 => \A n \in 1..committed' : Executed(n)'
      BY <1>1, <1>2, <3>1, <3>2, <3>3
    <3> QED
      BY <3>4 DEF CommittedExecuted, Executed
  <2> QED
    BY <2>1, <2>2
<1>4. ReadExecuted'
  <2> SUFFICES ASSUME faults'["db"] = 0, NEW n \in 1..position'
               PROVE  Executed(n)' \/ InHand(n)'
    BY DEF ReadExecuted
  <2>1. \A m \in 1..position : m \in 1..Len(requests) /\ (Executed(m) \/ InHand(m))
    BY <1>0, <1>2 DEF TypeInv, TypeOK, CommitInv, ReadExecuted
  <2>2. \A m \in 1..committed : Executed(m)'
    <3>1. \A m \in 1..committed : m \in 1..Len(requests) /\ Executed(m)
      BY <1>0, <1>2, SMTT(30) DEF TypeInv, TypeOK, CommitInv, CommittedExecuted, Executed
    <3> QED
      BY <1>1, <3>1
  <2>3. CASE Start \/ Resubscribe
    <3>1. position' = committed \/ (pc = "down" /\ pc' = "down" /\ UNCHANGED position)
      BY <2>3 DEF Start, Resubscribe
    <3> QED
      BY <1>1, <2>1, <2>2, <3>1 DEF InHand
  <2>4. CASE Send \/ Commit \/ LoseSubscription \/ Publish \/ DeleteAction \/ DeleteAlarm
    <3>1. UNCHANGED position
      BY <2>4 DEF Send, Commit, LoseSubscription, Publish, DeleteAction, DeleteAlarm, consumer
    <3>2. InHand(n) => Send /\ UNCHANGED <<pc, uuid>> /\ pc # "idle"
      BY <2>4 DEF Send, Commit, LoseSubscription, Publish, DeleteAction, DeleteAlarm,
         InHand, handler
    <3>3. InHand(n) => InHand(n)'
      <4>1. pc \in {"create_action", "create_alarm"} => uuid \in DOMAIN owner
        BY DEF IInv, Creating
      <4> QED
        BY <3>1, <3>2, <4>1, HistoryStable DEF InHand
    <3> QED
      BY <1>1, <2>1, <3>1, <3>3
  <2>5. CASE Crash
    BY <1>1, <2>1, <2>5 DEF Crash, consumer, InHand
  <2>6. CASE ReadCreate
    <3>1. position' = position + 1 /\ pc' = "create_action" /\ \A m : ~InHand(m)
      BY <2>6 DEF ReadCreate, Read, InHand
    <3>2. owner'[uuid'] = position + 1
      BY <1>0, <2>6, AppendFacts DEF ReadCreate, Read, FreshUuid, TypeInv, TypeOK
    <3>3. n \in 1..position \/ n = position'
      BY <1>0, <3>1 DEF TypeInv, TypeOK
    <3> QED
      BY <1>1, <2>1, <3>1, <3>2, <3>3 DEF InHand
  <2>7. CASE ReadIncompleteCreate \/ ReadDelete \/ ReadIgnored
    <3>1. /\ position' = position + 1
          /\ UNCHANGED requests
          /\ \A m : ~InHand(m)
      BY <2>7 DEF ReadIncompleteCreate, ReadDelete, ReadIgnored, Read, InHand
    <3>2. ~(requests[position + 1].key = "create" /\ requests[position + 1].form = "good")
      BY <2>7 DEF ReadIncompleteCreate, ReadDelete, ReadIgnored, NextRequest
    <3>3. n \in 1..position \/ n = position + 1
      BY <1>0, <3>1 DEF TypeInv, TypeOK
    <3>4. n = position + 1 => Executed(n)'
      BY <3>1, <3>2 DEF Executed
    <3> QED
      BY <1>1, <2>1, <3>1, <3>3, <3>4
  <2>8. CASE CreateAction
    <3>1. UNCHANGED <<position, uuid, owner>> /\ pc = "create_action"
      BY <2>8 DEF CreateAction, consumer
    <3>2. ~Strike("db")
      BY <1>0, StrikeGrows DEF TypeInv, FaultKind
    <3>3. pc' = "create_alarm"
      BY <2>8, <3>2 DEF CreateAction
    <3> QED
      BY <1>1, <2>1, <3>1, <3>3 DEF InHand
  <2>9. CASE CreateAlarm
    <3>1. UNCHANGED <<position, uuid, owner>> /\ pc = "create_alarm"
      BY <2>9 DEF CreateAlarm, consumer
    <3>2. ~Strike("db")
      BY <1>0, StrikeGrows DEF TypeInv, FaultKind
    <3>3. alarms' = alarms \cup {uuid}
      BY <2>9, <3>2 DEF CreateAlarm
    <3>4. InHand(n) => Executed(n)'
      BY <3>1, <3>3 DEF InHand, Executed, IInv, Creating
    <3> QED
      BY <1>1, <2>1, <3>1, <3>4
  <2>10. CASE UNCHANGED vars
    <3>1. InHand(n) => InHand(n)'
      BY <2>10 DEF vars, consumer, handler, InHand
    <3>2. UNCHANGED position
      BY <2>10 DEF vars, consumer
    <3> QED
      BY <1>1, <2>1, <3>1, <3>2
  <2> QED
    BY <2>3, <2>4, <2>5, <2>6, <2>7, <2>8, <2>9, <2>10 DEF Next, Handle
<1> QED
  BY <1>3, <1>4 DEF CommitInv

\* A request that is not going to be delivered again has been carried out: with a
\* database that does not fail, no creation is lost between Kafka and the store.
THEOREM NoCreationLost == Spec => []CommittedExecuted
<1>1. Init => CommitInv
  BY DEF Init, CommitInv, ReadExecuted, CommittedExecuted
<1>2. IInv /\ IInv' /\ CommitInv /\ [Next]_vars => CommitInv'
  BY CommitStep
<1>3. CommitInv => CommittedExecuted
  BY DEF CommitInv
<1> QED
  BY <1>1, <1>2, <1>3, Safety, PTL DEF Spec

-----------------------------------------------------------------------------
(* The server implements the atomic store.  The mapping needs, besides     *)
(* IInv, that a response is about a request of the topic.                  *)

Correlated ==
  /\ Len(requests) <= MaxRequests
  /\ pc \in {"create_action", "create_alarm", "delete_action", "delete_alarm"} => position # 0
  /\ pc = "publish" => response.req \in 1..Len(requests)

LEMMA CorrelatedStep ==
  ASSUME TypeInv, Correlated, [Next]_vars
  PROVE  Correlated'
<1> USE DEF TypeInv, TypeOK, Correlated
<1>1. CASE Send
  BY <1>1, AppendFacts DEF Send, consumer, handler
<1>2. CASE Commit \/ Start \/ LoseSubscription \/ Resubscribe \/ Crash
  BY <1>2 DEF Commit, Start, LoseSubscription, Resubscribe, Crash, consumer, handler
<1>3. CASE ReadCreate \/ ReadIncompleteCreate \/ ReadDelete \/ ReadIgnored
  BY <1>3 DEF ReadCreate, ReadIncompleteCreate, ReadDelete, ReadIgnored, Read, Respond, handler
<1>4. CASE CreateAction \/ CreateAlarm \/ DeleteAction \/ DeleteAlarm
  <2>1. UNCHANGED <<requests, position>> /\ position # 0
    BY <1>4 DEF CreateAction, CreateAlarm, DeleteAction, DeleteAlarm, consumer
  <2>2. \/ pc' \in {"create_alarm", "delete_alarm"}
        \/ pc' = "publish" /\ response'.req = position
    BY <1>4 DEF CreateAction, CreateAlarm, DeleteAction, DeleteAlarm, Refuse, Respond
  <2> QED
    BY <2>1, <2>2
<1>5. CASE Publish
  BY <1>5 DEF Publish, consumer
<1>6. CASE UNCHANGED vars
  BY <1>6 DEF vars, consumer, handler
<1> QED
  BY <1>1, <1>2, <1>3, <1>4, <1>5, <1>6 DEF Next, Handle

\* The identifiers the mapping counts as spent.
Retired ==
  {u \in DOMAIN owner :
     u \notin alarms /\ ~(pc \in {"create_action", "create_alarm"} /\ uuid = u)}

LEMMA RefinementStep ==
  ASSUME IInv, IInv', Correlated, [Next]_vars
  PROVE  Abstract!Next \/ UNCHANGED <<alarms, Retired, replies>>
<1>0. /\ DOMAIN owner \subseteq Uuid
      /\ alarms \subseteq DOMAIN owner
      /\ TypeOK
  BY SMTT(30) DEF IInv, TypeInv, TypeOK, Uuid, OnlyDrawnUuids
<1>1. CASE Send \/ Commit \/ Start \/ LoseSubscription \/ Resubscribe \/ UNCHANGED vars
  <2>1. UNCHANGED <<alarms, owner, replies, uuid>>
    BY <1>1 DEF Send, Commit, Start, LoseSubscription, Resubscribe, vars, store, handler
  <2>2. pc' = pc \/ {pc, pc'} \subseteq {"down", "idle", "retry"}
    BY <1>1 DEF Send, Commit, Start, LoseSubscription, Resubscribe, vars, handler
  <2> QED
    BY <2>1, <2>2 DEF Retired
<1>2. CASE ReadIncompleteCreate \/ ReadDelete \/ ReadIgnored
  <2>1. UNCHANGED <<alarms, owner, replies>> /\ pc = "idle"
    BY <1>2 DEF ReadIncompleteCreate, ReadDelete, ReadIgnored, Read, store
  <2>2. pc' \notin {"create_action", "create_alarm"}
    BY <1>2, <2>1 DEF ReadIncompleteCreate, ReadDelete, ReadIgnored, Respond, handler
  <2> QED
    BY <2>1, <2>2 DEF Retired
<1>3. CASE ReadCreate
  <2>1. /\ DOMAIN owner' = DOMAIN owner \cup {uuid'}
        /\ uuid' \notin DOMAIN owner
    BY <1>0, <1>3, AppendFacts DEF ReadCreate, Read, FreshUuid, TypeOK
  <2>2. UNCHANGED <<alarms, replies>> /\ pc = "idle" /\ pc' = "create_action"
    BY <1>3 DEF ReadCreate, Read, store
  <2> QED
    BY <2>1, <2>2 DEF Retired
<1>4. CASE Crash \/ CreateAction
  <2>1. UNCHANGED <<alarms, owner, replies>>
    BY <1>4 DEF Crash, CreateAction, store
  <2>2. \/ pc' = "create_alarm" /\ pc = "create_action" /\ uuid' = uuid
        \/ pc' \notin {"create_action", "create_alarm"}
    BY <1>4 DEF Crash, CreateAction, Refuse, Respond
  <2>3. CASE pc \in {"create_action", "create_alarm"} /\ pc' \notin {"create_action", "create_alarm"}
    <3>1. uuid \in DOMAIN owner /\ uuid \notin alarms
      BY <2>3 DEF IInv, Creating, Unnamed
    <3>2. Retired' = Retired \cup {uuid}
      BY <2>1, <2>3, <3>1 DEF Retired
    <3>3. \E u \in Uuid : Abstract!Abandon(u)
      BY <1>0, <2>1, <3>1, <3>2 DEF Abstract!Abandon, Retired
    <3> QED
      BY <3>3 DEF Abstract!Next
  <2>4. CASE ~(pc \in {"create_action", "create_alarm"} /\ pc' \notin {"create_action", "create_alarm"})
    BY <2>1, <2>2, <2>4 DEF Retired
  <2> QED
    BY <2>3, <2>4
<1>5. CASE CreateAlarm
  <2>1. /\ UNCHANGED <<owner, replies, uuid>>
        /\ pc = "create_alarm"
        /\ pc' = "publish"
        /\ alarms' \in {alarms, alarms \cup {uuid}}
    BY <1>5 DEF CreateAlarm, Refuse, Respond
  <2>2. uuid \in DOMAIN owner /\ uuid \notin alarms
    BY <2>1 DEF IInv, Creating, Unnamed
  <2>3. CASE alarms' = alarms
    <3>1. Retired' = Retired \cup {uuid}
      BY <2>1, <2>2, <2>3 DEF Retired
    <3>2. \E u \in Uuid : Abstract!Abandon(u)
      BY <1>0, <2>1, <2>2, <2>3, <3>1 DEF Abstract!Abandon, Retired
    <3> QED
      BY <3>2 DEF Abstract!Next
  <2>4. CASE alarms' = alarms \cup {uuid}
    <3>1. Retired' = Retired
      BY <2>1, <2>2, <2>4 DEF Retired
    <3>2. uuid \notin alarms \cup Retired
      BY <2>1, <2>2 DEF Retired
    <3>3. \E u \in Uuid : Abstract!Create(u)
      BY <1>0, <2>1, <2>2, <2>4, <3>1, <3>2 DEF Abstract!Create, Retired
    <3> QED
      BY <3>3 DEF Abstract!Next
  <2> QED
    BY <2>1, <2>3, <2>4
<1>6. CASE DeleteAction
  <2>1. UNCHANGED <<alarms, owner, replies, uuid>>
    BY <1>6 DEF DeleteAction
  <2>2. {pc, pc'} \subseteq {"delete_action", "delete_alarm", "publish"}
    BY <1>6 DEF DeleteAction, Refuse, Respond
  <2> QED
    BY <2>1, <2>2 DEF Retired
<1>7. CASE DeleteAlarm
  <2>1. /\ UNCHANGED <<owner, replies, uuid>>
        /\ pc = "delete_alarm"
        /\ pc' = "publish"
        /\ alarms' \in {alarms, alarms \ {uuid}}
    BY <1>7 DEF DeleteAlarm, Refuse, Respond
  <2>2. CASE alarms' = alarms
    BY <2>1, <2>2 DEF Retired
  <2>3. CASE alarms' = alarms \ {uuid} /\ uuid \in alarms
    <3>1. Retired' = Retired \cup {uuid}
      BY <1>0, <2>1, <2>3 DEF Retired
    <3>2. \E u \in Uuid : Abstract!Delete(u)
      BY <1>0, <2>1, <2>3, <3>1 DEF Abstract!Delete, Retired
    <3> QED
      BY <3>2 DEF Abstract!Next
  <2> QED
    BY <2>1, <2>2, <2>3
<1>8. CASE Publish
  <2>1. /\ UNCHANGED <<alarms, owner>>
        /\ pc = "publish"
        /\ pc' = "idle"
        /\ replies' \in {replies, Append(replies, response)}
    BY <1>8 DEF Publish, store
  <2>2. Retired' = Retired
    BY <2>1 DEF Retired
  <2>3. CASE replies' = Append(replies, response)
    <3> DEFINE a == [req |-> response.req, key |-> response.key,
                     status |-> response.status, uuid |-> response.uuid]
    <3>1. /\ response = a
          /\ response.req \in 1..MaxRequests
          /\ response.key \in {"create", "delete"}
          /\ response.status \in BOOLEAN
          /\ response.uuid \in Uuid \cup {NoUuid}
      BY <1>0, <2>1 DEF TypeOK, Reply, MaybeUuid, Correlated
    <3>2. response.status =>
            IF response.key = "create" THEN response.uuid \in alarms
                                       ELSE response.uuid \in Retired
      BY <2>1 DEF IInv, Pending, Retired
    <3>3. Abstract!Answer(response)
      BY <2>1, <2>2, <2>3, <3>2 DEF Abstract!Answer, Abstract!Truthful, Retired
    <3>4. Abstract!Answer(a)
      BY <3>1, <3>3
    <3> QED
      BY <3>1, <3>4 DEF Abstract!Next
  <2> QED
    BY <2>1, <2>2, <2>3
<1> QED
  BY <1>1, <1>2, <1>3, <1>4, <1>5, <1>6, <1>7, <1>8 DEF Next, Handle

\* MON Server implements AlarmStore: whatever is redelivered, lost or fails, its
\* clients see an atomic store that answers truthfully.
THEOREM ServerImplementsStore == Spec => AbstractSpec
<1>1. Init => Abstract!Init
  BY DEF Init, Abstract!Init
<1>2. Init => Correlated
  BY DEF Init, Correlated
<1>3. TypeInv /\ Correlated /\ [Next]_vars => Correlated'
  BY CorrelatedStep
<1>4. IInv => TypeInv
  BY DEF IInv
<1>5. IInv /\ IInv' /\ Correlated /\ [Next]_vars => [Abstract!Next]_(Abstract!avars)
  BY RefinementStep DEF Abstract!avars, Retired
<1> QED
  BY <1>1, <1>2, <1>3, <1>4, <1>5, Safety, PTL DEF Spec, AbstractSpec, Abstract!Spec

=============================================================================

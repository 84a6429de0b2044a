---------------------------- MODULE AlarmServer ----------------------------
(***************************************************************************)
(* MON Server: the consumer of topic "alarm_request" that creates and      *)
(* deletes alarms (osm_mon/server/server.py, osm_mon/server/service.py,    *)
(* and the alarm operations of osm_mon/core/common_db.py).                 *)
(*                                                                         *)
(* A request is handled by one coroutine, one request at a time.  Creating *)
(* an alarm writes two collections, "alarms_action" and then "alarms";     *)
(* deleting removes from the two in the same order.  Nothing makes the two *)
(* writes atomic: a call of the database can raise between them and the    *)
(* process can die between them.  The answer goes to a topic of its own,   *)
(* which may fail too.  Kafka keeps the requests; its offset is committed  *)
(* in the background, so a restarted server may read a request again.      *)
(*                                                                         *)
(* The position of a request in the topic stands for its correlation_id,   *)
(* and uuid4 is a counter: the identifiers it draws are 1, 2, 3, ...       *)
(***************************************************************************)
EXTENDS Naturals, Sequences, FiniteSets

CONSTANTS
  MaxRequests,   \* bound: requests the clients send
  MaxUuids,      \* bound: identifiers drawn
  MaxFaults,     \* bound: how often each kind of fault strikes
  Together       \* bound: the sets of kinds of which all may strike in one behaviour

FaultKind == {"db", "bus", "crash", "subscription"}

ASSUME BoundsAssumption == /\ MaxRequests \in Nat
                           /\ MaxUuids \in Nat
                           /\ MaxFaults \in [FaultKind -> Nat]
ASSUME TogetherAssumption == Together \subseteq SUBSET FaultKind

VARIABLES
  requests,      \* topic alarm_request, oldest first
  committed,     \* how many of them the consumer group has committed
  position,      \* how many of them this consumer has read
  pc,            \* where the handler is
  uuid,          \* alarm_uuid, or alarm.uuid of the alarm being created
  response,      \* the response built by the handler
  alarms,        \* collection "alarms"
  alarmsAction,  \* collection "alarms_action"
  exporterJobs,  \* how many mon_exporter documents "prometheus_jobs" holds
  replies,       \* what was published on the response topics, oldest first
  owner,         \* history: the request each uuid was drawn for
  faults         \* history: how often each kind of fault has struck

consumer == <<committed, position>>
store == <<alarms, alarmsAction, exporterJobs>>
handler == <<pc, uuid, response>>
vars == <<requests, consumer, handler, store, replies, owner, faults>>

Uuid == 1..MaxUuids

\* Python's None, and an identifier no alarm has.
NoUuid == 0

MaybeUuid == Uuid \cup {NoUuid}

(***************************************************************************)
(* A request is well formed, or lacks a field that is only read inside the *)
(* inner try ("incomplete"), or lacks the details, the correlation_id or   *)
(* the alarm_uuid, all read outside of it ("broken").  "other" stands for  *)
(* every key the server does not know.                                     *)
(***************************************************************************)
Request ==
  [key : {"create"}, form : {"good", "incomplete", "broken"}, uuid : {NoUuid}]
    \cup [key : {"delete"}, form : {"good", "broken"}, uuid : MaybeUuid]
    \cup [key : {"other"}, form : {"good"}, uuid : {NoUuid}]

Reply == [req : Nat, key : {"create", "delete"}, status : BOOLEAN, uuid : MaybeUuid]

PC == {"down", "retry", "idle", "create_action", "create_alarm",
       "delete_action", "delete_alarm", "publish"}

NoReply == [req |-> 0, key |-> "create", status |-> FALSE, uuid |-> NoUuid]

TypeOK ==
  /\ requests \in Seq(Request)
  /\ committed \in 0..Len(requests)
  /\ position \in 0..Len(requests)
  /\ pc \in PC
  /\ uuid \in MaybeUuid
  /\ response \in Reply
  /\ alarms \subseteq Uuid
  /\ alarmsAction \subseteq Uuid
  /\ exporterJobs \in {0, 1}
  /\ replies \in Seq(Reply)
  /\ owner \in Seq(Nat)
  /\ Len(owner) <= MaxUuids
  /\ faults \in [FaultKind -> Nat]

Init ==
  /\ requests = <<>>
  /\ committed = 0
  /\ position = 0
  /\ pc = "down"
  /\ uuid = NoUuid
  /\ response = NoReply
  /\ alarms = {}
  /\ alarmsAction = {}
  /\ exporterJobs = 0
  /\ replies = <<>>
  /\ owner = <<>>
  /\ faults = [k \in FaultKind |-> 0]

Strike(kind) ==
  /\ faults[kind] < MaxFaults[kind]
  /\ \E kinds \in Together :
       {k \in FaultKind : faults[k] > 0} \cup {kind} \subseteq kinds
  /\ faults' = [faults EXCEPT ![kind] = @ + 1]

-----------------------------------------------------------------------------
(* The clients and Kafka.  An operator marked "Mutant" is a slip the code  *)
(* could have made at the operator that follows it; no behaviour uses it.  *)

\* What a client can name: an alarm it read in the database, one a response
\* told it about, or one that does not exist.
Known == alarms \cup {replies[i].uuid : i \in DOMAIN replies} \cup {NoUuid}

Send ==
  /\ Len(requests) < MaxRequests
  /\ \E r \in Request :
       /\ r.uuid \in Known
       /\ requests' = Append(requests, r)
  /\ UNCHANGED <<consumer, handler, store, replies, owner, faults>>

\* Mutant: the database is awaited, so a commit can fall between its calls.
CommitWhileWriting ==
  /\ committed < position
  /\ committed' = position
  /\ UNCHANGED <<requests, position, handler, store, replies, owner, faults>>

\* The consumer commits its position in the background of the event loop:
\* it runs while the handler waits for a message or for the bus, never while
\* a synchronous call of the database is under way.
Commit ==
  /\ pc \in {"idle", "publish"}
  /\ committed < position
  /\ committed' = position
  /\ UNCHANGED <<requests, position, handler, store, replies, owner, faults>>

-----------------------------------------------------------------------------
(* Start, subscription and crash                                           *)

\* Mutant: the exporter's job is created instead of upserted.
StartCreatingJob ==
  /\ pc = "down"
  /\ pc' = "idle"
  /\ exporterJobs' = exporterJobs + 1
  /\ position' = committed
  /\ UNCHANGED <<requests, committed, uuid, response, alarms, alarmsAction,
                 replies, owner, faults>>

\* Server.__init__ and run: the exporter's job is an upsert, and the consumer
\* starts from what its group has committed.  Nothing catches an exception of
\* populate_prometheus: the process dies before it reads a request.
Start ==
  /\ pc = "down"
  /\ \/ /\ exporterJobs' = 1
        /\ pc' = "idle"
        /\ position' = committed
        /\ UNCHANGED faults
     \/ /\ Strike("db")
        /\ exporterJobs' \in {exporterJobs, 1}
        /\ UNCHANGED <<pc, position>>
  /\ UNCHANGED <<requests, committed, uuid, response, alarms, alarmsAction,
                 replies, owner>>

\* aioread raises while it waits for a message ...
LoseSubscription ==
  /\ pc = "idle"
  /\ Strike("subscription")
  /\ pc' = "retry"
  /\ UNCHANGED <<requests, consumer, uuid, response, store, replies, owner>>

\* ... and is called again after wait_time, with a new consumer.
Resubscribe ==
  /\ pc = "retry"
  /\ pc' = "idle"
  /\ position' = committed
  /\ UNCHANGED <<requests, committed, uuid, response, store, replies, owner, faults>>

Crash ==
  /\ pc # "down"
  /\ Strike("crash")
  /\ pc' = "down"
  /\ uuid' = NoUuid
  /\ response' = NoReply
  /\ UNCHANGED <<requests, consumer, store, replies, owner>>

-----------------------------------------------------------------------------
(* Reading a request                                                       *)

NextRequest == requests[position + 1]

Read ==
  /\ pc = "idle"
  /\ position < Len(requests)
  /\ position' = position + 1
  /\ UNCHANGED <<requests, committed, store, replies, faults>>

\* The response the handler will publish next.
Respond(req, key, status, u) ==
  /\ pc' = "publish"
  /\ response' = [req |-> req, key |-> key, status |-> status, uuid |-> u]

\* create_alarm builds an Alarm, and with it a fresh uuid.
FreshUuid == Len(owner) + 1

ReadCreate ==
  /\ Read
  /\ NextRequest.key = "create"
  /\ NextRequest.form = "good"
  /\ FreshUuid <= MaxUuids
  /\ uuid' = FreshUuid
  /\ owner' = Append(owner, position + 1)
  /\ pc' = "create_action"
  /\ UNCHANGED response

\* Mutant: without the inner except the outer one swallows the request.
ReadIncompleteUnanswered ==
  /\ Read
  /\ NextRequest.key = "create"
  /\ NextRequest.form = "incomplete"
  /\ UNCHANGED <<handler, owner>>

ReadIncompleteCreate ==
  /\ Read
  /\ NextRequest.key = "create"
  /\ NextRequest.form = "incomplete"
  /\ Respond(position + 1, "create", FALSE, NoUuid)
  /\ UNCHANGED <<uuid, owner>>

ReadDelete ==
  /\ Read
  /\ NextRequest.key = "delete"
  /\ NextRequest.form = "good"
  /\ uuid' = NextRequest.uuid
  /\ pc' = "delete_action"
  /\ UNCHANGED <<response, owner>>

\* A broken request ends in the outer except, an unknown key in no branch.
ReadIgnored ==
  /\ Read
  /\ NextRequest.key = "other" \/ NextRequest.form = "broken"
  /\ UNCHANGED <<handler, owner>>

-----------------------------------------------------------------------------
(* The calls of the database.  One that raises may have taken effect.      *)

\* The inner except: the negative response names no alarm for a create, and
\* the alarm of the request for a delete.
Refuse(key) ==
  Respond(position, key, FALSE, IF key = "create" THEN NoUuid ELSE uuid)

\* Mutant: a failure to store the action is ignored.
CreateActionIgnoringFailure ==
  /\ pc = "create_action"
  /\ \/ /\ alarmsAction' = alarmsAction \cup {uuid}
        /\ UNCHANGED faults
     \/ /\ Strike("db")
        /\ UNCHANGED alarmsAction
  /\ pc' = "create_alarm"
  /\ UNCHANGED <<requests, consumer, uuid, response, alarms, exporterJobs, replies, owner>>

CreateAction ==
  /\ pc = "create_action"
  /\ \/ /\ alarmsAction' = alarmsAction \cup {uuid}
        /\ pc' = "create_alarm"
        /\ UNCHANGED <<response, faults>>
     \/ /\ Strike("db")
        /\ alarmsAction' \in {alarmsAction, alarmsAction \cup {uuid}}
        /\ Refuse("create")
  /\ UNCHANGED <<requests, consumer, uuid, alarms, exporterJobs, replies, owner>>

\* Mutant: the response is positive whether or not the alarm was stored.
CreateAlarmUnchecked ==
  /\ pc = "create_alarm"
  /\ Respond(position, "create", TRUE, uuid)
  /\ \/ /\ alarms' = alarms \cup {uuid}
        /\ UNCHANGED faults
     \/ /\ Strike("db")
        /\ UNCHANGED alarms
  /\ UNCHANGED <<requests, consumer, uuid, alarmsAction, exporterJobs, replies, owner>>

\* Mutant: the response does not carry the alarm's uuid.
CreateAlarmUnnamed ==
  /\ pc = "create_alarm"
  /\ \/ /\ alarms' = alarms \cup {uuid}
        /\ Respond(position, "create", TRUE, NoUuid)
        /\ UNCHANGED faults
     \/ /\ Strike("db")
        /\ alarms' \in {alarms, alarms \cup {uuid}}
        /\ Refuse("create")
  /\ UNCHANGED <<requests, consumer, uuid, alarmsAction, exporterJobs, replies, owner>>

CreateAlarm ==
  /\ pc = "create_alarm"
  /\ \/ /\ alarms' = alarms \cup {uuid}
        /\ Respond(position, "create", TRUE, uuid)
        /\ UNCHANGED faults
     \/ /\ Strike("db")
        /\ alarms' \in {alarms, alarms \cup {uuid}}
        /\ Refuse("create")
  /\ UNCHANGED <<requests, consumer, uuid, alarmsAction, exporterJobs, replies, owner>>

\* Mutant: the alarm's own document is forgotten.
DeleteActionOnly ==
  /\ pc = "delete_action"
  /\ alarmsAction' = alarmsAction \ {uuid}
  /\ Respond(position, "delete", uuid \in alarmsAction, uuid)
  /\ UNCHANGED <<requests, consumer, uuid, alarms, exporterJobs, replies, owner, faults>>

\* Mutant: nobody catches what del_one raises, and the coroutine never returns.
DeleteActionUncaught ==
  /\ pc = "delete_action"
  /\ uuid \in alarmsAction
  /\ alarmsAction' = alarmsAction \ {uuid}
  /\ pc' = "delete_alarm"
  /\ UNCHANGED <<requests, consumer, uuid, response, alarms, exporterJobs, replies, owner, faults>>

\* del_one raises when it finds nothing to remove.
DeleteAction ==
  /\ pc = "delete_action"
  /\ \/ /\ uuid \in alarmsAction
        /\ alarmsAction' = alarmsAction \ {uuid}
        /\ pc' = "delete_alarm"
        /\ UNCHANGED <<response, faults>>
     \/ /\ uuid \notin alarmsAction
        /\ Refuse("delete")
        /\ UNCHANGED <<alarmsAction, faults>>
     \/ /\ Strike("db")
        /\ alarmsAction' \in {alarmsAction, alarmsAction \ {uuid}}
        /\ Refuse("delete")
  /\ UNCHANGED <<requests, consumer, uuid, alarms, exporterJobs, replies, owner>>

DeleteAlarm ==
  /\ pc = "delete_alarm"
  /\ \/ /\ uuid \in alarms
        /\ alarms' = alarms \ {uuid}
        /\ Respond(position, "delete", TRUE, uuid)
        /\ UNCHANGED faults
     \/ /\ uuid \notin alarms
        /\ Refuse("delete")
        /\ UNCHANGED <<alarms, faults>>
     \/ /\ Strike("db")
        /\ alarms' \in {alarms, alarms \ {uuid}}
        /\ Refuse("delete")
  /\ UNCHANGED <<requests, consumer, uuid, alarmsAction, exporterJobs, replies, owner>>

-----------------------------------------------------------------------------
\* Mutant: the response is sent again after an exception.
PublishRetrying ==
  /\ pc = "publish"
  /\ \/ /\ replies' = Append(replies, response)
        /\ pc' = "idle"
        /\ uuid' = NoUuid
        /\ response' = NoReply
        /\ UNCHANGED faults
     \/ /\ Strike("bus")
        /\ replies' \in {replies, Append(replies, response)}
        /\ UNCHANGED handler
  /\ UNCHANGED <<requests, consumer, store, owner>>

\* _publish_response; an exception of the bus ends in the outer except, and the
\* message may have been written all the same.
Publish ==
  /\ pc = "publish"
  /\ \/ /\ replies' = Append(replies, response)
        /\ UNCHANGED faults
     \/ /\ Strike("bus")
        /\ replies' \in {replies, Append(replies, response)}
  /\ pc' = "idle"
  /\ uuid' = NoUuid
  /\ response' = NoReply
  /\ UNCHANGED <<requests, consumer, store, owner>>

Handle ==
  \/ ReadCreate
  \/ ReadIncompleteCreate
  \/ ReadDelete
  \/ ReadIgnored
  \/ CreateAction
  \/ CreateAlarm
  \/ DeleteAction
  \/ DeleteAlarm
  \/ Publish

Next ==
  \/ Send
  \/ Commit
  \/ Start
  \/ LoseSubscription
  \/ Resubscribe
  \/ Crash
  \/ Handle

Spec == Init /\ [][Next]_vars

\* The event loop runs the handler whenever it can, start retries for ever, and
\* the container is started again when its process dies.
FairSpec ==
  /\ Spec
  /\ WF_vars(Handle)
  /\ WF_vars(Start)
  /\ WF_vars(Resubscribe)

-----------------------------------------------------------------------------
(* Properties                                                              *)

DeleteSent(u) == \E i \in DOMAIN requests :
  requests[i].key = "delete" /\ requests[i].form = "good" /\ requests[i].uuid = u

Acknowledged(u) == \E i \in DOMAIN replies :
  replies[i].key = "create" /\ replies[i].status /\ replies[i].uuid = u

\* A client told that its alarm exists can rely on it: the alarm and its action
\* stay stored until somebody asks for the alarm's deletion, whatever fails
\* (create_alarm writes both before the positive response is built).
AcknowledgedStored ==
  \A u \in Uuid : Acknowledged(u) => DeleteSent(u) \/ u \in alarms \cap alarmsAction

\* A client told that its alarm is deleted never sees it again: neither document
\* is left, and no later request or redelivery brings the uuid back.
DeletedForGood ==
  \A i \in DOMAIN replies :
    replies[i].key = "delete" /\ replies[i].status =>
      replies[i].uuid \notin alarms \cup alarmsAction

\* The two collections disagree only where a request was cut short: an alarm
\* loses its action only to a deletion, and an action without an alarm belongs
\* to an alarm no client was told of.
StoresAgree ==
  /\ \A u \in alarms \ alarmsAction : DeleteSent(u)
  /\ \A u \in alarmsAction \ alarms : ~Acknowledged(u)

Restarts == faults["crash"] + faults["subscription"]

Ghosts == {u \in alarms : ~Acknowledged(u) /\ ~(pc = "publish" /\ uuid = u)}

\* An alarm that is stored, and therefore evaluated, but that no response ever
\* named comes from a fault, and each fault leaves at most one (the inner except
\* answers alarm_id=None although the document may have been written).
GhostsBounded ==
  Cardinality(Ghosts) <= faults["db"] + faults["bus"] + faults["crash"]

\* A request read again after a restart creates another alarm and gets another
\* response, but a request is executed and answered at most once per start.
OncePerStart ==
  \A n \in 1..Len(requests) :
    /\ Cardinality({u \in DOMAIN owner : owner[u] = n}) <= 1 + Restarts
    /\ Cardinality({i \in DOMAIN replies : replies[i].req = n}) <= 1 + Restarts

\* Without a restart the responses leave in the order of the requests.
RepliesInOrder ==
  Restarts = 0 =>
    \A i, j \in DOMAIN replies : i < j => replies[i].req < replies[j].req

\* A committed request is not delivered again, so its work must be done: every
\* committed creation has stored its alarm unless the database failed.  It holds
\* because the handler does not yield to the event loop between reading a request
\* and its last call of the database.
CommittedExecuted ==
  faults["db"] = 0 =>
    \A n \in 1..committed :
      requests[n].key = "create" /\ requests[n].form = "good" =>
        \E u \in DOMAIN owner : owner[u] = n /\ (u \in alarms \/ DeleteSent(u))

\* docs/architecture.md says of a delete_alarm_request that the server performs
\* the corresponding action: with a database that never fails, the alarm of a
\* committed deletion is not stored any more.
DeletePerformed ==
  faults["db"] = 0 =>
    \A n \in 1..committed :
      requests[n].key = "delete" /\ requests[n].form = "good" =>
        requests[n].uuid \notin alarms

\* Every well-formed request is answered, also after failures of the database,
\* of the subscription; only a crash or a failing bus can lose the response.
Answered ==
  \A n \in 1..MaxRequests :
    (n <= Len(requests) /\ requests[n].form # "broken" /\ requests[n].key # "other")
      ~> \/ \E i \in DOMAIN replies : replies[i].req = n
         \/ faults["bus"] + faults["crash"] > 0

\* Whatever request is sent and whatever fails, the server gets through it and
\* waits for the next: no request wedges the consumer.
CatchesUp == <>[](pc = "idle" /\ position = Len(requests))

\* The documents of "alarms" behave like an atomic store whose answers are true.
Abstract == INSTANCE AlarmStore WITH
  CorrelationId <- 1..MaxRequests,
  stored <- alarms,
  retired <- {u \in DOMAIN owner :
                u \notin alarms
                  /\ ~(pc \in {"create_action", "create_alarm"} /\ uuid = u)},
  answers <- replies

AbstractSpec == Abstract!Spec

=============================================================================

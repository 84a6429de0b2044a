----------------------------- MODULE Evaluator -----------------------------
(***************************************************************************)
(* MON Evaluator: the loop that evaluates every stored alarm against the   *)
(* TSDB, notifies the outcome on the bus and stores it as the status of    *)
(* the alarm (osm_mon/evaluator/evaluator.py and service.py).              *)
(*                                                                         *)
(* One evaluation of one alarm is a job that lives in two processes: a     *)
(* worker queries the metric and puts a verdict on a queue, the loop takes *)
(* the queue and forks a notifier that publishes the verdict and then      *)
(* updates the alarm.  The loop joins its processes for ten seconds each   *)
(* and goes on: a late worker or notifier stays alive next to those of     *)
(* the following passes.  Meanwhile MON Server and the operators create,   *)
(* delete, disable and enable alarms in the same collection.               *)
(***************************************************************************)
EXTENDS Naturals, FiniteSets

CONSTANTS
  Alarm,       \* the alarms that will ever be created
  Operation,   \* the operation of each: "gt", "lt" or anything else
  Unreadable,  \* alarms stored with a threshold float() rejects
  Slot,        \* bound: jobs of one alarm that are alive together
  MaxFaults,   \* bound: how often each kind of fault strikes
  Together     \* bound: the sets of kinds of which all may strike in one behaviour

FaultKind == {"query", "db", "bus", "fork", "timeout", "crash"}

ASSUME OperationAssumption == Operation \in [Alarm -> {"gt", "lt", "other"}]
ASSUME UnreadableAssumption == Unreadable \subseteq Alarm
ASSUME FaultsAssumption == MaxFaults \in [FaultKind -> Nat]
ASSUME TogetherAssumption == Together \subseteq SUBSET FaultKind

VARIABLES
  alarms,         \* collection "alarms": the status of each alarm
  metric,         \* where the TSDB has the metric of each alarm
  pc,             \* where the loop is
  job,            \* the live evaluations
  published,      \* history: every status notified for each alarm
  lastPublished,  \* history: the latest of them
  late,           \* history: how often each was notified since it was disabled
  toggled,        \* history: the alarms an operator has ever disabled
  faults          \* history: how often each kind of fault has struck

bus == <<published, lastPublished, late>>
vars == <<alarms, metric, pc, job, bus, toggled, faults>>

Verdict == {"alarm", "ok", "insufficient-data"}
AlarmStatus == Verdict \cup {"disabled"}

\* "none": not created yet.  "gone": deleted, and its uuid never drawn again.
Stored == {a \in Alarm : alarms[a] \in AlarmStatus}

\* The value of the metric against the threshold, or no value at all.
Reading == {"above", "at", "below", "none"}

\* query, put: in the worker.  queued: in the queue, its worker gone.
\* publish, read, write: in the notifier.
Stage == {"free", "query", "put", "queued", "publish", "read", "write"}

JobId == Alarm \X Slot

Job == [stage : Stage, muted : BOOLEAN, verdict : Verdict, awaited : BOOLEAN]

Free == [stage |-> "free", muted |-> FALSE, verdict |-> "ok", awaited |-> FALSE]

TypeOK ==
  /\ alarms \in [Alarm -> AlarmStatus \cup {"none", "gone"}]
  /\ metric \in [Alarm -> Reading]
  /\ pc \in {"start", "join_workers", "drain", "join_notifiers"}
  /\ job \in [JobId -> Job]
  /\ published \in [Alarm -> SUBSET Verdict]
  /\ lastPublished \in [Alarm -> Verdict \cup {"none"}]
  /\ late \in [Alarm -> Nat]
  /\ toggled \subseteq Alarm
  /\ faults \in [FaultKind -> Nat]

Init ==
  /\ alarms = [a \in Alarm |-> "none"]
  /\ metric \in [Alarm -> Reading]
  /\ pc = "start"
  /\ job = [j \in JobId |-> Free]
  /\ published = [a \in Alarm |-> {}]
  /\ lastPublished = [a \in Alarm |-> "none"]
  /\ late = [a \in Alarm |-> 0]
  /\ toggled = {}
  /\ faults = [k \in FaultKind |-> 0]

Strike(kind) ==
  /\ faults[kind] < MaxFaults[kind]
  /\ \E kinds \in Together :
       {k \in FaultKind : faults[k] > 0} \cup {kind} \subseteq kinds
  /\ faults' = [faults EXCEPT ![kind] = @ + 1]

-----------------------------------------------------------------------------
(* The environment: MON Server, the operators and the TSDB.  Here too an   *)
(* operator marked "Mutant" is a slip no behaviour uses.                   *)

Create(a) ==
  /\ alarms[a] = "none"
  /\ alarms' = [alarms EXCEPT ![a] = "ok"]
  /\ UNCHANGED <<metric, pc, job, bus, toggled, faults>>

Delete(a) ==
  /\ a \in Stored
  /\ alarms' = [alarms EXCEPT ![a] = "gone"]
  /\ late' = [late EXCEPT ![a] = 0]
  /\ UNCHANGED <<metric, pc, job, published, lastPublished, toggled, faults>>

Disable(a) ==
  /\ a \in Stored
  /\ alarms[a] # "disabled"
  /\ alarms' = [alarms EXCEPT ![a] = "disabled"]
  /\ late' = [late EXCEPT ![a] = 0]
  /\ toggled' = toggled \cup {a}
  /\ UNCHANGED <<metric, pc, job, published, lastPublished, faults>>

Enable(a) ==
  /\ alarms[a] = "disabled"
  /\ alarms' = [alarms EXCEPT ![a] = "ok"]
  /\ late' = [late EXCEPT ![a] = 0]
  /\ UNCHANGED <<metric, pc, job, published, lastPublished, toggled, faults>>

Sample(a) ==
  /\ \E r \in Reading \ {metric[a]} : metric' = [metric EXCEPT ![a] = r]
  /\ UNCHANGED <<alarms, pc, job, bus, toggled, faults>>

-----------------------------------------------------------------------------
(* The loop                                                                *)

FreeSlots(a) == {s \in Slot : job[<<a, s>>].stage = "free"}

NewJob(a, awaited) ==
  [stage |-> "query", muted |-> alarms[a] = "disabled", verdict |-> "ok",
   awaited |-> awaited]

\* One worker for each alarm of S.
Forked(S, awaited) ==
  [j \in JobId |->
     IF j[1] \in S /\ j[2] = CHOOSE s \in FreeSlots(j[1]) : TRUE
       THEN NewJob(j[1], awaited)
       ELSE job[j]]

\* Nobody waits for the processes that are left.
Abandoned == [j \in JobId |-> [job[j] EXCEPT !.awaited = FALSE]]

\* get_alarms and the forks.  Alarm.from_dict raises on an unreadable
\* threshold: while such an alarm is stored, every pass ends here, and
\* evaluate_forever begins the next at once.
Snapshot ==
  /\ pc = "start"
  /\ Stored \cap Unreadable = {}
  /\ \A a \in Stored : FreeSlots(a) # {}
  /\ \/ /\ job' = Forked(Stored, TRUE)
        /\ pc' = "join_workers"
        /\ UNCHANGED faults
     \/ \* get_alarms raises
        /\ Strike("db")
        /\ UNCHANGED <<pc, job>>
     \/ \* a process cannot be started: the ones before it keep running
        /\ Strike("fork")
        /\ \E S \in SUBSET Stored : S # Stored /\ job' = Forked(S, FALSE)
        /\ UNCHANGED pc
  /\ UNCHANGED <<alarms, metric, bus, toggled>>

Awaited(stages) == {j \in JobId : job[j].awaited /\ job[j].stage \in stages}

Join(stages) ==
  \/ Awaited(stages) = {} /\ UNCHANGED faults
  \/ Awaited(stages) # {} /\ Strike("timeout")

\* Mutant: the workers are not joined.
JoinNoWorkers ==
  /\ pc = "join_workers"
  /\ pc' = "drain"
  /\ job' = Abandoned
  /\ UNCHANGED <<alarms, metric, bus, toggled, faults>>

JoinWorkers ==
  /\ pc = "join_workers"
  /\ Join({"query", "put"})
  /\ pc' = "drain"
  /\ job' = Abandoned
  /\ UNCHANGED <<alarms, metric, bus, toggled>>

Queued == {j \in JobId : job[j].stage = "queued"}

\* The queue is emptied; the tuples of S get a notifier, the others are lost.
Notified(S, awaited) ==
  [j \in JobId |->
     IF j \in S THEN [job[j] EXCEPT !.stage = "publish", !.awaited = awaited]
     ELSE IF j \in Queued THEN Free
     ELSE job[j]]

Drain ==
  /\ pc = "drain"
  /\ \/ /\ job' = Notified(Queued, TRUE)
        /\ pc' = "join_notifiers"
        /\ UNCHANGED faults
     \/ /\ Strike("fork")
        /\ \E S \in SUBSET Queued : S # Queued /\ job' = Notified(S, FALSE)
        /\ pc' = "start"
  /\ UNCHANGED <<alarms, metric, bus, toggled>>

\* Mutant: the notifiers are not joined.
JoinNoNotifiers ==
  /\ pc = "join_notifiers"
  /\ pc' = "start"
  /\ job' = Abandoned
  /\ UNCHANGED <<alarms, metric, bus, toggled, faults>>

\* After the last join the loop sleeps and starts again.
JoinNotifiers ==
  /\ pc = "join_notifiers"
  /\ Join({"publish", "read", "write"})
  /\ pc' = "start"
  /\ job' = Abandoned
  /\ UNCHANGED <<alarms, metric, bus, toggled>>

\* The container dies with all its processes and is started again.
Crash ==
  /\ Strike("crash")
  /\ pc' = "start"
  /\ job' = [j \in JobId |-> Free]
  /\ UNCHANGED <<alarms, metric, bus, toggled>>

Loop == Snapshot \/ JoinWorkers \/ Drain \/ JoinNotifiers

-----------------------------------------------------------------------------
(* A worker                                                                *)

\* The verdict of _evaluate_metric, where it reaches one.
HasVerdict(op, r) == r = "none" \/ op \in {"gt", "lt"}

\* Mutant: a metric equal to the threshold counts as crossed.
VerdictOrEqual(op, r) ==
  IF r = "none" THEN "insufficient-data"
  ELSE IF op = "gt" THEN IF r \in {"above", "at"} THEN "alarm" ELSE "ok"
  ELSE IF r \in {"below", "at"} THEN "alarm" ELSE "ok"

VerdictOf(op, r) ==
  IF r = "none" THEN "insufficient-data"
  ELSE IF op = "gt" THEN IF r = "above" THEN "alarm" ELSE "ok"
  ELSE IF r = "below" THEN "alarm" ELSE "ok"

Exit(j) == job' = [job EXCEPT ![j] = Free]

Advance(j, stage) == job' = [job EXCEPT ![j].stage = stage]

\* Mutant: disabled alarms are judged like the others.
JudgeMuted(j, r) ==
  IF HasVerdict(Operation[j[1]], r)
    THEN job' = [job EXCEPT ![j].stage = "put",
                            ![j].verdict = VerdictOf(Operation[j[1]], r)]
    ELSE Exit(j)

Judge(j, r) ==
  IF ~job[j].muted /\ HasVerdict(Operation[j[1]], r)
    THEN job' = [job EXCEPT ![j].stage = "put",
                            ![j].verdict = VerdictOf(Operation[j[1]], r)]
    ELSE Exit(j)

\* The query comes first, for disabled alarms too.  An answer of the TSDB that
\* is not a success reads as no value; one that cannot be had or parsed raises.
Query(j) ==
  /\ job[j].stage = "query"
  /\ \/ Judge(j, metric[j[1]]) /\ UNCHANGED faults
     \/ Strike("query") /\ (Judge(j, "none") \/ Exit(j))
  /\ UNCHANGED <<alarms, metric, pc, bus, toggled>>

Put(j) ==
  /\ job[j].stage = "put"
  /\ Advance(j, "queued")
  /\ UNCHANGED <<alarms, metric, pc, bus, toggled, faults>>

-----------------------------------------------------------------------------
(* A notifier.  Whatever raises in it ends it.                             *)

Notify(a, v) ==
  /\ published' = [published EXCEPT ![a] = @ \cup {v}]
  /\ lastPublished' = [lastPublished EXCEPT ![a] = v]
  /\ late' = [late EXCEPT ![a] = IF alarms[a] = "disabled" THEN @ + 1 ELSE 0]

\* Mutant: the status is updated although the bus raised.
PublishIgnoringFailure(j) ==
  /\ job[j].stage = "publish"
  /\ \/ Notify(j[1], job[j].verdict) /\ UNCHANGED faults
     \/ Strike("bus") /\ UNCHANGED bus
  /\ Advance(j, "read")
  /\ UNCHANGED <<alarms, metric, pc, toggled>>

Publish(j) ==
  /\ job[j].stage = "publish"
  /\ \/ /\ Notify(j[1], job[j].verdict)
        /\ Advance(j, "read")
        /\ UNCHANGED faults
     \/ /\ Strike("bus")
        /\ Notify(j[1], job[j].verdict) \/ UNCHANGED bus
        /\ Exit(j)
  /\ UNCHANGED <<alarms, metric, pc, toggled>>

\* get_alarm_by_uuid raises when the alarm is gone.
Read(j) ==
  /\ job[j].stage = "read"
  /\ \/ /\ IF j[1] \in Stored /\ alarms[j[1]] # "disabled" THEN Advance(j, "write")
                                                          ELSE Exit(j)
        /\ UNCHANGED faults
     \/ Strike("db") /\ Exit(j)
  /\ UNCHANGED <<alarms, metric, pc, bus, toggled>>

\* Mutant: the update inserts the alarm when it is not there.
SetStatusUpsert(a, v) == alarms' = [alarms EXCEPT ![a] = v]

\* Mutant: the name of the AlarmStatus is stored instead of its value.
SetStatusName(a, v) ==
  alarms' = IF a \in Stored THEN [alarms EXCEPT ![a] = "AlarmStatus"] ELSE alarms

\* set_one does not insert: it raises when the alarm is gone.
SetStatus(a, v) ==
  alarms' = IF a \in Stored THEN [alarms EXCEPT ![a] = v] ELSE alarms

Write(j) ==
  /\ job[j].stage = "write"
  /\ Exit(j)
  /\ \/ SetStatus(j[1], job[j].verdict) /\ UNCHANGED faults
     \/ /\ Strike("db")
        /\ SetStatus(j[1], job[j].verdict) \/ UNCHANGED alarms
  /\ UNCHANGED <<metric, pc, bus, toggled>>

Run(j) == Query(j) \/ Put(j) \/ Publish(j) \/ Read(j) \/ Write(j)

Next ==
  \/ \E a \in Alarm : Create(a) \/ Delete(a) \/ Disable(a) \/ Enable(a) \/ Sample(a)
  \/ Snapshot
  \/ JoinWorkers
  \/ Drain
  \/ JoinNotifiers
  \/ Crash
  \/ \E j \in JobId : Query(j) \/ Put(j) \/ Publish(j) \/ Read(j) \/ Write(j)

Spec == Init /\ [][Next]_vars

\* The loop never ends, a process that can take a step is scheduled, and the
\* query has a timeout of its own.
FairSpec ==
  /\ Spec
  /\ WF_vars(Loop)
  /\ \A j \in JobId : WF_vars(Run(j))

-----------------------------------------------------------------------------
(* Properties                                                              *)

Live(a) == {s \in Slot : job[<<a, s>>].stage # "free"}

\* Whoever reads a status other than the initial one in the database finds that
\* the bus was told of it before: notify_alarm publishes, then updates.
PublishedBeforeStored ==
  \A a \in Alarm : alarms[a] \in {"alarm", "insufficient-data"} =>
                     alarms[a] \in published[a]

\* A deletion is final: a notifier that read the alarm before it was deleted does
\* not write it back.
NeverResurrected ==
  [][\A a \in Alarm : alarms[a] = "gone" => alarms'[a] = "gone"]_vars

\* What an alarm's status was when a pass began is stale by the time its verdict is
\* published: a disabled alarm is still notified, but only by the evaluations that
\* were under way when it was disabled, of which there is one more than processes
\* were lost to joins and forks.  No pass that begins later notifies it.
StaleVerdictsBounded ==
  \A a \in Alarm : alarms[a] = "disabled" =>
                     late[a] <= 1 + faults["timeout"] + faults["fork"]

\* The processes of one alarm pile up only as far as joins time out and forks
\* fail, each of which leaves at most one more of them behind.
OutstandingBounded ==
  \A a \in Alarm : Cardinality(Live(a)) <= 1 + faults["timeout"] + faults["fork"]

\* A pass that loses no process leaves the database and the bus in agreement:
\* between passes the status of an alarm is the one last notified.
Agreement ==
  (\A k \in FaultKind : faults[k] = 0) =>
    \A a \in Stored \ toggled :
      pc = "start" => alarms[a] = IF lastPublished[a] = "none" THEN "ok"
                                                               ELSE lastPublished[a]

\* The three statuses of docs/architecture.md.
Documented(a, r) ==
  IF r = "none" THEN "insufficient-data"
  ELSE IF <<Operation[a], r>> \in {<<"gt", "above">>, <<"lt", "below">>} THEN "alarm"
  ELSE "ok"

\* An alarm that stays enabled and whose metric stays where it is ends up with the
\* status its threshold calls for, whatever late processes of earlier passes still
\* write (_evaluate_metric, and one update per pass until the last).
Converges ==
  \A a \in Alarm, r \in Reading :
    HasVerdict(Operation[a], r) =>
      (<>[](alarms[a] \in Verdict /\ metric[a] = r)
        => <>[](alarms[a] = Documented(a, r)))

\* docs/architecture.md says that the evaluator iterates over the stored alarms
\* and publishes the status of each: an alarm that stays enabled, whose threshold
\* is a number and whose metric stays where it is gets notified.
EachEvaluated ==
  \A a \in Alarm \ Unreadable, r \in Reading :
    HasVerdict(Operation[a], r) =>
      (<>[](alarms[a] \in Verdict /\ metric[a] = r) => <>(published[a] # {}))

=============================================================================

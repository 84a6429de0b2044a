---------------------------- MODULE InfraStatus ----------------------------
(***************************************************************************)
(* What the infrastructure collectors of MON report in each cycle          *)
(* (osm_mon/collector/infra_collectors): whether VIMs, SDN controllers and *)
(* virtual machines work, and, written to the accounts of OpenStack VIMs   *)
(* in the database, how much of their resources is used.                   *)
(*                                                                         *)
(* Module Collector models how a cycle and its tasks end; here a cycle is  *)
(* short and the bodies of the tasks are modelled, with the exporter       *)
(* (backends/prometheus.py), which groups what they return by name.        *)
(***************************************************************************)
EXTENDS Naturals, FiniteSets, Sequences, SequencesExt

CONSTANTS
  Vim, Sdnc,   \* what is registered
  Machine,     \* the vdurs there may be, each of a VNF of its own
  VimType,     \* the type of each VIM, as _get_vim_type reads it
  HostOf,      \* the VIM of each machine
  Recorded,    \* the kinds of resources in "resources" of each VIM account
  Missing,     \* the services a VIM does not have: limits of a kind always raise
  Unmapped,    \* the machines of which a metric is asked that has no name
  Limit,       \* what may be used of a kind of resources
  MaxEvents    \* bound: how often the world changes or something fails

Kinds == <<"compute", "storage", "network">>
Kind == {"compute", "storage", "network"}

ASSUME TypeAssumption == VimType \in [Vim -> {"openstack", "vio", "vmware"}]
ASSUME HostAssumption == HostOf \in [Machine -> Vim]
ASSUME ResourcesAssumption ==
  Recorded \in [Vim -> SUBSET Kind] /\ Missing \subseteq Vim \X Kind
ASSUME UnmappedAssumption == Unmapped \subseteq Machine
ASSUME LimitAssumption == Limit # {}
ASSUME BoundAssumption == MaxEvents \in Nat

VARIABLES
  record,    \* the vdur of each machine in the database
  state,     \* what became of each machine in its VIM
  answers,   \* whether the API of nova, vCD or ONOS answers
  keystone,  \* whether keystone answers
  telemetry, \* whether gnocchi or ceilometer answers
  limits,    \* what is used of each kind of resources of a VIM
  account,   \* the same, in the VIM account in the database
  collecting,\* whether a cycle has submitted its tasks
  vnfs,      \* the VNFs whose tasks have not ended, as they were when it began, until
             \* one raises
  doomed,    \* whether a task of a VNF has raised
  task,      \* the infrastructure tasks
  metrics,   \* the metrics taken so far
  exported,  \* the samples the exporter serves
  events     \* bound: how often the world changed or something failed

world == <<record, state, answers, keystone, telemetry, limits>>
cycle == <<collecting, vnfs, doomed, task, metrics>>
vars == <<world, account, cycle, exported, events>>

Target == Vim \cup Sdnc
NovaVim == {v \in Vim : VimType[v] \in {"openstack", "vio"}}
VcdVim == {v \in Vim : VimType[v] = "vmware"}

\* A boolean is scraped as 0 or 1; None makes every scrape raise.
Value == {"0", "1", "None"}
Status(ok) == IF ok THEN "1" ELSE "0"

\* The tags of vm_status are ns_id and vdu_name, or nsr_id and vdur_name with vCD.
Labels == {"status", "vdu", "vdur"}
MetricNames == {"vim_status", "sdnc_status", "vm_status"}
Metric ==
  [name : MetricNames, of : Target \cup Machine, value : Value, labels : Labels]
NoMetric == [name |-> "none"]

At == {"none", "submitted", "check", "limits", "write", "list", "machines", "done",
       "swallowed", "raised"}

\* A task has a copy of the account, the kind of resources it is at, their new
\* value, the vdurs it has still to visit, vm_status_metric and its metrics.
Task ==
  [at : At, copy : [Kind -> Limit], kind : 1..4, value : Limit,
   left : SUBSET (Machine \X {"unfilled", "filled"}),
   last : Metric \cup {NoMetric}, metrics : Seq(Metric)]

TypeOK ==
  /\ record \in [Machine -> {"absent", "unfilled", "filled"}]
  /\ state \in [Machine -> {"active", "error", "none"}]
  /\ answers \in [Target -> BOOLEAN]
  /\ keystone \in [NovaVim -> BOOLEAN] /\ telemetry \in [NovaVim -> BOOLEAN]
  /\ limits \in [NovaVim -> [Kind -> Limit]]
  /\ account \in [NovaVim -> [Kind -> Limit]]
  /\ collecting \in BOOLEAN /\ doomed \in BOOLEAN
  /\ vnfs \subseteq Machine \X {"unfilled", "filled"}
  /\ task \in [Target -> Task]
  /\ metrics \in Seq(Metric)
  /\ exported \subseteq Metric
  /\ events \in 0..MaxEvents

SomeLimit == CHOOSE x \in Limit : TRUE
Blank ==
  [at |-> "none", copy |-> [k \in Kind |-> SomeLimit], kind |-> 1, value |-> SomeLimit,
   left |-> {}, last |-> NoMetric, metrics |-> <<>>]
NoTasks == [t \in Target |-> Blank]

Init ==
  /\ record \in [Machine -> {"absent", "filled"}]
  /\ state = [m \in Machine |-> "active"]
  /\ answers = [t \in Target |-> TRUE]
  /\ keystone = [v \in NovaVim |-> TRUE] /\ telemetry = [v \in NovaVim |-> TRUE]
  /\ limits = [v \in NovaVim |-> [k \in Kind |-> SomeLimit]]
  /\ account = limits
  /\ collecting = FALSE /\ vnfs = {} /\ doomed = FALSE /\ task = NoTasks
  /\ metrics = <<>>
  /\ exported = {}
  /\ events = 0

-----------------------------------------------------------------------------
(* The world.                                                              *)

Bounded == events < MaxEvents /\ events' = events + 1

Happen == Bounded /\ UNCHANGED <<account, cycle, exported>>

\* LCM makes the record of a machine, fills it in, and removes it with the record
\* of its NS.
Deploy(m) ==
  /\ record[m] # "filled"
  /\ record' = [record EXCEPT ![m] = IF @ = "absent" THEN "unfilled" ELSE "filled"]
  /\ Happen /\ UNCHANGED <<state, answers, keystone, telemetry, limits>>

Undeploy(m) ==
  /\ record[m] # "absent"
  /\ record' = [record EXCEPT ![m] = "absent"]
  /\ Happen /\ UNCHANGED <<state, answers, keystone, telemetry, limits>>

\* "none": nova does not know the machine, or the vApp is empty.
ChangeState(m) ==
  /\ \E s \in {"active", "error", "none"} \ {state[m]} :
       state' = [state EXCEPT ![m] = s]
  /\ Happen /\ UNCHANGED <<record, answers, keystone, telemetry, limits>>

FailOrRecover(t) ==
  /\ answers' = [answers EXCEPT ![t] = ~@]
  /\ Happen /\ UNCHANGED <<record, state, keystone, telemetry, limits>>

KeystoneFailsOrRecovers(v) ==
  /\ keystone' = [keystone EXCEPT ![v] = ~@]
  /\ Happen /\ UNCHANGED <<record, state, answers, telemetry, limits>>

\* Gnocchi answers with errors and there is no ceilometer either.
TelemetryFailsOrRecovers(v) ==
  /\ telemetry' = [telemetry EXCEPT ![v] = ~@]
  /\ Happen /\ UNCHANGED <<record, state, answers, keystone, limits>>

\* What nothing can be told of, or nothing is recorded of, is left as it is.
Use(v, k) ==
  /\ k \in Recorded[v] /\ <<v, k>> \notin Missing
  /\ \E x \in Limit \ {limits[v][k]} : limits' = [limits EXCEPT ![v][k] = x]
  /\ Happen /\ UNCHANGED <<record, state, answers, keystone, telemetry>>

-----------------------------------------------------------------------------
(* The cycle.                                                              *)

\* A collector of each VIM is made for its session, and the tasks get their copies of
\* the VNFs.
Begin ==
  /\ ~collecting
  /\ \A v \in NovaVim : keystone[v]
  /\ collecting' = TRUE
  /\ vnfs' = {<<m, record[m]>> : m \in {x \in Machine : record[x] # "absent"}}
  /\ task' = [t \in Target |-> [Blank EXCEPT !.at = "submitted"]]
  /\ UNCHANGED <<world, account, doomed, metrics, exported, events>>

\* Where a keystone refuses, the cycle is abandoned before it submits anything.
BeginFails ==
  /\ ~collecting
  /\ \E v \in NovaVim : ~keystone[v]
  /\ UNCHANGED vars

\* Mutant: the map of the sessions is not handed to the workers of the pool.
VnfRaisesSessionless(l) == HostOf[l[1]] \in Vim

\* Sessions are kept for the type openstack only.  Each task of a VNF reads its NS, and
\* nothing catches what is raised for a backend or the name of a metric.
VnfRaises(l) ==
  LET m == l[1]
      v == HostOf[m]
  IN  \/ VimType[v] = "openstack" => ~telemetry[v]
      \/ record[m] = "absent"
      \/ l[2] = "filled" /\ m \in Unmapped

\* A vdur that has its name but not all else is not passed over.
VnfMayRaise(l) ==
  VnfRaises(l) \/ (l[2] = "unfilled" /\ (record[l[1]] = "unfilled" \/ l[1] \in Unmapped))

\* The tasks of a VNF, whose metrics are in module OpenstackVnf.  Once one raised it does
\* not matter how the others end.
CollectVnf(l) ==
  /\ \/ VnfMayRaise(l) /\ vnfs' = {} /\ doomed' = TRUE
     \/ ~VnfRaises(l) /\ vnfs' = vnfs \ {l} /\ UNCHANGED doomed
  /\ UNCHANGED <<world, account, collecting, task, metrics, exported, events>>

Goes(t, r) ==
  /\ task' = [task EXCEPT ![t] = r]
  /\ UNCHANGED <<world, collecting, vnfs, doomed, exported, events>>

Ends(t, r) ==
  /\ Goes(t, [Blank EXCEPT !.at = "done"])
  /\ metrics' = metrics \o r.metrics
  /\ UNCHANGED account

Raises(t) == Goes(t, [Blank EXCEPT !.at = "raised"]) /\ UNCHANGED <<account, metrics>>

\* The constructor reads the account; sessions and project ids come from keystone,
\* and that keystone cannot be reached is swallowed where the result is taken.
Construct(v) ==
  /\ task[v].at = "submitted"
  /\ IF v \notin NovaVim THEN Goes(v, [Blank EXCEPT !.at = "check"])
     ELSE IF keystone[v] THEN Goes(v, [Blank EXCEPT !.at = "check", !.copy = account[v]])
     ELSE Goes(v, [Blank EXCEPT !.at = "swallowed"])
  /\ UNCHANGED <<account, metrics>>

\* is_vim_ok is a boolean; check_vim_status of vCD has nothing to return when
\* anything raises.
VimStatus(v) ==
  IF v \in NovaVim THEN Status(answers[v]) ELSE IF answers[v] THEN "1" ELSE "None"

CheckVim(v) ==
  /\ task[v].at = "check"
  /\ LET status ==
           [name |-> "vim_status", of |-> v, value |-> VimStatus(v), labels |-> "status"]
         update == v \in NovaVim /\ answers[v] /\ Recorded[v] # {}
     IN  Goes(v, [task[v] EXCEPT !.at = IF update THEN "limits" ELSE "list",
                                 !.metrics = <<status>>])
  /\ UNCHANGED <<account, metrics>>

\* The next kind of resources, or the VNFs after the last.
NextKind(r) ==
  [r EXCEPT !.kind = @ + 1, !.at = IF r.kind = Len(Kinds) THEN "list" ELSE "limits"]

LimitsRaise(v, k) == <<v, k>> \in Missing \/ (k = "compute" /\ ~answers[v])

\* Mutant: one try around all kinds.
GiveUpKinds(r) == [r EXCEPT !.kind = Len(Kinds) + 1, !.at = "list"]

\* Each kind has a try of its own.
AfterRaise(r) == NextKind(r)

\* The limits are asked for and compared with the copy of the account.
CompareLimits(v) ==
  LET k == Kinds[task[v].kind]
      r == task[v]
  IN  /\ r.at = "limits"
      /\ Goes(v, IF LimitsRaise(v, k) THEN AfterRaise(r)
                 ELSE IF k \in Recorded[v] /\ r.copy[k] # limits[v][k]
                 THEN [r EXCEPT !.at = "write", !.value = limits[v][k]]
                 ELSE NextKind(r))
      /\ UNCHANGED <<account, metrics>>

\* Only this kind of the account is set; a failing database is not noticed.
WriteLimits(v) ==
  /\ task[v].at = "write"
  /\ account' = [account EXCEPT ![v][Kinds[task[v].kind]] = task[v].value]
  /\ Goes(v, NextKind(task[v]))
  /\ UNCHANGED metrics

WriteFails(v) ==
  /\ task[v].at = "write"
  /\ Bounded
  /\ task' = [task EXCEPT ![v] = NextKind(@)]
  /\ UNCHANGED <<world, account, collecting, vnfs, doomed, metrics, exported>>

ListVnfs(v) ==
  /\ task[v].at = "list"
  /\ Goes(v, [task[v] EXCEPT !.at = "machines",
        !.left = {<<m, record[m]>> : m \in {x \in Machine :
                                     HostOf[x] = v /\ record[x] # "absent"}}])
  /\ UNCHANGED <<account, metrics>>

Reports(v, l, metric) ==
  Goes(v, [task[v] EXCEPT !.left = @ \ {l}, !.last = metric,
                          !.metrics = Append(@, metric)])

\* A vdur of an OpenStack VIM: without vim-id it is passed over, and a machine
\* nova does not tell of is reported like one in ERROR.
AskNova(v, l) ==
  LET ok == answers[v] /\ state[l[1]] = "active"
  IN  IF l[2] = "unfilled" THEN Goes(v, [task[v] EXCEPT !.left = @ \ {l}])
      ELSE Reports(v, l, [name |-> "vm_status", of |-> l[1], value |-> Status(ok),
                          labels |-> "vdu"])

\* Mutant: vm_status_metric starts as None.
AskVcdUnset(v, l) ==
  LET ok == answers[v] /\ state[l[1]] = "active"
  IN  IF l[2] = "unfilled" THEN Goes(v, [Blank EXCEPT !.at = "raised"])
      ELSE Reports(v, l, IF answers[v] /\ state[l[1]] = "none" THEN task[v].last
                         ELSE [name |-> "vm_status", of |-> l[1], value |-> Status(ok),
                               labels |-> "vdur"])

\* A vdur of vCD: for an empty vApp the metric of the vdur before it is reported
\* again; without one, as without a vim-id, the task raises.
AskVcd(v, l) ==
  LET empty == answers[v] /\ state[l[1]] = "none"
      ok == answers[v] /\ state[l[1]] = "active"
  IN  IF l[2] = "unfilled" \/ (empty /\ task[v].last = NoMetric)
      THEN Goes(v, [Blank EXCEPT !.at = "raised"])
      ELSE Reports(v, l, IF empty THEN task[v].last
                         ELSE [name |-> "vm_status", of |-> l[1], value |-> Status(ok),
                               labels |-> "vdur"])

\* The name of the NS is read first, and raises when the NS is gone.
VisitMachine(v) ==
  /\ task[v].at = "machines"
  /\ \E l \in task[v].left :
       IF record[l[1]] = "absent" THEN Raises(v)
       ELSE /\ IF v \in NovaVim THEN AskNova(v, l) ELSE AskVcd(v, l)
            /\ UNCHANGED <<account, metrics>>

Return(v) ==
  /\ task[v].at = "machines" /\ task[v].left = {}
  /\ Ends(v, task[v])

\* Whatever raises in is_sdnc_ok, the controller is reported as not working.
CheckSdnc(s) ==
  /\ task[s].at = "submitted"
  /\ Ends(s, [Blank EXCEPT !.metrics =
        <<[name |-> "sdnc_status", of |-> s, value |-> Status(answers[s]),
           labels |-> "status"]>>])

\* The database raises in a task.
TaskFails(t) ==
  /\ task[t].at \in {"submitted", "list", "machines"}
  /\ Bounded
  /\ task' = [task EXCEPT ![t] = [Blank EXCEPT !.at = "raised"]]
  /\ UNCHANGED <<world, account, collecting, vnfs, doomed, metrics, exported>>

VnfFails ==
  /\ vnfs # {}
  /\ Bounded
  /\ vnfs' = {} /\ doomed' = TRUE
  /\ UNCHANGED <<world, account, collecting, task, metrics, exported>>

First(ms, name) == ms[Min({i \in DOMAIN ms : ms[i].name = name})]

\* The exporter: all metrics of a name get the labels of the first.
Handle(ms) == {[m EXCEPT !.labels = First(ms, m.name).labels] : m \in ToSet(ms)}

\* What raised is raised again, and the cycle is abandoned when all tasks ended.
EndCycle ==
  /\ collecting
  /\ vnfs = {}
  /\ \A t \in Target : task[t].at \in {"done", "swallowed", "raised"}
  /\ exported' = IF doomed \/ \E t \in Target : task[t].at = "raised"
                 THEN exported ELSE Handle(metrics)
  /\ collecting' = FALSE /\ vnfs' = {} /\ doomed' = FALSE /\ task' = NoTasks /\ metrics' = <<>>
  /\ UNCHANGED <<world, account, events>>

\* The deadline ends the tasks that are left; what was taken is exported, unless
\* a task that raised was taken.
Deadline ==
  /\ collecting
  /\ Bounded
  /\ vnfs # {} \/ \E t \in Target : task[t].at \notin {"done", "swallowed", "raised"}
  /\ ~doomed /\ \A t \in Target : task[t].at # "raised"
  /\ exported' = Handle(metrics)
  /\ collecting' = FALSE /\ vnfs' = {} /\ doomed' = FALSE /\ task' = NoTasks /\ metrics' = <<>>
  /\ UNCHANGED <<world, account>>

Crash ==
  /\ Bounded
  /\ exported' = {}
  /\ collecting' = FALSE /\ vnfs' = {} /\ doomed' = FALSE /\ task' = NoTasks /\ metrics' = <<>>
  /\ UNCHANGED <<world, account>>

StepOfVim(v) ==
  Construct(v) \/ CheckVim(v) \/ CompareLimits(v) \/ WriteLimits(v)
  \/ ListVnfs(v) \/ VisitMachine(v) \/ Return(v)

World ==
  \/ \E m \in Machine : Deploy(m) \/ Undeploy(m) \/ ChangeState(m)
  \/ \E t \in Target : FailOrRecover(t)
  \/ \E v \in NovaVim : \/ KeystoneFailsOrRecovers(v) \/ TelemetryFailsOrRecovers(v)
                        \/ \E k \in Kind : Use(v, k)

Next ==
  \/ World
  \/ Begin \/ BeginFails \/ EndCycle \/ Deadline \/ Crash
  \/ \E v \in Vim : StepOfVim(v) \/ WriteFails(v)
  \/ \E s \in Sdnc : CheckSdnc(s)
  \/ \E t \in Target : TaskFails(t)
  \/ (\E l \in vnfs : CollectVnf(l)) \/ VnfFails

Spec == Init /\ [][Next]_vars

\* The loop starts cycle after cycle, and the pool runs every task: nothing the
\* tasks call waits for ever, but vCD and ONOS, whose hanging is in Collector.
Fairness ==
  /\ WF_vars(Begin) /\ WF_vars(EndCycle)
  /\ \A v \in Vim : WF_vars(StepOfVim(v))
  /\ \A s \in Sdnc : WF_vars(CheckSdnc(s))
  /\ WF_vars(\E l \in vnfs : CollectVnf(l))

FairSpec == Spec /\ Fairness

-----------------------------------------------------------------------------
(* Properties.                                                             *)

\* A scrape raises as a whole where one sample has no value.
Scrape ==
  IF \E x \in exported : x.value = "None" THEN {} ELSE exported

Truth ==
  {[name |-> "vim_status", of |-> v, value |-> Status(answers[v]), labels |-> "status"]
     : v \in Vim}
  \cup {[name |-> "sdnc_status", of |-> s, value |-> Status(answers[s]), labels |-> "status"]
     : s \in Sdnc}
  \cup {[name |-> "vm_status", of |-> m, labels |-> "vdu",
         value |-> Status(answers[HostOf[m]] /\ state[m] = "active")]
     : m \in {x \in Machine : record[x] = "filled"}}

KeystonesAnswer == \A v \in NovaVim : keystone[v]

\* What keeps a report from being exported or scraped for as long as it lasts: a
\* keystone that refuses, a vCD that is down, and a VNF whose task raises, with no session
\* or telemetry of its VIM, a record that is not filled in or a metric without a name.
Reportable ==
  /\ KeystonesAnswer
  /\ \A v \in VcdVim : answers[v]
  /\ \A m \in Machine : record[m] # "absent" =>
       /\ record[m] = "filled" /\ m \notin Unmapped
       /\ VimType[HostOf[m]] = "openstack" /\ telemetry[HostOf[m]]

\* When the world comes to rest in a state whose report is exported, what Prometheus
\* scrapes is the status of every VIM, SDN controller and machine as it is, each with its
\* own labels, and of nothing else: a broken or vanished machine, an API that is down, a
\* cycle that was cut short or abandoned, and what kept reports from being exported until
\* then leave no false or missing sample for good (base_osinfra.py, vmware.py, onos.py,
\* backends/prometheus.py).
StatusFollows == <>[](Reportable => Scrape = Truth)

\* The resources recorded in a VIM account follow those of the VIM, also of a VIM
\* that lacks the service of another kind, after a write that failed unnoticed, and
\* in cycles that export nothing (base_osinfra.py update_resources).
ResourcesFollow ==
  \A v \in NovaVim : \A k \in {x \in Recorded[v] : <<v, x>> \notin Missing} :
    <>[](KeystonesAnswer /\ answers[v] => account[v][k] = limits[v][k])
=============================================================================

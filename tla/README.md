# A TLA+ verification of the OSM Monitoring module (MON)

This directory holds TLA+ models of MON, the TLC configurations that check
them on small instances, and theorems about them that TLAPS checks for every
value of their constants. The models are translated from the Python sources
under `src/osm_mon`; `PROJECT.json` maps every definition to the lines it
stands for.

- [The system](#the-system) — its components, their state, how they interact
- [The models](#the-models) — one section per component: state and actions
  against the code, abstractions
- [The runs](#the-runs) — what TLC checks, on which instance, and why it is
  large enough
- [Fairness and deadlock](#fairness-and-deadlock)
- [The proofs](#the-proofs)
- [Findings](#findings)
- [What is not modelled](#what-is-not-modelled), [The plan](#the-plan)

## The system

MON is four services that share no memory. They meet in the OSM database
(MongoDB), on the bus (Kafka) and in the TSDB (Prometheus).

```
 clients --alarm_request--> MON Server --alarm_response_<id>--> clients
                                |
                         alarms, alarms_action            operators
                                |                             |
 Prometheus <--query-- MON Evaluator --alarm_response--> bus  | disable, enable
     ^                                                        v
     | scrape                                              database
 MON Collector --- VIMs, VCA (Juju), SDN controllers
 MON Dashboarder --- users, project (bus), keystone --> Grafana
```

| component | state it keeps | operations |
|---|---|---|
| MON Server (`server/`) | its place in topic `alarm_request`; the request in hand | subscribe, read a request, create an alarm, delete an alarm, answer; upsert the exporter's job when it starts |
| Alarm storage (`core/common_db.py`, `core/models.py`) | collections `alarms` and `alarms_action` | create, delete, list, get, update the status |
| Message bus client (`core/message_bus_client.py`) | a consumer and its position; a producer per write | read for ever, write one message |
| MON Evaluator (`evaluator/`) | the processes of the pass and of late ones; a queue between them | list alarms, fork a worker per alarm, query, judge, queue, fork a notifier per verdict, publish, update the status |
| MON Collector cycle (`collector/collector.py`, `collector/service.py`) | `vim_sess_map`, a pool of processes, the metrics taken so far | list VNFs and VIMs, open sessions, submit tasks, take results, stop the pool, export |
| Prometheus exporter (`collector/backends/prometheus.py`) | the metrics of the last export | replace them, serve a scrape |
| VNF and infrastructure plugins (`collector/vnf_collectors`, `collector/infra_collectors`) | a session, a rate database (OpenStack only), the resources of a VIM account | collect |
| MON Dashboarder (`dashboarder/`) | what Grafana holds | reconcile dashboards, data sources and users in a loop; follow the events of users and projects in a second thread |
| Keystone, configuration, commands | none that outlives a call | read |

The behaviours that are hard to get right, and hard to test:

- **MON Server.** An alarm is two documents written one after the other;
  the handler may be cut short by an exception or by a crash between any two
  calls; a call that raises may have taken effect; the offset is committed in
  the background and a restarted consumer reads requests again. It is
  correct when a client that was told that its alarm exists, or is gone, can
  rely on it; when every request is answered, in order, and executed at most
  once per start; and when no request stops the consumer.
- **MON Evaluator.** A worker or a notifier that outlives its join of ten
  seconds goes on running next to those of the following passes, while the
  alarm is disabled, enabled or deleted by others. It is correct when no
  status is stored that was not notified, when nothing brings a deleted alarm
  back, when a disabled alarm falls silent, when processes do not pile up
  without a cause, and when an alarm that is left alone converges to the
  status its threshold calls for.
- **MON Collector.** Exceptions of tasks surface where their result is taken;
  keystone's connection error, the deadline and everything else take three
  different ways out of the cycle; sessions are inherited by the workers
  through a global map. It is correct when a task finds its session, when
  nothing of one cycle reaches the next, when an export is complete, and when
  one sick target does not keep the metrics of healthy ones away for ever.
- **MON Dashboarder.** A loop that compares two lists read one after the other
  and deletes the difference, next to a consumer that changes Grafana
  meanwhile. It should neither delete what is in use nor leave what is not.
  The consumer reads users and projects from two topics, in no common order,
  and looks up in OSM or keystone what its events only name: it is correct
  when users end up in the teams of their projects and in no others.
- **OpenStack plugin.** Packet metrics are counters in the VIM and rates in
  OSM: a rate is taken against the newest row any worker stored, in a file
  that may be locked or lost, by tasks that may be killed between reading and
  storing. It is correct when no packet is counted twice, and when no sample
  is lost but for a failure or for the reasons named below.
- **Infrastructure plugins.** Services of one VIM fail one by one, and what is
  recorded or exported of a target stays until something replaces it. They are
  correct when a report ends up true.

The whole list, each at its line, is under `hazards` in `PROJECT.json`, with
the properties that would catch it.

## The models

Every model has one action per step that other processes, or a fault, can come
between: a call of the database, of the bus or of a target is one step. Faults
are counted in `faults`, which `MaxFaults` bounds. `AlarmServer`, `Evaluator`
and `Collector` count each kind by itself, and `Together` bounds which kinds
may meet in one behaviour. Both are constants without an upper limit, so what
is proved holds for any number and combination of faults. A call of the
database or of the bus that raises has taken effect or has not: both are
outcomes of the model.

Operators marked "Mutant" are slips the code might have made. No behaviour uses
them; each breaks the property it is listed with in `PROJECT.json`, which shows
that the property says something about the code.

### AlarmServer, AlarmStore

`AlarmServer` is `server/server.py`, `server/service.py` and the alarm
operations of `core/common_db.py`.

| model | code |
|---|---|
| `requests`, `committed`, `position` | topic `alarm_request`, the offset of the consumer group, the position of the consumer |
| `pc`, `uuid`, `response` | where `_process_msg` is, and its locals |
| `alarms`, `alarmsAction`, `exporterJobs` | the collections, and the `mon_exporter` documents of `prometheus_jobs` |
| `replies` | the topics `alarm_response_<correlation_id>`, as one history |
| `Start` | `Server.__init__`, `run` and `populate_prometheus` |
| `LoseSubscription`, `Resubscribe` | the `while True` of `Server.start` |
| `ReadCreate`, `ReadIncompleteCreate`, `ReadDelete`, `ReadIgnored` | the branches of `_process_msg` up to the first call of the database |
| `CreateAction`, `CreateAlarm` | the two `create` of `CommonDbClient.create_alarm` |
| `DeleteAction`, `DeleteAlarm` | the two `del_one` of `CommonDbClient.delete_alarm`; each raises when it finds nothing |
| `Publish` | `_publish_response` |
| `Commit`, `Crash` | the auto-commit of aiokafka, and the death of the process |

A request is abstracted to its key and to where a missing field would raise:
nowhere (`good`), inside the inner `try` (`incomplete`) or outside of it
(`broken`). `Commit` is enabled only while the coroutine waits, because the
calls of the database are synchronous and hold the event loop: this is what
`CommittedExecuted` rests on.

`AlarmStore` is the abstract specification: a set of alarms that changes
atomically, identifiers that are never used again, and answers that are true
when they are given. `AlarmServer!AbstractSpec` instantiates it with a
refinement mapping: the documents of `alarms` are the store.

### Evaluator

`Evaluator` is `evaluator/evaluator.py`, `evaluator/service.py` and the
Prometheus backend. A *job* is one evaluation of one alarm. It lives in two
processes: `query` and `put` in the worker, `queued` in the queue, `publish`,
`read` and `write` in the notifier.

| model | code |
|---|---|
| `alarms`, `metric` | collection `alarms`, and on which side of the threshold the TSDB has each metric |
| `Snapshot` | `get_alarms` and the forks of `evaluate_alarms`; `from_dict` raises on an unreadable threshold |
| `JoinWorkers`, `JoinNotifiers` | the two loops of `process.join(timeout=10)`: all awaited processes are over, or a timeout strikes |
| `Drain` | the `while not self.queue.empty()` of the service and the forks of `Evaluator.evaluate` |
| `Query`, `Put` | `_evaluate_metric` in the worker, before and after `queue.put` |
| `Publish`, `Read`, `Write` | `notify_alarm` and `update_alarm_status` in the notifier |
| `Create`, `Delete` | MON Server, in the same collection (its faults are `AlarmServer`'s subject) |
| `Disable`, `Enable`, `Sample` | whoever sets the status `disabled` and back, and the TSDB |

`job[j].muted` is the copy of the status that the worker was forked with: an
alarm that is disabled later is judged and notified all the same. `late` counts
these notifications while the alarm stays disabled.
`Slot` bounds how many jobs of one alarm are alive together. The run has a
slot for each fault that leaves a process behind and one for the present pass,
so that the guard never binds (`OutstandingBounded` shows it).
The queue is unbounded and its order is abstracted. A worker whose alarm does
not fit into the pipe ends only when the queue is read, after its join has
given up: it is one more reason for a timeout.

### Collector

`Collector` is `collector/collector.py` and `collector/service.py`. A task is
what is submitted to the pool: `vim` and `vca` for a VNF, `infra` for a VIM,
`sdnc` for a controller. What a plugin computes is abstracted to how its task
ends: with metrics, with nothing, with keystone's connection error (`refused`),
with any other exception (`raised`), or not at all.

| model | code |
|---|---|
| `vimState`, `vnfState`, `health` | the accounts and records in the database, and what becomes of a call to a target |
| `sessions` | the keys of `vim_sess_map` |
| `queue`, `running`, `ended` | the pool of the cycle: tasks no worker took, tasks in a worker, futures that were not taken |
| `metrics`, `exported` | the list `collect_metrics` builds, and `CustomCollector.metrics` of the exporter |
| `ListVnfs`, `ListVims`, `OpenSession`, `StartPool` | `collect_metrics` up to the `with` block |
| `SubmitVnf`, `SubmitInfra` | the three loops of `executor.submit` |
| `Take`, `Complete`, `Deadline` | the loop over `as_completed`, its end, and its `TimeoutError`; both ends go through `_stop_process_pool` and the export |
| `Unwind` | an exception that leaves the `with` block, whose exit waits for every task |
| `StartTask`, `EndTask`, `KillWorker` | the workers: `_collect_vim_metrics`, `_collect_vca_metrics`, `_collect_vim_infra_metrics`, `_collect_sdnc_infra_metrics`; a worker that dies breaks the pool |
| `Register` ... `Recover`, `Crash` | the rest of OSM, the targets, and the container |

`Deadline` strikes freely when nothing can move without it — every worker hung,
no result left to take — and otherwise only as a fault: tasks that end in time
end before it. `Ailment` says which target can fail in which way: keystone is
called with a timeout and so refuses or raises, the VCA may raise or hang, the
calls to vCD and ONOS have no timeout and what they raise is caught.

### Dashboards

`Dashboards` is `create_dashboards` of `dashboarder/service.py`, the calls of
`dashboarder/backends/grafana.py` it makes, and the part of the consumer that
interferes with it: the deletion of a project's folder and team. The consumer
runs in a thread of its own (`cmd/mon_dashboarder.py`), and each request to
Grafana is a step of its own.

| model | code |
|---|---|
| `osm`, `events` | the projects, clusters and NSs in OSM, and what the consumer has still to do for a deleted project |
| `place`, `folders`, `datasources` | Grafana: the folder of each dashboard, the folders, the data sources of clusters |
| `dashboardUids`, `datasourceNames`, `projects`, `osmResourceUids`, `osmDatasourceNames`, `projectName` | the locals of that name; the first two lose what the cleanup has dealt with |
| `todo`, `clusters`, `project` | the rest of the outer and of the inner loop, and the project of the outer one |
| `subject`, `folderId` | the arguments and locals of `create_dashboard` |
| `ListGrafana` | `get_all_dashboard_uids` and `get_all_datasource_names`; `grafana_cleanup` before them may raise |
| `ListProjects`, `ListProjectsFails` | keystone's exceptions are swallowed, those of the database leave the pass |
| `VisitProject`, `CreateFolder`, `ListClusters`, `VisitCluster` | the loop over projects and the loop over clusters in it |
| `LookUpFolder`, `PostDashboard` | `create_dashboard`: the folder by its name, the post, the conflict of names |
| `ListNss`, `VisitNs` | the loop over NSs, with the project name that is left over when a project is not found |
| `DeleteDashboard`, `DeleteDatasource`, `EndPass` | the cleanup |
| `DeleteFolder`, `DeleteTeam` | `delete_grafana_team` in the consumer |
| `Appear`, `Vanish`, `Crash` | the rest of OSM, and the container; a restarted consumer hears again of any deleted project |

`faults` is here the sequence of the kinds that struck and `MaxFaults` their
number, whatever the kinds. Order inside a loop is free, which the list of a
database leaves open. Resources of one kind that exist together have different
names, as OSM requires, but names are used again, and a project, a cluster and
an NS may share one. Every cluster and NS has a first project in
`projects_read`; the VNFDs of an NS are abstracted to whether one declares a
monitoring parameter (`Monitored`). Permissions of folders and the renaming of a
project are left out; users and teams are the next module.

### GrafanaTeams

`GrafanaTeams` is `dashboarder/dashboarder.py`, and what it calls of
`service.py` and `grafana.py`: users, teams and their members, by the events of
two topics, next to `delete_non_existing_users` in the loop.

| model | code |
|---|---|
| `keystone`, `user`, `project`, `mapping` | who manages identities, and the users, projects and mappings of OSM |
| `topic`, `handled`, `committed` | the topics `users` and `project`, and the consumer's place in each |
| `users`, `teams`, `members` | Grafana |
| `pc`, `projList`, `todo`, `teamName`, `teamList` | where `_user_msg` is, and its locals |
| `cleanup`, `listed` | where `delete_non_existing_users` is, and its lists |
| `HandleTeam` | the branches of `_user_msg` for projects: create, rename, delete a team |
| `CreateGrafanaUser`, `DeleteGrafanaUser`, `RemoveMembers` | the events `created`, `deleted` and a removed mapping |
| `Resolve`, `LookUp`, `Join` | the projects of the user, and the two halves of `create_grafana_teams_members` for each mapping |
| `ListUsers`, `ListGrafanaUsers`, `DeleteObsolete`, `EndCleanup` | `delete_non_existing_users`, with keystone only |
| `CreateUser` ... `DeleteProject` | NBI, which sends the events in the forms the comments of `_user_msg` describe |
| `LoseSubscription`, `Crash` | both read again some of what was handled |

An event may name a project by its id or by its name (`byName`), and what is
looked up is as new as the look-up. The role of a user in the organisation and
the permissions of folders are left out: nothing reads them back. The
properties state as exceptions what the code does not repair:

- a team whose project was renamed or deleted, or whose name was used again,
  while events that tell of the old name are still to be read (`changed`);
- a user an event of which was cut short, by a failure, by a mapping that has
  no team, or by an event that is delivered twice (`lost`);
- a user whom the cleanup deleted between two lists, or two events;
- with keystone, a user without an id in the event makes the look-up list all
  projects, so that the memberships of others stay.

Three things are narrower than the code. Events `edited` that carry all mappings
of the user, or only its name, or no mappings at all (dashboarder.py:116-119)
are left out (`SendUser`); the last raise `KeyError` and would be cut short. A
removed mapping names its project by name (`EditUser`): grafana.py:443 takes it
for the name of a team, so that an id would raise `IndexError` and be cut short
too. And the loop over dashboards also creates a team where it creates a folder
(grafana.py:347-348): `Next` has only those that the events create, and their
members.

### OpenstackVnf

`OpenstackVnf` is `vnf_collectors/openstack.py` with `core/sql_work.py`: the
tasks of all VNFs side by side, over the cycles that the deadline may cut.

| model | code |
|---|---|
| `record`, `copy` | the vdurs in the database, and in the copy a task was given |
| `counter`, `clock` | the VIM's counters, and `time.time()` |
| `table`, `rows` | `rate.db`: whether its table is there, and the newest rows of each VDU |
| `account`, `backend` | what the VIM offers, and the choice of `_get_backend` |
| `Mapped`, `PrometheusMap` | `METRIC_MAPPINGS`, and the mapping in a VIM account with a Prometheus; which of the two is asked depends on the backend (`Names`) |
| `pc`, `at`, `value`, `row`, `metrics` | where `collect` is, and its locals |
| `FindResource` | the look-up of the resource: `get_vdur` reads every vdur before the one it seeks, and `vim-id` unguarded |
| `Ask` | `collect_metric` of the backend, for Prometheus, Gnocchi of two generations and Ceilometer |
| `Select`, `Create`, `Insert` | `sql_select` with its `CREATE TABLE`, and `sql_insert` |
| `Deadline`, `EndCycle`, `Crash` | the end of a cycle in `CollectorService`, and the loss of the file with the container |

The two calls of `time.time()` for one rate are taken as one, and the
interfaces of a VDU are read at one moment. A vdur that vanishes from the
record between the two look-ups is among the faults; one whose VDU is missing
altogether is left out. The arithmetic of `cpu` is not modelled, but that its
fallback yields nothing is. What the properties leave room for:

- the first sample of a VDU is exported as it is, as a counter, whatever
  interval the comment at line 185 has in mind (`RawOnlyAtFirst`);
- older VIMs deliver a rate, and a rate of it is taken all the same; of `cpu`
  they deliver nothing;
- Prometheus delivers text: the subtraction at line 205 raises wherever there is
  a row to compare with, and the task catches it. With nothing wrong, such a VIM
  has a sample of packets in the first cycle and loses the one of each later
  cycle. `AllSampled` says so of the VIM (`Given`), and owes no such sample;
- Ceilometer raises for all but the two metrics of an instance;
- a record without a name is left out by intent, and one that is not complete
  costs its own samples or, by a `KeyError`, the whole cycle: never the sample of
  another VDU of a cycle that is exported;
- counters that start again, or a sum that lacks an interface, give a negative
  rate, and one that is too high after it (`uneven`);
- two processes that find no table both create it, and the second loses its
  sample to a `TypeError` in its own `except`.

In the run each metric has a name; what a metric without one does to the cycle
is in `InfraStatus` (`Unmapped`).

### InfraStatus

`InfraStatus` is `infra_collectors/` with the exporter: the body of the tasks
that `Collector` models from the outside.

| model | code |
|---|---|
| `record`, `state` | the vdurs in the database, and the machines in their VIM |
| `answers`, `keystone`, `telemetry`, `limits` | the API of nova, vCD or ONOS, keystone, gnocchi with ceilometer, and the use of resources of a VIM |
| `account` | `resources` of the VIM accounts in the database |
| `vnfs`, `doomed` | the VNFs whose tasks have not ended, and whether one has raised |
| `task`, `metrics`, `exported` | the infrastructure tasks with their locals, the list `collect_metrics` builds, and what the exporter serves |
| `Begin`, `BeginFails` | `collect_metrics` up to the submission: keystone is asked for every VIM |
| `Construct`, `CheckVim` | the constructor, which copies the account, and `is_vim_ok` or `check_vim_status` |
| `CompareLimits`, `WriteLimits`, `WriteFails` | the three blocks of `update_resources`, and `set_vim_account`, which swallows what it raises |
| `ListVnfs`, `VisitMachine`, `Return` | the loop over vdurs, for nova (`AskNova`) and for vCD (`AskVcd`) |
| `CheckSdnc` | `OnosInfraCollector.collect` |
| `CollectVnf`, `VnfFails` | how the tasks of a VNF end: with metrics, or raising what abandons the cycle |
| `EndCycle`, `Handle` | the end of a cycle and `PrometheusBackend.handle` |
| `Scrape` | prometheus_client, which raises where a sample has no value |

Each machine is the vdur of a VNF of its own, and a vApp has one machine or
none. A vCD organisation without a VDC, which is reported as 0, is left out.
The tasks of VNFs run beside those of the infrastructure and are here because an
exception in one of them keeps the whole report from being exported. They must
raise where the VIM has no session (any type but `openstack`, see
`collector_vrops`), where neither gnocchi nor ceilometer answers, where the NS is
gone by now, and where a metric is asked for that has no name (`VnfRaises`,
openstack.py:144); they may where the record has not all it needs, as `vim-id`
(openstack.py:116), which depends on how far it is filled in (`VnfMayRaise`).
`Reportable` names what keeps reports from being exported for as long as it
lasts: `StatusFollows` promises nothing while it does, and everything after.

## The runs

| run | instance | what it shows |
|---|---|---|
| `server_faults` | 3 requests; any two kinds of fault, each once | types; a client can rely on a positive answer (`AcknowledgedStored`, `DeletedForGood`); the collections disagree only where a request was cut short (`StoresAgree`); alarms nobody was told of are bounded by the faults (`GhostsBounded`); at most once per start (`OncePerStart`); order (`RepliesInOrder`); no committed creation is lost (`CommittedExecuted`); the server implements `AlarmStore` (`AbstractSpec`); every well-formed request is answered (`Answered`), and nothing wedges the consumer (`CatchesUp`) |
| `server_delete_performed` | 2 requests, a crash | *violated*: see [Findings](#findings) |
| `evaluator_faults` | 1 alarm, 3 jobs of it together; a timeout with a failed fork, a failed query or a crash, or database and bus together | notified before stored, a disabled alarm falls silent (`StaleVerdictsBounded`), deletion final, processes bounded by timeouts and failed forks; until something fails, the status between passes is the one last notified (`Agreement`); the status converges (`Converges`) |
| `evaluator_unreadable` | 2 alarms, the threshold of one is not a number | *violated* |
| `collector_faults` | an OpenStack and a VMware VIM, a VNF, a pool of 2; a sick target while the database fails or the container dies, or a worker killed and a deadline | sessions are in place, cycles are separate, exports are whole, and a healthy VNF is exported although another target hangs (`HealthyExported`) |
| `collector_cycles_end` | a VIM, a VNF, a controller; an ailment and a failure of the database | *violated* |
| `collector_vrops` | an OpenStack and a VIO VIM, a VNF on the latter; no faults | *violated* |
| `vnf` | two VNFs, one of a VDU with two interfaces, one of two VDUs; four kinds of VIM, records incomplete or filled in; three cycles with a newer gnocchi and two with the others, three ticks, one fault | no packet is counted twice (`CountedOnce`), a cycle without a failure has every sample its VIM owes, but for what the creation of the table costs (`AllSampled`), and a counter is exported raw only where there is nothing to compare it with (`RawOnlyAtFirst`) |
| `infra` | an OpenStack VIM without block storage and with two machines, one of them with a metric without a name; a vCD with one; an SDN controller; any two things change or fail | what is scraped (`StatusFollows`) and recorded (`ResourcesFollow`) ends up as the VIMs are |
| `dashboards` | the project "x" with an NS, and `admin` with another NS and a cluster named "x"; one failure of the database or of Grafana, or one crash | nothing in use is deleted (`InUseKept`), no more dashboards are in the folder of another project than the database failed (`InOwnFolder`), a cluster's dashboard has its source (`SourceFirst`), and Grafana ends up with what OSM has (`Mirrors`) |
| `teams` | a user, two projects, three names, three events, one fault; with and without keystone | users are in the teams of their projects (`TeamsMirrored`), no event is cut short without a cause (`EventsApplied`), the cleanup spares users it could know of (`CleanupSpares`), and users that are gone leave Grafana (`GoneUsersRemoved`) |
| `dashboards_keystone` | two projects in keystone, an NS; one failure of keystone | *violated* |

The instances are the smallest in which the interesting cases meet:

- Three requests are a creation, a deletion of what it created, and a third
  that meets either again; a crash after the second re-reads both. The bound
  on identifiers never binds (`UuidsSuffice` in `MCAlarmServer`).
- The alarms of the evaluator do not influence one another but through the
  loop that serves all of them, so one alarm with several live jobs shows the
  races of late processes, and two alarms show what one does to the other.
  Three jobs are one for each of the two faults that leave a process behind
  (a timeout, a failed fork) and one of the present pass.
- In the collector two VIMs of different types are needed for a session map
  that is not full, and two workers for one that hangs and one that works.
- Two projects are needed for a name left over from the wrong one, and one of
  them is `admin`, which the code treats apart. Its cluster is named like the
  other project. All but the cluster are there at the start (`MCSpec`): the
  cluster appears, and everything vanishes, at any point of a pass, also an NS
  together with its project, and meets at most one fault, of any kind and at any
  call. Of the dashboards in a foreign folder that `InOwnFolder` allows for,
  each kind is met: the cluster in the folder of its namesake, the NS gone with
  its project, and the NS whose project a failing database did not find.
- In `vnf` a rate that is wrong shows in the third cycle, after a row too many
  or too few in the second, and a text in the second. The VNF of two VDUs is the
  one where an incomplete record may come before another. Only one VDU has
  traffic: rows are kept per VDU, and the others compete for the table and the
  file.
- In `teams` three events are a creation, a change of mapping and a change of a
  project, in any order; the project `admin`, a name that two projects have
  one after the other, and an event without a user id are among them.
- In `infra` two events make a machine vanish while a limit changes, a service
  fail and recover, or a cycle be cut short with either. At the start one
  machine is there at most (`MCSpec`); another may come, raise, and go again.
  Two machines on the OpenStack VIM, of which one keeps the other from being
  reported, and one on the vCD, which has no session for VNFs, are those whose
  reports end up true only when others vanish. A machine on a vCD gets into a
  report only when it comes after the cycle has listed the VNFs. That an empty
  vApp repeats the sample of another one is not in the run, as it takes two
  machines on a vCD; `ReportedOnce` covers it.
- No run needs symmetry. No fault strikes twice in a run (but in `infra`): that
  two failures of the same kind do not add up to more than one is shown only
  where a theorem covers the property, because the theorems bound no fault.

## Fairness and deadlock

`Spec` has no fairness; the runs with a liveness property use `FairSpec`, and
`dashboards` and `infra` use `MCSpec`, the same with fewer initial states.

- Server: weak fairness of the handler (asyncio runs a coroutine that can
  run), of `Start` (the container is restarted) and of `Resubscribe` (the
  `while True` of `Server.start`). None of the clients, of `Commit` or of the
  faults.
- Evaluator: weak fairness of the loop and of each job: the operating system
  schedules every process, and the query, the bus and the database calls
  return. A call that never returns is what the timeouts stand for; it is not
  assumed that joins succeed. `Sample`, `Create`, `Delete`, `Disable` and
  `Enable` are not fair.
- Collector: weak fairness of the loop, of `StartTask` and of each `EndTask`.
  `EndTask` is disabled while its target hangs, so nothing is assumed of a
  hung call. `Recover` is not fair: a target may be sick for ever.
- Dashboarder: weak fairness of the loop, which catches every exception and
  starts again, and of the consumer for each project. Requests return; `Appear`,
  `Vanish` and the faults are not fair.

- Grafana's users and teams: weak fairness of the consumer and of the loop,
  each as a whole: they are two threads that never end. Events and faults are
  not fair.
- Infrastructure: weak fairness of the start and the end of a cycle, of each
  infrastructure task, and of the tasks of the VNFs. nova and keystone are called
  with a timeout; that vCD or ONOS may hang is in `Collector`.

`StatusFollows` and `ResourcesFollow` are of the form "from some moment on": the
bound on events brings the world to rest, whatever state it is then in, and the
code has to catch up with it.

Deadlock is checked but in the runs that end by their bounds: in those of the
server the clients stop sending after `MaxRequests`, in `teams` OSM stops
changing and nothing else may be left to do, and in `vnf` the cycles are
bounded.

## The proofs

Eight modules hold the theorems: `AlarmServer_proofs`,
`AlarmServerFaults_proofs` (what the faults of the server may cost),
`Evaluator_proofs`, `Collector_proofs`, `Dashboards_proofs`,
`GrafanaTeams_proofs`, `OpenstackVnf_proofs` and `InfraStatus_proofs`. What
each theorem establishes is in `PROJECT.json`. They bound no fault, event or
request: the constants that do are any naturals. They assume nothing but the
named assumptions of the models, which TLC evaluates in every run:

- the bounds are naturals (`BoundsAssumption`, `BoundAssumption`,
  `FaultsAssumption`, `TogetherAssumption`), and the pool has a worker
  (`PoolAssumption`);
- operations, types, places and names are what the code knows
  (`OperationAssumption`, `UnreadableAssumption`, `VimTypeAssumption`,
  `VimOfAssumption`, `TypeAssumption`, `HostAssumption`, `ResourcesAssumption`,
  `UnmappedAssumption`, `AccountAssumption`, `MappedAssumption`,
  `MonitoredAssumption`, `KeystoneAssumption`, `NameAssumption`), and there is
  at least one amount of resources that may be in use (`LimitAssumption`);
- VIMs, VNFs and controllers, VDUs and their interfaces are finite in number
  (`FinitenessAssumption`, `FiniteAssumption`);
- projects, clusters and NSs are different things with a name, and all but
  projects have a project (`KindsAssumption`, `NameOfAssumption`,
  `ProjectOfAssumption`); projects which exist at first have names of the set
  of names (`InitialNamesAssumption`);
- VNFs have their VDUs for themselves, and VDUs their interfaces
  (`VnfAssumption`).

**AlarmServer.** `TypeCorrect` needs one fact besides `TypeOK`: whoever creates
has drawn an identifier. `AcknowledgedAlarmsStored`, `DeletionsFinal` and
`CollectionsAgree` come from one inductive invariant, `IInv`. The properties
alone are not inductive because they speak of answers already given, while what
makes an answer true happened two steps before: `Pending` says what the
response about to be published says of the store, `ActionFirst` and
`ActionGone` what the first of two writes has left behind, and `Creating`
with `OnlyDrawnUuids` that no one can ask for the deletion of an alarm
that is just being created, because its identifier is in no answer, no request
and no collection. `NoCreationLost` adds `ReadExecuted`: whatever was read, and
not only what was committed, has been executed unless it is in hand.
`ServerImplementsStore` is the refinement: every step of the server is a step
of `AlarmStore` or leaves its variables alone. It holds for any number of
requests, identifiers and faults.

`GhostsFromFaults` proves `GhostsBounded` with cardinalities. What it counts,
`Unknown`, is not the set of the property: while a response is on its way the
property excuses whatever alarm it is about, so that the set would grow when a
negative response is sent, in a step with no fault. `Unknown` excuses only the
alarm that a positive response names (`Naming`); it grows only with a fault, by
one, and contains the ghosts. `ExecutedOncePerStart` rests on `OnceInv`: what
was drawn for a request, or answered to it, plus one where the consumer may
still come to it (`MayRead`, `MayAnswer`), is at most the number of starts. The
consumer comes to a request again only by a restart, which raises both sides.
`AnsweredInOrder` needs of the same the part without restarts: answers lie
behind the position of the consumer, and the request in hand is at it.

**Evaluator.** `NotifiedBeforeStored` and `DeletedStayDeleted` follow from
`IInv`, which adds `WriterPublished`: a notifier about to store a verdict has
published it. `PassesAgree` is the
harder one. Its invariant, `PassInv`, holds while no fault has struck:
`PassShape` says where jobs can be at each place of the loop, `OneJobEach` that
an alarm then has at most one, `Unborn` and `NeverDisabled` what is known of
alarms not created or never disabled, `WriterLast` that whoever is about to
store stores what was published last, and `SettledOrWriting` that status and
notification differ only while a notifier stands between its two calls.
`ProcessesBounded` counts the processes of an alarm (`PileInv`). Those the loop
still waits for, or is about to take a verdict of, are of the pass; all others
were left behind (`Behind`), one for each timeout or failed fork, and a pass
begins only when no process is of one (`AwaitedShape`). That is why faults add
up, but passes do not. `DisabledSoonQuiet` (`StaleVerdictsBounded`) rests on
that number. While an alarm is disabled, the evaluations that may still notify
it are those that were forked before (`Loud`); each does so once, and then is not
one of them, so that what was notified and what may yet be are together as many
as there were processes (`LateInv`).

**Collector.** `CyclesSeparate` is inductive with `TypeOK`. `SessionsFound`
needs `SessionsInv`: a VNF is listed when its VIM is registered, and VIMs are
listed later, so that the second list misses only VIMs that are gone again;
what is listed and not yet in the map is still in `todo`. `AllOrNothing` proves
`WholeOrNothing` with `WholeInv`: while no target is sick, each task ends as its
type has it (`EndingsInv`), and the queue, the workers and what is over hold
exactly the tasks submitted and not taken (`TasksInv`), so that when nothing is
left the metrics are those of all tasks of the lists.

**Dashboards.** `DashboardsInOwnFolder` is proved for any names, equal or not.
It counts, in any of these folders and of resources in OSM or gone, the
dashboards that are in another project's or on their way to it (`Strays`), and
shows that each is paid for by a failure of the database (`Bounded`). A name on
its way is an own one for a cluster, because the inner loop visits clusters of
the project of the outer one (`ClustersOfProject`), and for an NS whose project
is found. `Housed` is why a project that is not found without a failure is
gone, and its NS with it; `Founded` and `AbsentUnseen` keep what is created
later from inheriting a place, or from being taken for gone.
`ClustersHaveSources` (`SourceFirst`) needs `SourceInv`, which says that a
dashboard the pass has not met was in its list, because dashboards are deleted
before data sources. `DashboardsInUseKept` (`InUseKept`) is the longest: it has
to show that whatever had a dashboard at the start of a pass and is in OSM now
is met by the walk. `WalkInv` describes the walk, fault or not, and `MetInv`,
which a failing keystone breaks, that projects are met when they are listed, a
cluster with the first project at the latest (its own is in the list), and an
NS at the end.

**GrafanaTeams.** `TypeCorrect` adds to `TypeOK` what makes the handler's look
at the topic one at an event (`InHand`), a team that is joined one with a name
(`Named`), and the names in events names of projects that exist
(`MappingsExist`). `UsersSpared` proves `CleanupSpares` with `SpareInv`, which
says for each place of the cleanup what the lists it has read are still worth:
whoever is in keystone was in its list or is a newcomer, and, once the list of
Grafana is cut down, who is left on it is not in keystone or is a newcomer.

`MappingsMirrored` proves `TeamsMirrored`, about what is handled, by looking at
the whole log, because a redelivery may go back to any event of it. `LogInv`
says what a log can be: each mapping that holds has an event with the last word
for it (`Granted`), and each that does not hold and ever did one against it
(`Revoked`). `MirrorInv` then says that where a user and a team differ from the
mapping, the event with the last word is still to come, or in hand and not at
this team yet. `GrafanaInv` is what the handler relies on between its calls:
`StillMember` that the list of teams it got is not outdated by what it did
itself, `TeamMeant` that the team to join is one of the event. The case that
made the invariant hard is its third part: an event older than a mapping takes
the user out of a team that is its own, and a later event puts it back.
`NothingCutShort` (`EventsApplied`) needs to know that a user whose event is
handled is in Grafana: with no fault, it is from the moment the event of its
creation is read (`CreationsApplied`).

**OpenstackVnf.** `RawIsFirst` proves `RawOnlyAtFirst`. Its invariant, `RawInv`,
speaks of each task (`RowOf`): before the selection it has no row in hand, and
between selection and insertion it has one of the newest rows of its VDU, or the
table has none of it. The first keeps the row of the metric before from
being used again; the second holds through the steps of other tasks because no
other task is at the same VDU (`VdusApart`), and through the creation of the
table because a missing table has no rows (`NoTableNoRows`).

The other properties speak of sums of packets over sets of interfaces and
samples, which the model takes with a fold of the community modules. A fold is
the choice of a function with a recursive equation, and the induction theorem
for finite sets takes an operator, which the provers cannot instantiate. In
place of an induction stands a smallest counterexample (`SmallestSet`, from
`FS_StrictSubsetOrderingWellFounded`), which is stated for sets and needs no
operator. With it a function of that equation exists and is unique, so that the
equation holds of the sum (`SumEquations`); sums are integers, grow with their
terms, and split (`SumWithout`, `SumOfPart`). `TypeCorrect` needs them because
rates are added up.

`NothingCountedTwice` (`CountedOnce`) has the chain `Growing`: the rates told of
a VDU are at most what each of the newest rows has, and each row at most what
passed through the interfaces; a number that a task has in hand lies between
(`ValueBetween`), because no other task is at the VDU. An insertion then adds
at most the difference. The rows need not be one: two of the same time are
both below the number in hand.

`NoSampleLost` (`AllSampled`) counts by places. `SamplesOf` says that a task
loses at most one sample, none while the table is not there, and none in a cycle
that found it; `SampledInv` that when the table is there, some task, its creator,
has lost none (`Whole`). That the table is there after the first cycle, if all
records are complete, needs that a task that gets to its end without a table
would have owed nothing of it. For a Prometheus `FirstRows` says that in the
first cycle a VDU has a row only with its sample, so that no text is subtracted.
That the places of a task come one after the other needs that some number of a
set is the least, which again is a smallest counterexample.

**InfraStatus.** `TypeCorrect` adds to the types how far a task is (`Stage`):
it writes limits only of one of the three kinds. It also shows that
`vm_status_metric` is never reported before it is set. `ReportedOnce` is about
what is exported, and no run checks it on its own (`StatusFollows` does at
rest): no VIM, controller or machine is reported with two values, not even
where a vApp that is empty repeats a sample. `SampleInv` says whose samples a
task has (`OwnerOf`), that a machine still to visit has none (`Taken`), and that
what the cycle has gathered is of tasks that are done; they cannot take it
again.

Only model-checked are the liveness properties: `Answered`, `CatchesUp`,
`Converges`, `HealthyExported`, `Mirrors`, `GoneUsersRemoved`, `StatusFollows`
and `ResourcesFollow`. They rest on fairness and `ENABLED`, which the provers
cannot reason about. Every other property of a passing run is a theorem.

## Findings

- **A deletion that cannot be repeated** (`server_delete_performed`). A crash
  between the two removals of `delete_alarm` leaves the document in `alarms`.
  The redelivered request finds no action to remove, raises, and is refused, as
  is every later one: the alarm is evaluated for ever.
- **One unreadable threshold stops the evaluation** (`evaluator_unreadable`).
  The server stores `threshold_value` as it comes; `Alarm.from_dict` applies
  `float()` when the evaluator lists the alarms. One that is not a number makes
  the list fail, in every pass, for all alarms.
- **The deadline does not bound a cycle** (`collector_cycles_end`). It covers
  the taking of results. Any exception but keystone's connection error leaves
  the block of the pool, whose exit waits for every submitted task: one hung
  call then stops the collector.
- **vROPS VIMs are not collected** (`collector_vrops`). Sessions are stored for
  `openstack` only, and looked up for every type: a VNF on a VIO or vCD VIM
  raises `KeyError` in its task and abandons the cycle of all.
- **A failure of keystone empties Grafana** (`dashboards_keystone`). When the
  projects cannot be listed the pass goes on without any, and its cleanup
  deletes the dashboards of every project and cluster. A keystone that is down
  for good is noticed by the cleanup of users before, which skips the pass; one
  that fails between the two calls, or for projects only, is not.

Some smaller things are not promised by any document, and are therefore stated
as exceptions in the properties. A name conflict of anything called `admin`
deletes the dashboard of the project `admin` (`InUseKept`). Dashboards get into
the folder of another project (`InOwnFolder`) where a cluster of `admin` has the
name of that project, where an NS is gone with its own project before it is
visited, and where the database fails to find the project, in the last two by the
name that is left over from an earlier NS. With keystone, the name of an
earlier project is also used for an NS whose project was created after the
projects were listed. A Prometheus VIM loses its samples of packets after the
first cycle (`AllSampled`).

## What is not modelled

- The arithmetic of metrics: which sample of a series Gnocchi or Ceilometer
  returns, and how `cpu` is derived from times.
- The VIO, vCD and vROPS plugins for VNFs. Their tasks never get beyond the
  look-up of the session (`collector_vrops`), so nothing they do can happen in
  the services as they are.
- The body of the Juju plugin. It keeps no state and reads one record; how its
  task may end is in `Collector`.
- The roles and permissions the dashboarder sets in Grafana, and the forms of
  events that [GrafanaTeams](#grafanateams) leaves out.
- The capacity of the evaluator's queue.
- Configuration, start-up waits, the health probe and logging: sequential I/O
  that no property is about.
- The copy of a gnocchiclient module at the root of the repository
  (`metric.py`), which is third-party code.

## The plan

Done, in this order: `AlarmServer` with `AlarmStore`, `Evaluator`, `Collector`,
`Dashboards`, `GrafanaTeams`, `OpenstackVnf` and `InfraStatus`, and theorems for
every safety and action property that the runs check. What would add most next:

- the safety half of the liveness properties: that what must go on is never in a
  state from which it cannot (that the server's handler, the evaluator's loop
  and the pool of the collector are not stuck without a fault);
- a composition of `AlarmServer` and `Evaluator` on the collection `alarms`: an
  acknowledged alarm is evaluated until its deletion.

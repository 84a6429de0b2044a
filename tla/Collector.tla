----------------------------- MODULE Collector -----------------------------
(***************************************************************************)
(* MON Collector: the loop that collects the metrics of all VNFs, VIMs and *)
(* SDN controllers and hands them to the Prometheus exporter               *)
(* (osm_mon/collector/collector.py and service.py).                        *)
(*                                                                         *)
(* A cycle lists the VNFs, lists the VIMs and opens a session with each,   *)
(* and submits one task per target to a pool of processes made for the     *)
(* cycle; then it takes the results as they come, up to a deadline.  What  *)
(* a task raises is raised again where its result is taken: a connection   *)
(* error of keystone is swallowed, the deadline stops the pool, anything   *)
(* else abandons the cycle, and leaving the block of the pool then waits   *)
(* for every task that is left.  Meanwhile VNFs and VIMs come and go, and  *)
(* what MON talks to fails and recovers.                                   *)
(***************************************************************************)
EXTENDS Naturals, FiniteSets, Sequences, SequencesExt

CONSTANTS
  Vim, Vnf, Sdnc,  \* all that will ever be registered or deployed
  VimType,         \* the type of each VIM, as _get_vim_type reads it
  VimOf,           \* the VIM each VNF is deployed on
  PoolSize,        \* process_pool_size
  MaxFaults,       \* bound: how often each kind of fault strikes
  Together         \* bound: the sets of kinds of which all may strike in one behaviour

FaultKind == {"db", "ail", "kill", "deadline", "crash"}

ASSUME FinitenessAssumption == IsFiniteSet(Vim) /\ IsFiniteSet(Vnf) /\ IsFiniteSet(Sdnc)
ASSUME VimTypeAssumption == VimType \in [Vim -> {"openstack", "vio", "vmware", "other"}]
ASSUME VimOfAssumption == VimOf \in [Vnf -> Vim]
ASSUME PoolAssumption == PoolSize \in Nat \ {0}
ASSUME FaultsAssumption == MaxFaults \in [FaultKind -> Nat]
ASSUME TogetherAssumption == Together \subseteq SUBSET FaultKind

VARIABLES
  vimState,  \* the VIM accounts in the database
  vnfState,  \* the VNF records in the database
  health,    \* what becomes of a call to each target
  pc,        \* where the loop is
  vnfrs,     \* the VNFs listed by this cycle
  vims,      \* the VIMs listed by this cycle
  todo,      \* what the for loop at pc has still to visit
  sessions,  \* keys of vim_sess_map, as the workers inherit it
  queue,     \* submitted tasks that no worker has taken
  running,   \* tasks in a worker
  ended,     \* how the tasks whose result was not taken yet have ended
  metrics,   \* tasks whose metrics were taken
  exported,  \* tasks whose metrics the exporter serves
  faults     \* history: how often each kind of fault has struck

world == <<vimState, vnfState, health>>
listed == <<vnfrs, vims, todo, sessions>>
pool == <<queue, running, ended>>
vars == <<world, pc, listed, pool, metrics, exported, faults>>

Target == Vim \cup Vnf \cup Sdnc

\* A VNF has a task for its VIM and a task for its VCA.
Task ==
  ({"vim", "vca"} \X Vnf) \cup ({"infra"} \X Vim) \cup ({"sdnc"} \X Sdnc)

Lifetime == {"absent", "present", "gone"}

Registered == {v \in Vim : vimState[v] = "present"}
Deployed == {f \in Vnf : vnfState[f] = "present"}

\* The types whose infrastructure collector talks to keystone.
Keystone == {v \in Vim : VimType[v] \in {"openstack", "vio"}}
Openstack == {v \in Vim : VimType[v] = "openstack"}

\* keystone is called with a timeout of ten seconds, so it never hangs; the calls
\* of vCD and ONOS have none, and what they raise is caught; the VCA may do either.
Ailment(t) ==
  IF t \in Keystone THEN {"refused", "raises"}
  ELSE IF t \in Vnf THEN {"raises", "hangs"}
  ELSE IF t \in Vim /\ VimType[t] = "other" THEN {}
  ELSE {"hangs"}

PC == {"start", "list_vims", "sessions", "submit", "wait", "unwind"}

Ending == {"metrics", "nothing", "refused", "raised"}

TypeOK ==
  /\ vimState \in [Vim -> Lifetime]
  /\ vnfState \in [Vnf -> Lifetime]
  /\ health \in [Target -> {"ok", "refused", "raises", "hangs"}]
  /\ pc \in PC
  /\ vnfrs \subseteq Vnf
  /\ vims \subseteq Vim
  /\ todo \subseteq Vim \cup Vnf
  /\ sessions \subseteq Openstack
  /\ queue \in Seq(Task)
  /\ running \subseteq Task
  /\ ended \in [Task -> Ending \cup {"no"}]
  /\ metrics \subseteq Task
  /\ exported \subseteq Task
  /\ faults \in [FaultKind -> Nat]

NoEnding == [t \in Task |-> "no"]

Init ==
  /\ vimState = [v \in Vim |-> "absent"]
  /\ vnfState = [f \in Vnf |-> "absent"]
  /\ health = [t \in Target |-> "ok"]
  /\ pc = "start"
  /\ vnfrs = {} /\ vims = {} /\ todo = {} /\ sessions = {}
  /\ queue = <<>> /\ running = {} /\ ended = NoEnding
  /\ metrics = {}
  /\ exported = {}
  /\ faults = [k \in FaultKind |-> 0]

Strike(kind) ==
  /\ faults[kind] < MaxFaults[kind]
  /\ \E kinds \in Together :
       {k \in FaultKind : faults[k] > 0} \cup {kind} \subseteq kinds
  /\ faults' = [faults EXCEPT ![kind] = @ + 1]

-----------------------------------------------------------------------------
(* The world.  As elsewhere, an operator marked "Mutant" is used by no     *)
(* behaviour.                                                              *)

Register(v) ==
  /\ vimState[v] = "absent"
  /\ vimState' = [vimState EXCEPT ![v] = "present"]
  /\ UNCHANGED <<vnfState, health, pc, listed, pool, metrics, exported, faults>>

Deploy(f) ==
  /\ vnfState[f] = "absent"
  /\ VimOf[f] \in Registered
  /\ vnfState' = [vnfState EXCEPT ![f] = "present"]
  /\ UNCHANGED <<vimState, health, pc, listed, pool, metrics, exported, faults>>

Undeploy(f) ==
  /\ f \in Deployed
  /\ vnfState' = [vnfState EXCEPT ![f] = "gone"]
  /\ UNCHANGED <<vimState, health, pc, listed, pool, metrics, exported, faults>>

\* A VIM in use cannot be removed.
Deregister(v) ==
  /\ v \in Registered
  /\ \A f \in Deployed : VimOf[f] # v
  /\ vimState' = [vimState EXCEPT ![v] = "gone"]
  /\ UNCHANGED <<vnfState, health, pc, listed, pool, metrics, exported, faults>>

Ail(t) ==
  /\ health[t] = "ok"
  /\ Strike("ail")
  /\ \E a \in Ailment(t) : health' = [health EXCEPT ![t] = a]
  /\ UNCHANGED <<vimState, vnfState, pc, listed, pool, metrics, exported>>

Recover(t) ==
  /\ health[t] # "ok"
  /\ health' = [health EXCEPT ![t] = "ok"]
  /\ UNCHANGED <<vimState, vnfState, pc, listed, pool, metrics, exported, faults>>

-----------------------------------------------------------------------------
(* The loop.  A cycle that raises outside the block of the pool starts     *)
(* again at once.                                                          *)

ListVnfs ==
  /\ pc = "start"
  /\ \/ vnfrs' = Deployed /\ pc' = "list_vims" /\ UNCHANGED faults
     \/ Strike("db") /\ UNCHANGED <<vnfrs, pc>>
  /\ UNCHANGED <<world, vims, todo, sessions, pool, metrics, exported>>

\* The map is cleared before it is filled: it is shared by all cycles.
ListVims ==
  /\ pc = "list_vims"
  /\ sessions' = {}
  /\ metrics' = {}
  /\ \/ /\ vims' = Registered
        /\ todo' = Registered
        /\ pc' = "sessions"
        /\ UNCHANGED faults
     \/ Strike("db") /\ pc' = "start" /\ UNCHANGED <<vims, todo>>
  /\ UNCHANGED <<world, vnfrs, pool, exported>>

\* Mutant: the session of every VIM is put into the map, also where there is none.
OpenSessionAnyType(v) ==
  /\ pc = "sessions"
  /\ v \in todo
  /\ v \in Registered
  /\ v \in Keystone => health[v] = "ok"
  /\ sessions' = sessions \cup {v}
  /\ todo' = todo \ {v}
  /\ UNCHANGED <<world, pc, vnfrs, vims, pool, metrics, exported, faults>>

\* The account is read again, and the collector of a type that has keystone asks
\* it for the project.  Either raises here, where nobody catches it.
OpenSession(v) ==
  /\ pc = "sessions"
  /\ v \in todo
  /\ \/ /\ v \in Registered
        /\ v \in Keystone => health[v] = "ok"
        /\ sessions' = sessions \cup ({v} \cap Openstack)
        /\ todo' = todo \ {v}
        /\ UNCHANGED <<pc, faults>>
     \/ /\ v \notin Registered \/ (v \in Keystone /\ health[v] # "ok")
        /\ pc' = "start"
        /\ UNCHANGED <<todo, sessions, faults>>
     \/ Strike("db") /\ pc' = "start" /\ UNCHANGED <<todo, sessions>>
  /\ UNCHANGED <<world, vnfrs, vims, pool, metrics, exported>>

\* Mutant: the VNFs are listed after the map was filled.
StartPoolRelisting ==
  /\ pc = "sessions"
  /\ todo = {}
  /\ pc' = "submit"
  /\ vnfrs' = Deployed
  /\ todo' = Deployed
  /\ UNCHANGED <<world, vims, sessions, pool, metrics, exported, faults>>

StartPool ==
  /\ pc = "sessions"
  /\ todo = {}
  /\ pc' = "submit"
  /\ todo' = vnfrs
  /\ UNCHANGED <<world, vnfrs, vims, sessions, pool, metrics, exported, faults>>

\* get_vim_account_id reads the VNF again.
SubmitVnf(f) ==
  /\ pc = "submit"
  /\ f \in todo
  /\ \/ /\ f \in Deployed
        /\ queue' = queue \o << <<"vim", f>>, <<"vca", f>> >>
        /\ todo' = todo \ {f}
        /\ UNCHANGED <<pc, faults>>
     \/ f \notin Deployed /\ pc' = "unwind" /\ UNCHANGED <<queue, todo, faults>>
     \/ Strike("db") /\ pc' = "unwind" /\ UNCHANGED <<queue, todo>>
  /\ UNCHANGED <<world, vnfrs, vims, sessions, running, ended, metrics, exported>>

\* The order is that of the database.
SubmitInfra ==
  /\ pc = "submit"
  /\ todo = {}
  /\ \E infra \in SetToSeqs({"infra"} \X vims), sdnc \in SetToSeqs({"sdnc"} \X Sdnc) :
       \/ queue' = queue \o infra \o sdnc /\ pc' = "wait" /\ UNCHANGED faults
       \/ Strike("db") /\ queue' = queue \o infra /\ pc' = "unwind"
  /\ UNCHANGED <<world, listed, running, ended, metrics, exported>>

Over == {t \in Task : ended[t] # "no"}

\* Mutant: whatever a task raises is swallowed.
TakeSwallowing(t) ==
  /\ pc = "wait"
  /\ t \in Over
  /\ metrics' = IF ended[t] = "metrics" THEN metrics \cup {t} ELSE metrics
  /\ ended' = [ended EXCEPT ![t] = "no"]
  /\ UNCHANGED <<world, pc, listed, queue, running, exported, faults>>

\* as_completed yields a result: it is appended, swallowed or raised.
Take(t) ==
  /\ pc = "wait"
  /\ t \in Over
  /\ metrics' = IF ended[t] = "metrics" THEN metrics \cup {t} ELSE metrics
  /\ pc' = IF ended[t] = "raised" THEN "unwind" ELSE "wait"
  /\ ended' = [ended EXCEPT ![t] = "no"]
  /\ UNCHANGED <<world, listed, queue, running, exported, faults>>

\* Tasks a worker can take, and tasks a worker can end.
Startable == Cardinality(running) < PoolSize /\ queue # <<>>
Endable == {t \in running : health[t[2]] # "hangs" \/ t[1] = "vim"}

\* The pool is stopped, also when workers hang or tasks wait for them; the
\* exporter serves what was taken, and the loop sleeps and starts again.
Export ==
  /\ pc' = "start"
  /\ queue' = <<>>
  /\ running' = {}
  /\ ended' = NoEnding
  /\ exported' = metrics
  /\ UNCHANGED <<world, listed, metrics>>

Complete ==
  /\ pc = "wait"
  /\ queue = <<>> /\ running = {} /\ Over = {}
  /\ Export
  /\ UNCHANGED faults

\* Mutant: the pool is shut down without its processes being stopped.
DeadlineLeavingWorkers ==
  /\ pc = "wait"
  /\ queue # <<>> \/ running # {} \/ Over # {}
  /\ ~(Startable \/ Endable # {} \/ Over # {})
  /\ pc' = "start"
  /\ exported' = metrics
  /\ UNCHANGED <<world, listed, pool, metrics, faults>>

\* Mutant: as_completed is called without a timeout.
DeadlineNever ==
  /\ pc = "wait"
  /\ Strike("deadline")
  /\ Export

\* process_execution_timeout is over.  Tasks that end in time end before it,
\* but for as many cycles as faults allow.
Deadline ==
  /\ pc = "wait"
  /\ queue # <<>> \/ running # {} \/ Over # {}
  /\ \/ ~(Startable \/ Endable # {} \/ Over # {}) /\ UNCHANGED faults
     \/ Strike("deadline")
  /\ Export

\* An exception leaves the block of the pool, which waits for all tasks.
Unwind ==
  /\ pc = "unwind"
  /\ queue = <<>> /\ running = {}
  /\ pc' = "start"
  /\ ended' = NoEnding
  /\ UNCHANGED <<world, listed, queue, running, metrics, exported, faults>>

\* The container dies and is started again; the exporter starts empty.
Crash ==
  /\ Strike("crash")
  /\ pc' = "start"
  /\ vnfrs' = {} /\ vims' = {} /\ todo' = {} /\ sessions' = {}
  /\ queue' = <<>> /\ running' = {} /\ ended' = NoEnding
  /\ metrics' = {}
  /\ exported' = {}
  /\ UNCHANGED world

-----------------------------------------------------------------------------
(* The workers                                                             *)

StartTask ==
  /\ Startable
  /\ running' = running \cup {Head(queue)}
  /\ queue' = Tail(queue)
  /\ UNCHANGED <<world, pc, listed, ended, metrics, exported, faults>>

OfHealth(t) ==
  CASE health[t] = "ok" -> "metrics"
    [] health[t] = "refused" -> "refused"
    [] OTHER -> "raised"

\* _collect_vim_metrics: the session is looked up whatever the type.
VimEnding(f) ==
  LET v == VimOf[f] IN
  CASE v \notin Registered -> "raised"
    [] VimType[v] = "other" -> "nothing"
    [] v \notin sessions -> "raised"
    [] f \notin Deployed -> "raised"
    [] OTHER -> OfHealth(v)

VcaEnding(f) == IF f \in Deployed THEN OfHealth(f) ELSE "raised"

InfraEnding(v) ==
  CASE v \notin Registered -> "raised"
    [] VimType[v] = "other" -> "nothing"
    [] OTHER -> OfHealth(v)

EndingOf(t) ==
  CASE t[1] = "vim" -> VimEnding(t[2])
    [] t[1] = "vca" -> VcaEnding(t[2])
    [] t[1] = "infra" -> InfraEnding(t[2])
    [] OTHER -> "metrics"

EndTask(t) ==
  /\ t \in Endable
  /\ running' = running \ {t}
  /\ \/ ended' = [ended EXCEPT ![t] = EndingOf(t)] /\ UNCHANGED faults
     \/ Strike("db") /\ ended' = [ended EXCEPT ![t] = "raised"]
  /\ UNCHANGED <<world, pc, listed, queue, metrics, exported>>

\* A worker dies: the pool is broken, every task it still has raises, and so
\* does the next submit.
KillWorker ==
  /\ running # {}
  /\ Strike("kill")
  /\ ended' = [t \in Task |-> IF t \in running \cup ToSet(queue) THEN "raised"
                                                                  ELSE ended[t]]
  /\ running' = {}
  /\ queue' = <<>>
  /\ pc' = IF pc = "submit" THEN "unwind" ELSE pc
  /\ UNCHANGED <<world, listed, metrics, exported>>

Loop ==
  \/ ListVnfs
  \/ ListVims
  \/ \E v \in Vim : OpenSession(v)
  \/ StartPool
  \/ \E f \in Vnf : SubmitVnf(f)
  \/ SubmitInfra
  \/ \E t \in Task : Take(t)
  \/ Complete
  \/ Deadline
  \/ Unwind

Next ==
  \/ \E v \in Vim : Register(v) \/ Deregister(v)
  \/ \E f \in Vnf : Deploy(f) \/ Undeploy(f)
  \/ \E t \in Target : Ail(t) \/ Recover(t)
  \/ ListVnfs
  \/ ListVims
  \/ \E v \in Vim : OpenSession(v)
  \/ StartPool
  \/ \E f \in Vnf : SubmitVnf(f)
  \/ SubmitInfra
  \/ \E t \in Task : Take(t)
  \/ Complete
  \/ Deadline
  \/ Unwind
  \/ Crash
  \/ StartTask
  \/ \E t \in Task : EndTask(t)
  \/ KillWorker

Spec == Init /\ [][Next]_vars

\* The loop runs whenever it can, workers take what is queued, and a call that
\* does not hang returns.
FairSpec ==
  /\ Spec
  /\ WF_vars(Loop)
  /\ WF_vars(StartTask)
  /\ \A t \in Task : WF_vars(EndTask(t))

-----------------------------------------------------------------------------
(* Properties                                                              *)

\* A VNF on an OpenStack VIM finds the session of its VIM in the map, whatever is
\* registered, deployed and removed during the cycle: VNFs are listed before VIMs,
\* and the map is filled before the first task is submitted.
SessionsInPlace ==
  pc \in {"submit", "wait", "unwind"} =>
    \A f \in vnfrs : VimOf[f] \in Openstack \cap Registered => VimOf[f] \in sessions

\* No process and no result of one cycle is left when the next one begins: late
\* workers do not pile up, and no cycle takes what an earlier one collected.
NoStragglers ==
  pc \in {"start", "list_vims", "sessions"} =>
    queue = <<>> /\ running = {} /\ Over = {}

\* What a cycle over the VNFs of F and the VIMs of V has to export.
Expected(F, V) ==
  {<<"vim", f>> : f \in {g \in F : VimType[VimOf[g]] # "other"}}
    \cup ({"vca"} \X F)
    \cup {<<"infra", v>> : v \in {w \in V : VimType[w] # "other"}}
    \cup ({"sdnc"} \X Sdnc)

\* The exporter gets the metrics of all targets of a cycle or keeps those it has:
\* what a failing database, a dying worker or a target that is removed meanwhile
\* takes away never shows as a partial export.  (Unreachable targets and the
\* deadline are the two reasons for which the code does export less.)
WholeOrNothing ==
  [][exported' # exported /\ (\A k \in {"ail", "deadline", "crash"} : faults'[k] = 0)
       => exported' = Expected(vnfrs, vims)]_vars

Hanging == {t \in Registered \cup Deployed \cup Sdnc : health[t] = "hangs"}

Obstructed ==
  \/ \E t \in Target : health[t] \in {"refused", "raises"}
  \/ Cardinality(Hanging) >= PoolSize
  \/ \E f \in Deployed : VimType[VimOf[f]] \in {"vio", "vmware"}

\* A VNF on an OpenStack VIM that stays deployed ends up in what is exported, and
\* stays there, although fewer targets than the pool has workers hang for ever:
\* the deadline stops them in each cycle.  Not promised where another target
\* raises, nor where the loop waits for a hung worker after an exception.
HealthyExported ==
  \A f \in Vnf :
    VimOf[f] \in Openstack =>
      (<>[](f \in Deployed /\ ~Obstructed) /\ []<>(pc # "unwind")
         => <>[](<<"vim", f>> \in exported))

\* The comment at process_execution_timeout says that the calls are waited for
\* till then: every cycle ends and another begins, also when a call hangs.
CyclesEnd == []<>(pc = "start")

\* README.rst lists VIO and VCD among what the vROPS collector supports: a VNF
\* that stays deployed on one has its metrics exported.
VropsExported ==
  \A f \in Vnf :
    VimType[VimOf[f]] \in {"vio", "vmware"} =>
      (<>[](f \in Deployed) => <>(<<"vim", f>> \in exported))

=============================================================================

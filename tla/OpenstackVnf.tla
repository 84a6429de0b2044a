---------------------------- MODULE OpenstackVnf ----------------------------
(***************************************************************************)
(* The tasks that collect the metrics of VNFs from an OpenStack VIM        *)
(* (osm_mon/collector/vnf_collectors/openstack.py), which run in processes *)
(* of their own, and the table of the last packet counters they share      *)
(* (osm_mon/core/sql_work.py).                                             *)
(*                                                                         *)
(* The packet metrics are counters in the VIM and rates in OSM: a task     *)
(* takes the difference to the newest row of the table, and adds a row.    *)
(* The record of a VNF reaches a task in two ways: as a copy made when the *)
(* cycle began, and read anew for each metric.                             *)
(***************************************************************************)
EXTENDS Integers, SequencesExt

CONSTANTS
  Vnf, Vdu, Interface,
  VdursOf,       \* the vdurs of each VNF, in their order
  ParamsOf,      \* the monitoring parameters of each VDU, in their order
  InterfacesOf,  \* the interfaces of each VDU
  Account,       \* the VIMs there may be
  Mapped,        \* the metrics the code has a name for
  PrometheusMap, \* and those the account of a VIM with a Prometheus has one for
  Busy,          \* bound: the VDUs with traffic
  MaxClock, MaxFaults, \* bounds
  MaxCycles      \* bound: how many cycles begin with each VIM

Metric == {"packets", "dropped", "disk", "memory", "cpu"}

ASSUME VnfAssumption ==
  /\ VdursOf \in [Vnf -> Seq(Vdu)]
  /\ ParamsOf \in [Vdu -> Seq(Metric)]
  /\ InterfacesOf \in [Vdu -> SUBSET Interface]
  /\ \A m, n \in Vnf : m # n => ToSet(VdursOf[m]) \cap ToSet(VdursOf[n]) = {}
  /\ \A u, v \in Vdu : u # v => InterfacesOf[u] \cap InterfacesOf[v] = {}
ASSUME FiniteAssumption == IsFiniteSet(Vdu) /\ IsFiniteSet(Interface)
ASSUME AccountAssumption == Account \subseteq {"prometheus", "rocky", "older", "ceilometer"}
ASSUME MappedAssumption == Mapped \subseteq Metric /\ PrometheusMap \subseteq Metric
ASSUME BoundsAssumption ==
  Busy \subseteq Vdu /\ MaxClock \in Nat /\ MaxFaults \in Nat /\ MaxCycles \in [Account -> Nat]

VARIABLES
  account,   \* what the VIM is
  record,    \* the state of each vdur in the database
  counter,   \* the packets of each interface
  clock,     \* time.time()
  table,     \* whether rate.db has its table
  rows,      \* the rows of each VDU that are the newest: [time, value]
  copy,      \* the vdurs in the copies the tasks were given
  pc,        \* where each task is
  backend,   \* self.backend
  at,        \* the place of each task in its loops
  value,     \* value
  row,       \* row
  metrics,   \* metrics
  cycle,     \* bound: how many cycles began
  faults,    \* bound: how many faults struck, vdurs were incomplete, or were deleted
  counted,   \* history: the packets that all rates exported for a VDU tell of
  uneven,    \* history: VDUs of which less was read than before
  untroubled, \* history: nothing has failed yet and no vdur was deleted
  hadTable   \* history: whether the table was there when the cycle began

task == <<copy, pc, backend, at, value, row, metrics>>
store == <<table, rows>>
history == <<counted, uneven, untroubled, hadTable>>
vars == <<account, record, counter, clock, store, task, cycle, faults, history>>

\* What a task goes through, the vdurs in order, and for each its parameters: the
\* places in both loops.
Work(n) ==
  UNION {{<<i, k>> : k \in 1..Len(ParamsOf[VdursOf[n][i]])} : i \in 1..Len(VdursOf[n])}

VduOf(n, x) == VdursOf[n][x[1]]
VduAt(n) == VduOf(n, at[n])
MetricAt(n) == ParamsOf[VduAt(n)][at[n][2]]

\* Before the first place, and after the last.
Outside == <<0, 0>>

Precedes(x, y) == x[1] < y[1] \/ (x[1] = y[1] /\ x[2] < y[2])

\* The place after x.
Following(n, x) ==
  LET next == {y \in Work(n) : /\ Precedes(x, y)
                               /\ \A z \in Work(n) : Precedes(x, z) => ~Precedes(z, y)}
  IN  IF next = {} THEN Outside ELSE CHOOSE y \in next : TRUE

\* A number, the text Prometheus gives for a number, or no value.
Value == [form : {"number", "text"}, is : Nat] \cup {[form |-> "none", is |-> 0]}
None == [form |-> "none", is |-> 0]
Number(k) == [form |-> "number", is |-> k]
Row == [time : Nat, value : Nat]
Sample == [vdu : Vdu, metric : Metric, kind : {"raw", "rate", "value"}, delta : Int]

TypeOK ==
  /\ account \in Account
  /\ record \in [Vdu -> {"nameless", "named", "complete", "deleted"}]
  /\ copy \in [Vdu -> {"nameless", "named", "complete", "deleted"}]
  /\ counter \in [Interface -> Nat]
  /\ clock \in Nat
  /\ table \in BOOLEAN
  /\ rows \in [Vdu -> SUBSET Row] /\ (~table => \A v \in Vdu : rows[v] = {})
  /\ pc \in [Vnf -> {"idle", "find", "ask", "select", "create", "insert",
                     "returned", "raised", "killed"}]
  /\ backend \in [Vnf -> {"none", "prometheus", "gnocchi", "ceilometer"}]
  /\ \A n \in Vnf : at[n] \in Work(n) \cup {Outside}
  /\ value \in [Vnf -> Value]
  /\ row \in [Vnf -> SUBSET Row]
  /\ metrics \in [Vnf -> SUBSET Sample]
  /\ cycle \in 0..MaxCycles[account] /\ faults \in 0..MaxFaults
  /\ counted \in [Vdu -> Int]
  /\ uneven \subseteq Vdu
  /\ untroubled \in BOOLEAN /\ hadTable \in BOOLEAN

Init ==
  /\ account \in Account
  /\ record \in [Vdu -> {"nameless", "named", "complete"}]
  /\ copy = record
  /\ counter = [i \in Interface |-> 0]
  /\ clock = 0
  /\ table = FALSE /\ rows = [v \in Vdu |-> {}]
  /\ pc = [n \in Vnf |-> "idle"]
  /\ backend = [n \in Vnf |-> "none"]
  /\ at = [n \in Vnf |-> Outside]
  /\ value = [n \in Vnf |-> None] /\ row = [n \in Vnf |-> {}]
  /\ metrics = [n \in Vnf |-> {}]
  /\ cycle = 0
  /\ faults = Cardinality({v \in Vdu : record[v] # "complete"}) /\ faults <= MaxFaults
  /\ counted = [v \in Vdu |-> 0] /\ uneven = {}
  /\ untroubled = TRUE /\ hadTable = FALSE

Strike == faults < MaxFaults /\ faults' = faults + 1 /\ untroubled' = FALSE
Calm == UNCHANGED <<faults, untroubled>>

-----------------------------------------------------------------------------
(* OSM, the VIM and time                                                   *)

\* The record of a vdur is filled in step by step.
Complete(v) ==
  /\ \/ record[v] = "nameless" /\ record' = [record EXCEPT ![v] = "named"]
     \/ record[v] = "named" /\ record' = [record EXCEPT ![v] = "complete"]
  /\ Calm
  /\ UNCHANGED <<account, counter, clock, store, task, cycle, counted, uneven, hadTable>>

Delete(v) ==
  /\ record[v] = "complete"
  /\ Strike
  /\ record' = [record EXCEPT ![v] = "deleted"]
  /\ UNCHANGED <<account, counter, clock, store, task, cycle, counted, uneven, hadTable>>

\* Time passes, and packets through the interfaces of some VDUs.
Tick(V) ==
  /\ clock < MaxClock
  /\ clock' = clock + 1
  /\ counter' = [i \in Interface |-> counter[i] + IF \E v \in V : i \in InterfacesOf[v] THEN 1 ELSE 0]
  /\ UNCHANGED <<account, record, store, task, cycle, faults, history>>

\* The clock is set back, or a VDU starts again and counts from zero.
SetBack ==
  /\ Strike
  /\ clock' \in 0..(clock - 1)
  /\ UNCHANGED <<account, record, counter, store, task, cycle, counted, uneven, hadTable>>

Restart(v) ==
  /\ Strike
  /\ counter' = [i \in Interface |-> IF i \in InterfacesOf[v] THEN 0 ELSE counter[i]]
  /\ uneven' = uneven \cup {v}
  /\ UNCHANGED <<account, record, clock, store, task, cycle, counted, hadTable>>

-----------------------------------------------------------------------------
(* The tasks.  An operator marked "Mutant" is used by no behaviour.        *)

\* A task deals with the metric at x, if there is one.
GoOn(x) == IF x = Outside THEN "returned" ELSE "find"

\* _get_backend.  A failing Prometheus leaves no backend at all.  A gnocchi that
\* answers with an error makes way for ceilometer, which then has to answer too.
GetBackendFails(n, found) ==
  IF account = "prometheus"
    THEN /\ backend' = [found EXCEPT ![n] = "none"]
         /\ pc' = [m \in Vnf |-> GoOn(Following(m, Outside))]
    ELSE \/ /\ backend' = found
            /\ pc' = [m \in Vnf |-> IF m = n THEN "raised" ELSE GoOn(Following(m, Outside))]
         \/ /\ backend' = [found EXCEPT ![n] = "ceilometer"]
            /\ pc' = [m \in Vnf |-> GoOn(Following(m, Outside))]

Backend == IF account \in {"rocky", "older"} THEN "gnocchi" ELSE account

\* A cycle gives each task its copy, and the task looks for its backend.
Begin ==
  /\ \A n \in Vnf : pc[n] = "idle"
  /\ cycle < MaxCycles[account]
  /\ cycle' = cycle + 1
  /\ copy' = record
  /\ at' = [n \in Vnf |-> Following(n, Outside)]
  /\ LET found == [n \in Vnf |-> Backend]
     IN  \/ /\ backend' = found
            /\ pc' = [n \in Vnf |-> GoOn(Following(n, Outside))]
            /\ Calm
         \/ /\ Strike
            /\ \E n \in Vnf : GetBackendFails(n, found)
  /\ hadTable' = table
  /\ UNCHANGED <<account, record, counter, clock, store, value, row, metrics, counted, uneven>>

\* On to the next metric, with a sample for this one or without.
Advance(n, S) ==
  /\ at' = [at EXCEPT ![n] = Following(n, @)]
  /\ pc' = [pc EXCEPT ![n] = GoOn(Following(n, at[n]))]
  /\ value' = [value EXCEPT ![n] = None]
  /\ row' = [row EXCEPT ![n] = {}]
  /\ metrics' = [metrics EXCEPT ![n] = @ \cup S]

Give(n, v) == value' = [value EXCEPT ![n] = v]
Go(n, where) == pc' = [pc EXCEPT ![n] = where]

\* get_vdur goes over the vdurs of the VNF as they are now, and looks at the name
\* of each up to the one it is asked for.
Before(n, v) ==
  LET s == VdursOf[n]
  IN  {u \in Vdu : record[u] # "deleted" /\
        \E j, k \in 1..Len(s) : s[j] = u /\ s[k] = v /\ (j < k \/ record[v] = "deleted")}

\* A VNF all of whose vdurs are gone has no record any more.
LookUpRaises(n, v) ==
  \/ \A u \in ToSet(VdursOf[n]) : record[u] = "deleted"
  \/ \E u \in Before(n, v) : record[u] = "nameless"
  \/ record[v] = "named"

\* Where a task finds the VIM's name of a metric: without a Prometheus that answers, and
\* without any backend, among those of the code.
Names(b) == IF b = "prometheus" THEN PrometheusMap ELSE Mapped

\* Nothing catches what is raised here, but for the ValueError of a vdur that is gone.
FindResource(n) ==
  /\ pc[n] = "find"
  /\ LET v == VduAt(n)
         broken == MetricAt(n) \notin Names(backend[n]) \/ LookUpRaises(n, v)
     IN  \/ copy[v] \in {"nameless", "deleted"} /\ Advance(n, {})
         \/ /\ copy[v] \notin {"nameless", "deleted"}
            /\ broken
            /\ Go(n, "raised")
            /\ UNCHANGED <<at, value, row, metrics>>
         \/ /\ copy[v] \notin {"nameless", "deleted"}
            /\ ~broken
            /\ IF record[v] = "deleted"
                 THEN Advance(n, {})
                 ELSE Go(n, "ask") /\ UNCHANGED <<at, value, row, metrics>>
  /\ UNCHANGED <<account, record, counter, clock, store, copy, backend, cycle,
                 faults, history>>

\* The sum over the interfaces that have measures, or no value if none has.
Packets(S) == IF S = {} THEN None ELSE Number(SumFunctionOnSet(counter, S))

\* What is measured at interfaces needs one.  Older VIMs know packets by a name that
\* tells their rate; to newer ones it tells nothing, and the second name tells their
\* number.  Older ones have no rate of cpu either, and the one measure that is asked for
\* instead makes no difference.
GnocchiAnswers(n) ==
  LET I == InterfacesOf[VduAt(n)]
  IN  CASE MetricAt(n) \in {"packets", "dropped"} /\ I = {} -> {None}
        [] MetricAt(n) = "packets" /\ I # {} ->
             IF account = "older" THEN {Number(0), Number(1)} ELSE {Packets(I)}
        [] MetricAt(n) = "cpu" /\ account = "older" -> {None}
        [] OTHER -> {Number(0)}

PrometheusAnswers == {[form |-> "text", is |-> 0]}

\* Ceilometer raises when it is asked for more than an instance.
CeilometerAnswers(n) == IF MetricAt(n) \in {"memory", "cpu"} THEN {Number(0)} ELSE {}

\* What collect_metric returns; nothing if it raises, as it does without a backend.
Answers(n) ==
  CASE backend[n] = "gnocchi" -> GnocchiAnswers(n)
    [] backend[n] = "prometheus" -> PrometheusAnswers
    [] backend[n] = "ceilometer" -> CeilometerAnswers(n)
    [] OTHER -> {}

Got(n, answer) ==
  IF answer # None /\ MetricAt(n) = "packets"
    THEN Give(n, answer) /\ Go(n, "select") /\ UNCHANGED <<at, row, metrics>>
    ELSE Advance(n, {[vdu |-> VduAt(n), metric |-> MetricAt(n), kind |-> "value", delta |-> 0] :
                       x \in {answer} \ {None}})

\* collect_metric, again with the second name if the first has no value.  Interfaces
\* without measures, or of which gnocchi does not know, are left out of the sum.
Ask(n) ==
  /\ pc[n] = "ask"
  /\ \/ (\E answer \in Answers(n) : Got(n, answer)) /\ Calm /\ UNCHANGED uneven
     \/ Answers(n) = {} /\ Advance(n, {}) /\ Calm /\ UNCHANGED uneven
     \/ Strike /\ Advance(n, {}) /\ UNCHANGED uneven
     \/ /\ account = "rocky" /\ MetricAt(n) = "packets" /\ backend[n] = "gnocchi"
        /\ Strike
        /\ \E S \in SUBSET InterfacesOf[VduAt(n)] \ {{}, InterfacesOf[VduAt(n)]} :
             Got(n, Packets(S))
        /\ uneven' = uneven \cup {VduAt(n)}
  /\ UNCHANGED <<account, record, counter, clock, store, copy, backend, cycle, counted, hadTable>>

-----------------------------------------------------------------------------
(* The table                                                               *)

\* Mutant: a table that cannot be read has no row.
SelectNothing(n) ==
  /\ pc[n] = "select"
  /\ \/ row' = [row EXCEPT ![n] = rows[VduAt(n)]] /\ Calm
     \/ row' = [row EXCEPT ![n] = {}] /\ Strike
  /\ Go(n, "insert")
  /\ UNCHANGED <<account, record, counter, clock, store, copy, backend, at, value, metrics,
                 cycle, counted, uneven, hadTable>>

\* sql_select takes an error, of a table that is locked too, for a missing table.
Select(n) ==
  /\ pc[n] = "select"
  /\ \/ /\ table
        /\ IF rows[VduAt(n)] = {}
             THEN UNCHANGED row
             ELSE \E r \in rows[VduAt(n)] : row' = [row EXCEPT ![n] = {r}]
        /\ Go(n, "insert")
        /\ Calm
     \/ ~table /\ Go(n, "create") /\ UNCHANGED row /\ Calm
     \/ table /\ Strike /\ Go(n, "create") /\ UNCHANGED row
  /\ UNCHANGED <<account, record, counter, clock, store, copy, backend, at, value, metrics,
                 cycle, counted, uneven, hadTable>>

\* Mutant: the new table is not committed.
CreateUncommitted(n) ==
  /\ pc[n] = "create"
  /\ Go(n, "insert")
  /\ UNCHANGED <<account, record, counter, clock, store, copy, backend, at, value, row, metrics,
                 cycle, faults, history>>

\* Mutant: the task that creates the table has nothing to select either.
CreateInVain(n) ==
  /\ pc[n] = "create"
  /\ table' = TRUE
  /\ Advance(n, {})
  /\ UNCHANGED <<account, record, counter, clock, rows, copy, backend, cycle, faults, history>>

\* If the table is there by now, the clause that is to catch the error raises another
\* one, which ends in the except of collect.
Create(n) ==
  /\ pc[n] = "create"
  /\ table' = TRUE
  /\ IF table
       THEN Advance(n, {})
       ELSE Go(n, "insert") /\ UNCHANGED <<at, value, row, metrics>>
  /\ UNCHANGED <<account, record, counter, clock, rows, copy, backend, cycle, faults,
                 history>>

\* Mutant: the oldest row is selected.
Oldest(S, r) == {q \in S \cup {r} : \A p \in S \cup {r} : q.time <= p.time}

\* The rows that have the greatest time once one is added.
Newest(S, r) == {q \in S \cup {r} : \A p \in S \cup {r} : p.time <= q.time}

SqlInsert(v, k) == rows' = [rows EXCEPT ![v] = Newest(@, [time |-> clock, value |-> k])]

\* The rate of the packets since the row that was read, or their number if there is
\* none or time has not passed since.  A text has no difference to a number.
Insert(n) ==
  LET v == VduAt(n)
      k == value[n].is
      sample(kind, d) == {[vdu |-> v, metric |-> "packets", kind |-> kind, delta |-> d]}
  IN  /\ pc[n] = "insert"
      /\ \/ /\ \A r \in row[n] : r.time >= clock
            /\ SqlInsert(v, k) /\ Advance(n, sample("raw", k)) /\ Calm
         \/ /\ \E r \in row[n] :
                 /\ r.time < clock
                 /\ IF value[n].form = "number"
                      THEN SqlInsert(v, k) /\ Advance(n, sample("rate", k - r.value))
                      ELSE UNCHANGED rows /\ Advance(n, {})
            /\ Calm
         \/ Strike /\ UNCHANGED rows /\ Advance(n, {})
      /\ UNCHANGED <<account, record, counter, clock, table, copy, backend, cycle,
                     counted, uneven, hadTable>>

-----------------------------------------------------------------------------
(* The cycle around the tasks, as module Collector has it                  *)

Running(n) == pc[n] \notin {"idle", "returned", "raised", "killed"}

\* The deadline of a cycle terminates what still runs, wherever it is.
Deadline ==
  /\ \E n \in Vnf : Running(n)
  /\ Strike
  /\ pc' = [n \in Vnf |-> IF Running(n) THEN "killed" ELSE pc[n]]
  /\ UNCHANGED <<account, record, counter, clock, store, copy, backend, at, value, row, metrics,
                 cycle, counted, uneven, hadTable>>

Forget ==
  /\ pc' = [n \in Vnf |-> "idle"]
  /\ backend' = [n \in Vnf |-> "none"]
  /\ at' = [n \in Vnf |-> Outside]
  /\ value' = [n \in Vnf |-> None] /\ row' = [n \in Vnf |-> {}]
  /\ metrics' = [n \in Vnf |-> {}]

\* What a cycle exports for a VDU, and its rate in it.
Exported(v) == {s \in UNION {metrics[n] : n \in {m \in Vnf : pc[m] = "returned"}} : s.vdu = v}

RateOf(v) ==
  LET rates == {s.delta : s \in {x \in Exported(v) : x.kind = "rate"}}
  IN  SumFunctionOnSet([d \in rates |-> d], rates)

\* A task that raised abandons the cycle.
EndCycle ==
  /\ \A n \in Vnf : pc[n] \in {"returned", "raised", "killed"}
  /\ IF \E n \in Vnf : pc[n] = "raised"
       THEN UNCHANGED counted
       ELSE counted' = [v \in Vdu |-> counted[v] + RateOf(v)]
  /\ Forget
  /\ UNCHANGED <<account, record, counter, clock, store, copy, cycle, faults, uneven, untroubled,
                 hadTable>>

\* The container dies.  rate.db is in it, and comes back with it or does not.
Crash ==
  /\ Strike
  /\ Forget
  /\ \/ UNCHANGED store
     \/ table' = FALSE /\ rows' = [v \in Vdu |-> {}]
  /\ UNCHANGED <<account, record, counter, clock, copy, cycle, counted, uneven, hadTable>>

Next ==
  \/ \E v \in Vdu : Complete(v) \/ Delete(v) \/ Restart(v)
  \/ \E V \in SUBSET Busy : Tick(V)
  \/ SetBack
  \/ Begin
  \/ \E n \in Vnf : FindResource(n) \/ Ask(n) \/ Select(n) \/ Create(n) \/ Insert(n)
  \/ Deadline
  \/ EndCycle
  \/ Crash

Spec == Init /\ [][Next]_vars

-----------------------------------------------------------------------------
(* Properties                                                              *)

\* No packet is counted twice: what all rates exported for a VDU tell of never is more
\* than its interfaces counted, whichever samples were lost, killed with their task or
\* thrown away with their cycle, and however the clock went.  Not so when the VDU
\* starts again, or an interface is missing from one sum, nor with a VIM whose
\* packets are a rate already.
CountedOnce ==
  account # "older" =>
    \A v \in Vdu \ uneven : counted[v] <= SumFunctionOnSet(counter, InterfacesOf[v])

\* A number of packets is taken for a rate, against the comment "Transform commulate
\* parameter -> delta", only when the table has no row of the VDU, or none from before
\* now: not because a row was not found, or the table not read.
RawOnlyAtFirst ==
  [][\A n \in Vnf : \A s \in metrics'[n] \ metrics[n] :
       s.kind = "raw" =>
         rows[s.vdu] = {} \/ \E r \in rows[s.vdu] : r.time >= clock]_vars

\* The metric at x has a sample to give: gnocchi tells of packets by interfaces, older
\* ones nothing of cpu, ceilometer of two metrics only.  A Prometheus gives packets as a
\* text, of which no difference is taken: only the first cycle, without a row to compare
\* with, has a sample of them, and each later one loses it.
Given(n, x) ==
  LET metric == ParamsOf[VduOf(n, x)][x[2]]
  IN  CASE account = "prometheus" -> metric = "packets" => cycle = 1
        [] account = "ceilometer" -> metric \in {"memory", "cpu"}
        [] account \in {"rocky", "older"} ->
             /\ metric \in {"packets", "dropped"} => InterfacesOf[VduOf(n, x)] # {}
             /\ account = "older" => metric # "cpu"

\* A record without a name is left out, by intent.
Owed(n, x) == Given(n, x) /\ copy[VduOf(n, x)] # "nameless"

\* While nothing fails, a cycle that is not abandoned has a sample of everything it owes,
\* whatever records are filled in meanwhile: an incomplete one costs its own samples or
\* the whole cycle, never those of another VDU.  The one exception is the table: where it
\* is not there yet each task may lose one sample, when another one creates it just
\* before, but not all tasks do, and if all records are complete only in the first cycle.
AllSampled ==
  LET lost(n) == {x \in Work(n) : /\ Owed(n, x)
                                  /\ \A s \in metrics[n] :
                                       s.vdu = VduOf(n, x) => s.metric # ParamsOf[s.vdu][x[2]]}
  IN  untroubled /\ (\A n \in Vnf : pc[n] = "returned") =>
        /\ \A n \in Vnf : Cardinality(lost(n)) <= IF hadTable THEN 0 ELSE 1
        /\ (\E n \in Vnf : lost(n) # {}) =>
             (\E n \in Vnf : lost(n) = {}) /\ (cycle = 1 \/ faults > 0)

=============================================================================

-------------------------- MODULE InfraStatus_proofs --------------------------
(***************************************************************************)
(* Proofs about the infrastructure collectors: the types of what they take *)
(* and of what the exporter makes of it, and that no VIM, SDN controller   *)
(* or machine is ever reported with two values.                            *)
(***************************************************************************)
EXTENDS InfraStatus, FiniteSetTheorems, WellFoundedInduction, TLAPS

-----------------------------------------------------------------------------
(* Sequences and the exporter.                                             *)

\* Some number of a set is the least: it ends the smallest of the intervals that the
\* numbers end.
LEMMA LeastNumber ==
  ASSUME NEW I \in SUBSET Nat, I # {}
  PROVE  Min(I) \in I
<1> DEFINE C == {1..i : i \in I}
<1>1. C \subseteq FiniteSubsetsOf(Nat) /\ C # {}
  <2>1. \A i \in I : IsFiniteSet(1..i) /\ 1..i \subseteq Nat
    BY FS_Interval
  <2> QED BY <2>1 DEF FiniteSubsetsOf
<1> HIDE DEF C
<1>2. PICK X \in C : \A Y \in C : ~(<<Y, X>> \in StrictSubsetOrdering(Nat))
  BY <1>1, FS_StrictSubsetOrderingWellFounded, WFMin
<1>3. \A Y \in C : Y \subseteq X => Y = X
  BY <1>1, <1>2 DEF StrictSubsetOrdering, FiniteSubsetsOf
<1>4. PICK i \in I : X = 1..i
  BY DEF C
<1>5. ASSUME NEW j \in I, j < i PROVE FALSE
  <2>1. 1..j \in C /\ 1..j \subseteq X /\ i \in X /\ i \notin 1..j
    BY <1>4, <1>5 DEF C
  <2> QED BY <1>3, <2>1
<1>6. i \in I /\ \A j \in I : i <= j
  BY <1>5
<1> QED BY <1>6 DEF Min

LEMMA AppendedElements ==
  ASSUME NEW S, NEW s \in Seq(S), NEW e \in S
  PROVE  Append(s, e) \in Seq(S) /\ ToSet(Append(s, e)) = ToSet(s) \cup {e}
<1>1. /\ DOMAIN Append(s, e) = 1..(Len(s) + 1) /\ DOMAIN s = 1..Len(s)
      /\ \A i \in 1..Len(s) : Append(s, e)[i] = s[i]
      /\ Append(s, e)[Len(s) + 1] = e /\ Len(s) \in Nat
  OBVIOUS
<1>2. \A i \in 1..(Len(s) + 1) : i \in 1..Len(s) \/ i = Len(s) + 1
  BY <1>1
<1>3. ToSet(Append(s, e)) \subseteq ToSet(s) \cup {e}
  BY <1>1, <1>2 DEF ToSet
<1>4. ToSet(s) \cup {e} \subseteq ToSet(Append(s, e))
  BY <1>1 DEF ToSet
<1> QED BY <1>3, <1>4

LEMMA JoinedElements ==
  ASSUME NEW S, NEW s \in Seq(S), NEW t \in Seq(S)
  PROVE  ToSet(s \o t) = ToSet(s) \cup ToSet(t)
<1>1. /\ DOMAIN (s \o t) = 1..(Len(s) + Len(t))
      /\ DOMAIN s = 1..Len(s) /\ DOMAIN t = 1..Len(t)
      /\ Len(s) \in Nat /\ Len(t) \in Nat
      /\ \A i \in 1..Len(s) : (s \o t)[i] = s[i]
      /\ \A i \in 1..(Len(s) + Len(t)) : i > Len(s) => (s \o t)[i] = t[i - Len(s)]
  OBVIOUS
<1>2. \A i \in 1..(Len(s) + Len(t)) : i \in 1..Len(s) \/ (i > Len(s) /\ i - Len(s) \in 1..Len(t))
  BY <1>1
<1>3. ToSet(s \o t) \subseteq ToSet(s) \cup ToSet(t)
  BY <1>1, <1>2 DEF ToSet
<1>4. ToSet(s) \subseteq ToSet(s \o t)
  BY <1>1 DEF ToSet
<1>5. ASSUME NEW j \in 1..Len(t) PROVE t[j] \in ToSet(s \o t)
  <2>1. Len(s) + j \in 1..(Len(s) + Len(t)) /\ Len(s) + j > Len(s) /\ (Len(s) + j) - Len(s) = j
    BY <1>1
  <2>2. (s \o t)[Len(s) + j] = t[j]
    BY <1>1, <2>1
  <2> QED BY <1>1, <2>1, <2>2 DEF ToSet
<1> QED BY <1>1, <1>3, <1>4, <1>5 DEF ToSet

\* The exporter changes nothing of a sample but its labels.
LEMMA HandleTypes ==
  ASSUME NEW ms \in Seq(Metric)
  PROVE  /\ Handle(ms) \subseteq Metric
         /\ \A x \in Handle(ms) : \E m \in ToSet(ms) :
              /\ x = [m EXCEPT !.labels = First(ms, m.name).labels]
              /\ x.name = m.name /\ x.of = m.of
<1>1. ASSUME NEW m \in ToSet(ms)
      PROVE  m \in Metric /\ First(ms, m.name) \in Metric
  <2> DEFINE I == {i \in DOMAIN ms : ms[i].name = m.name}
  <2>1. I \in SUBSET Nat /\ I # {} /\ m \in Metric
    BY DEF ToSet
  <2>2. Min(I) \in I
    BY <2>1, LeastNumber
  <2> QED BY <2>1, <2>2 DEF First
<1>2. \A m \in Metric, l \in Labels :
        LET x == [m EXCEPT !.labels = l]
        IN  x \in Metric /\ x.name = m.name /\ x.of = m.of
  BY DEF Metric
<1>3. \A m \in ToSet(ms) : m \in Metric /\ First(ms, m.name).labels \in Labels
  BY <1>1 DEF Metric
<1>4. ASSUME NEW x \in Handle(ms)
      PROVE  x \in Metric /\ \E m \in ToSet(ms) :
               /\ x = [m EXCEPT !.labels = First(ms, m.name).labels]
               /\ x.name = m.name /\ x.of = m.of
  <2>1. PICK m \in ToSet(ms) : x = [m EXCEPT !.labels = First(ms, m.name).labels]
    BY DEF Handle
  <2>2. x \in Metric /\ x.name = m.name /\ x.of = m.of
    BY <1>2, <1>3, <2>1
  <2> QED BY <2>1, <2>2
<1> QED BY <1>4

-----------------------------------------------------------------------------
(* The variables keep their types.                                         *)

\* TypeOK in parts: the world, what is collected, and what is left of it.
WorldTypes ==
  /\ record \in [Machine -> {"absent", "unfilled", "filled"}]
  /\ state \in [Machine -> {"active", "error", "none"}]
  /\ answers \in [Target -> BOOLEAN]
  /\ keystone \in [NovaVim -> BOOLEAN] /\ telemetry \in [NovaVim -> BOOLEAN]
  /\ limits \in [NovaVim -> [Kind -> Limit]]
CycleTypes ==
  /\ account \in [NovaVim -> [Kind -> Limit]]
  /\ task \in [Target -> Task]
  /\ metrics \in Seq(Metric)
  /\ exported \subseteq Metric
FlagTypes ==
  /\ collecting \in BOOLEAN /\ doomed \in BOOLEAN
  /\ events \in 0..MaxEvents

\* How far a task is: it is at one of the three kinds of resources while it updates
\* them, and only a VIM goes further than its submission.
Stage(t) ==
  /\ task[t].at \in {"none", "submitted", "check"} => task[t].kind = 1
  /\ task[t].at \in {"limits", "write"} => task[t].kind <= 3 /\ t \in NovaVim
  /\ task[t].at \in {"check", "limits", "write", "list", "machines"} => t \in Vim

TypeInv == WorldTypes /\ CycleTypes /\ FlagTypes /\ \A t \in Target : Stage(t)

\* What changes in a task from one of its steps to the next.
LEMMA TaskChanges ==
  ASSUME NEW r \in Task, NEW a \in At
  PROVE  /\ [r EXCEPT !.at = a] \in Task
         /\ \A c \in [Kind -> Limit] : [r EXCEPT !.at = a, !.copy = c] \in Task
         /\ \A ms \in Seq(Metric) : [r EXCEPT !.at = a, !.metrics = ms] \in Task
         /\ \A x \in Limit : [r EXCEPT !.at = a, !.value = x] \in Task
         /\ \A X \in SUBSET (Machine \X {"unfilled", "filled"}) : [r EXCEPT !.at = a, !.left = X] \in Task
BY DEF Task

LEMMA BlankTypes ==
  /\ Blank \in Task /\ Blank.kind = 1 /\ Blank.metrics = <<>> /\ Blank.left = {}
  /\ Blank.last = NoMetric /\ Blank.at = "none"
  /\ \A a \in At : [Blank EXCEPT !.at = a] \in Task /\ [Blank EXCEPT !.at = a].at = a
                   /\ [Blank EXCEPT !.at = a].kind = 1
<1>1. SomeLimit \in Limit
  BY LimitAssumption DEF SomeLimit
<1>2. Blank \in Task
  BY <1>1 DEF Blank, Task, At
<1>3. \A a \in At : [Blank EXCEPT !.at = a] \in Task
  BY <1>2, TaskChanges
<1> QED BY <1>2, <1>3 DEF Blank

LEMMA NextKindTypes ==
  ASSUME NEW r \in Task, r.kind <= 3
  PROVE  /\ NextKind(r) \in Task /\ NextKind(r).at \in {"limits", "list"}
         /\ NextKind(r).at = "limits" => NextKind(r).kind <= 3
         /\ NextKind(r).metrics = r.metrics /\ NextKind(r).left = r.left /\ NextKind(r).last = r.last
<1>1. Len(Kinds) = 3 /\ r.kind \in 1..3
  BY DEF Kinds, Task
<1>2. r.kind + 1 \in 1..4 /\ (r.kind # 3 => r.kind + 1 <= 3)
  BY <1>1
<1> QED BY <1>1, <1>2 DEF NextKind, Task, At

\* A step of one task.
LEMMA OneTaskTypes ==
  ASSUME TypeInv, NEW t \in Target, NEW r \in Task, task' = [task EXCEPT ![t] = r],
         UNCHANGED world, account' \in [NovaVim -> [Kind -> Limit]],
         metrics' \in Seq(Metric), UNCHANGED exported, FlagTypes',
         r.at \in {"none", "submitted", "check"} => r.kind = 1,
         r.at \in {"limits", "write"} => r.kind <= 3 /\ t \in NovaVim,
         r.at \in {"check", "limits", "write", "list", "machines"} => t \in Vim
  PROVE  TypeInv'
<1>1. task \in [Target -> Task]
  BY DEF TypeInv, CycleTypes
<1>2. WorldTypes'
  BY DEF TypeInv, WorldTypes, world
<1>3. CycleTypes'
  BY <1>1 DEF TypeInv, CycleTypes
<1>4. ASSUME NEW u \in Target PROVE Stage(u)'
  <2>1. CASE u = t
    <3>1. task'[u] = r
      BY <1>1, <2>1
    <3> QED BY <2>1, <3>1 DEF Stage
  <2>2. CASE u # t
    <3>1. task'[u] = task[u] /\ Stage(u)
      BY <1>1, <2>2 DEF TypeInv
    <3> QED BY <3>1 DEF Stage
  <2> QED BY <2>1, <2>2
<1> QED BY <1>2, <1>3, <1>4 DEF TypeInv

\* What a VIM, an SDN controller or a machine is reported with.
LEMMA ReportTypes ==
  /\ NoMetric \notin Metric /\ Vim \subseteq Target /\ Sdnc \subseteq Target /\ NovaVim \subseteq Vim
  /\ \A b \in BOOLEAN : Status(b) \in Value
  /\ \A v \in Vim, x \in Value :
       [name |-> "vim_status", of |-> v, value |-> x, labels |-> "status"] \in Metric
  /\ \A s \in Sdnc, x \in Value :
       [name |-> "sdnc_status", of |-> s, value |-> x, labels |-> "status"] \in Metric
  /\ \A m \in Machine, x \in Value, l \in {"vdu", "vdur"} :
       [name |-> "vm_status", of |-> m, value |-> x, labels |-> l] \in Metric
<1>1. NoMetric \notin Metric
  <2>1. \A x \in Metric : x.name \in MetricNames
    BY DEF Metric
  <2>2. NoMetric.name \notin MetricNames
    BY DEF NoMetric, MetricNames
  <2> QED BY <2>1, <2>2
<1>2. Vim \subseteq Target /\ Sdnc \subseteq Target /\ NovaVim \subseteq Vim
  BY DEF Target, NovaVim
<1>3. \A b \in BOOLEAN : Status(b) \in Value
  BY DEF Status, Value
<1>4. \A v \in Vim, x \in Value :
        [name |-> "vim_status", of |-> v, value |-> x, labels |-> "status"] \in Metric
  BY DEF Metric, MetricNames, Labels, Target
<1>5. \A s \in Sdnc, x \in Value :
        [name |-> "sdnc_status", of |-> s, value |-> x, labels |-> "status"] \in Metric
  BY DEF Metric, MetricNames, Labels, Target
<1>6. \A m \in Machine, x \in Value, l \in {"vdu", "vdur"} :
        [name |-> "vm_status", of |-> m, value |-> x, labels |-> l] \in Metric
  BY DEF Metric, MetricNames, Labels
<1> QED BY <1>1, <1>2, <1>3, <1>4, <1>5, <1>6

LEMMA InitTypes == Init => TypeInv
<1> SUFFICES ASSUME Init PROVE TypeInv
  OBVIOUS
<1>1. SomeLimit \in Limit
  BY LimitAssumption DEF SomeLimit
<1>2. WorldTypes
  BY <1>1 DEF Init, WorldTypes
<1>3. CycleTypes
  BY <1>1, BlankTypes DEF Init, CycleTypes, NoTasks
<1>4. FlagTypes
  <2>1. events \in 0..MaxEvents
    BY BoundAssumption DEF Init
  <2>2. collecting = FALSE /\ doomed = FALSE
    BY DEF Init
  <2>3. collecting \in BOOLEAN /\ doomed \in BOOLEAN
    BY <2>2, Zenon
  <2> QED BY <2>1, <2>3, Zenon DEF FlagTypes
<1>5. \A t \in Target : Stage(t)
  BY BlankTypes DEF Init, NoTasks, Stage
<1> QED BY <1>2, <1>3, <1>4, <1>5 DEF TypeInv

\* The steps of the world.
LEMMA WorldStepTypes == TypeInv /\ World => TypeInv'
<1> SUFFICES ASSUME TypeInv, World PROVE TypeInv'
  OBVIOUS
<1>1. Happen => CycleTypes' /\ FlagTypes' /\ \A t \in Target : Stage(t)'
  <2> SUFFICES ASSUME Happen PROVE CycleTypes' /\ FlagTypes' /\ \A t \in Target : Stage(t)'
    OBVIOUS
  <2>1. CycleTypes'
    BY DEF TypeInv, CycleTypes, Happen, cycle
  <2>2. FlagTypes'
    BY BoundAssumption DEF TypeInv, FlagTypes, Happen, Bounded, cycle
  <2>3. \A t \in Target : Stage(t)'
    BY DEF TypeInv, Stage, Happen, cycle
  <2> QED BY <2>1, <2>2, <2>3
<1>2. ASSUME NEW m \in Machine, Deploy(m) \/ Undeploy(m) \/ ChangeState(m) PROVE TypeInv'
  <2>1. Happen /\ WorldTypes'
    <3>1. CASE Deploy(m)
      BY <3>1 DEF TypeInv, WorldTypes, Deploy
    <3>2. CASE Undeploy(m)
      BY <3>2 DEF TypeInv, WorldTypes, Undeploy
    <3>3. CASE ChangeState(m)
      BY <3>3 DEF TypeInv, WorldTypes, ChangeState
    <3> QED BY <1>2, <3>1, <3>2, <3>3
  <2> QED BY <1>1, <2>1 DEF TypeInv
<1>3. ASSUME NEW t \in Target, FailOrRecover(t) PROVE TypeInv'
  <2>1. Happen /\ WorldTypes'
    BY <1>3 DEF TypeInv, WorldTypes, FailOrRecover
  <2> QED BY <1>1, <2>1 DEF TypeInv
<1>4. ASSUME NEW v \in NovaVim, KeystoneFailsOrRecovers(v) PROVE TypeInv'
  <2>1. Happen /\ WorldTypes'
    BY <1>4 DEF TypeInv, WorldTypes, KeystoneFailsOrRecovers
  <2> QED BY <1>1, <2>1 DEF TypeInv
<1>5. ASSUME NEW v \in NovaVim, NEW k \in Kind, Use(v, k) PROVE TypeInv'
  <2>1. Happen /\ WorldTypes'
    BY <1>5 DEF TypeInv, WorldTypes, Use
  <2> QED BY <1>1, <2>1 DEF TypeInv
<1>6. ASSUME NEW v \in NovaVim, TelemetryFailsOrRecovers(v) PROVE TypeInv'
  <2>1. Happen /\ WorldTypes'
    BY <1>6 DEF TypeInv, WorldTypes, TelemetryFailsOrRecovers
  <2> QED BY <1>1, <2>1 DEF TypeInv
<1> QED BY <1>2, <1>3, <1>4, <1>5, <1>6 DEF World

\* The steps of a cycle as a whole.
LEMMA CycleStepTypes ==
  TypeInv /\ (Begin \/ BeginFails \/ EndCycle \/ Deadline \/ Crash) => TypeInv'
<1> SUFFICES ASSUME TypeInv, Begin \/ BeginFails \/ EndCycle \/ Deadline \/ Crash
             PROVE  TypeInv'
  OBVIOUS
<1>1. CASE Begin
  <2>1. WorldTypes' /\ FlagTypes'
    BY <1>1 DEF TypeInv, WorldTypes, FlagTypes, Begin, world
  <2>2. [Blank EXCEPT !.at = "submitted"] \in Task /\ [Blank EXCEPT !.at = "submitted"].kind = 1
        /\ [Blank EXCEPT !.at = "submitted"].at = "submitted"
    BY BlankTypes DEF At
  <2>3. CycleTypes'
    BY <1>1, <2>2 DEF TypeInv, CycleTypes, Begin
  <2>4. \A t \in Target : Stage(t)'
    BY <1>1, <2>2 DEF Begin, Stage
  <2> QED BY <2>1, <2>3, <2>4 DEF TypeInv
<1>2. CASE BeginFails
  BY <1>2 DEF TypeInv, WorldTypes, CycleTypes, FlagTypes, Stage, BeginFails, vars, world, cycle
<1>3. CASE EndCycle \/ Deadline \/ Crash
  <2>1. WorldTypes'
    BY <1>3 DEF TypeInv, WorldTypes, EndCycle, Deadline, Crash, world
  <2>2. FlagTypes'
    <3>1. events \in 0..MaxEvents
      BY DEF TypeInv, FlagTypes
    <3>2. UNCHANGED events \/ Bounded
      BY <1>3, Zenon DEF EndCycle, Deadline, Crash
    <3>3. events' \in 0..MaxEvents
      BY <3>1, <3>2, BoundAssumption DEF Bounded
    <3>4. collecting' = FALSE /\ doomed' = FALSE
      BY <1>3, Zenon DEF EndCycle, Deadline, Crash
    <3>5. collecting' \in BOOLEAN /\ doomed' \in BOOLEAN
      BY <3>4, Zenon
    <3> QED BY <3>3, <3>5, Zenon DEF FlagTypes
  <2>3. metrics \in Seq(Metric) /\ exported \subseteq Metric /\ account \in [NovaVim -> [Kind -> Limit]]
    BY DEF TypeInv, CycleTypes
  <2>4. Handle(metrics) \subseteq Metric
    BY <2>3, HandleTypes
  <2>5. exported' \subseteq Metric /\ metrics' \in Seq(Metric) /\ UNCHANGED account
        /\ task' = [t \in Target |-> Blank]
    <3>1. exported' \in {exported, Handle(metrics), {}} /\ metrics' = <<>>
          /\ UNCHANGED account /\ task' = NoTasks
      <4>1. CASE EndCycle
        BY <4>1 DEF EndCycle
      <4>2. CASE Deadline
        BY <4>2 DEF Deadline
      <4>3. CASE Crash
        BY <4>3 DEF Crash
      <4> QED BY <1>3, <4>1, <4>2, <4>3
    <3> QED BY <2>3, <2>4, <3>1 DEF NoTasks
  <2>6. CycleTypes' /\ \A t \in Target : Stage(t)'
    BY <2>3, <2>5, BlankTypes DEF CycleTypes, Stage
  <2> QED BY <2>1, <2>2, <2>6 DEF TypeInv
<1> QED BY <1>1, <1>2, <1>3

\* The steps of the task of a VIM.
LEMMA VimStepTypes ==
  ASSUME TypeInv, NEW v \in Vim, StepOfVim(v) \/ WriteFails(v)
  PROVE  TypeInv'
<1> DEFINE r == task[v]
<1>1. v \in Target /\ r \in Task /\ Stage(v) /\ metrics \in Seq(Metric)
      /\ task \in [Target -> Task] /\ account \in [NovaVim -> [Kind -> Limit]]
      /\ (v \in NovaVim => limits[v] \in [Kind -> Limit])
  BY ReportTypes DEF TypeInv, CycleTypes, WorldTypes
<1>a. FlagTypes
  BY DEF TypeInv
<1>2. r.kind \in 1..4 /\ r.left \in SUBSET (Machine \X {"unfilled", "filled"})
      /\ r.metrics \in Seq(Metric) /\ r.last \in Metric \cup {NoMetric} /\ r.value \in Limit
      /\ r.copy \in [Kind -> Limit]
  BY <1>1 DEF Task
<1>3. ASSUME NEW q \in Task, Goes(v, q), UNCHANGED <<account, metrics>>,
             q.at \in {"none", "submitted", "check"} => q.kind = 1,
             q.at \in {"limits", "write"} => q.kind <= 3 /\ v \in NovaVim
      PROVE  TypeInv'
  <2>1. UNCHANGED <<collecting, vnfs, doomed, events>> /\ UNCHANGED world /\ UNCHANGED exported
        /\ task' = [task EXCEPT ![v] = q]
    BY <1>3 DEF Goes
  <2>2. FlagTypes'
    BY <1>a, <2>1, Zenon DEF FlagTypes
  <2> QED BY <1>1, <1>3, <2>1, <2>2, OneTaskTypes
<1>4. \A a \in {"done", "swallowed", "raised"} :
        Goes(v, [Blank EXCEPT !.at = a]) /\ UNCHANGED <<account, metrics>> => TypeInv'
  <2> TAKE a \in {"done", "swallowed", "raised"}
  <2> DEFINE q == [Blank EXCEPT !.at = a]
  <2>1. q \in Task /\ q.at = a /\ q.kind = 1
    BY BlankTypes DEF At
  <2>2. Goes(v, q) /\ UNCHANGED <<account, metrics>> => TypeInv'
    <3> HIDE DEF q
    <3> QED BY <1>3, <2>1
  <2> QED BY <2>2
<1>5. CASE Construct(v)
  <2> DEFINE q == [Blank EXCEPT !.at = "check"]
             c == [Blank EXCEPT !.at = "check", !.copy = account[v]]
  <2>1. q \in Task /\ q.at = "check" /\ q.kind = 1
    BY BlankTypes DEF At
  <2>2. v \in NovaVim => c \in Task
    BY <1>1, BlankTypes, TaskChanges DEF At
  <2>3. c.at = "check" /\ c.kind = 1
    BY DEF Blank
  <2>4. \/ Goes(v, q) \/ (v \in NovaVim /\ Goes(v, c))
        \/ Goes(v, [Blank EXCEPT !.at = "swallowed"])
    BY <1>5 DEF Construct
  <2>5. UNCHANGED <<account, metrics>>
    BY <1>5 DEF Construct
  <2> HIDE DEF q, c
  <2> QED BY <1>3, <1>4, <2>1, <2>2, <2>3, <2>4, <2>5
<1>6. CASE CheckVim(v)
  <2> DEFINE status ==
        [name |-> "vim_status", of |-> v, value |-> VimStatus(v), labels |-> "status"]
             update == v \in NovaVim /\ answers[v] /\ Recorded[v] # {}
             a == IF update THEN "limits" ELSE "list"
             q == [r EXCEPT !.at = a, !.metrics = <<status>>]
  <2>1. VimStatus(v) \in Value
    BY DEF VimStatus, Value, Status
  <2>2. status \in Metric
    BY <2>1, ReportTypes
  <2>3. <<status>> \in Seq(Metric) /\ a \in At
    <3> HIDE DEF status, update
    <3> QED BY <2>2 DEF At
  <2>4. q \in Task
    <3> HIDE DEF status, a
    <3> QED BY <1>1, <2>3, TaskChanges
  <2>5. q.at = a /\ q.kind = 1
    <3>1. r.kind = 1
      BY <1>1, <1>6 DEF CheckVim, Stage
    <3> HIDE DEF status, a
    <3> QED BY <1>1, <3>1 DEF Task
  <2>6. a \in {"limits", "list"} /\ (a = "limits" => v \in NovaVim)
    OBVIOUS
  <2>7. Goes(v, q) /\ UNCHANGED <<account, metrics>>
    BY <1>6 DEF CheckVim
  <2> HIDE DEF q, a, status, update
  <2> QED BY <1>3, <2>4, <2>5, <2>6, <2>7
<1>7. ASSUME r.kind <= 3, v \in NovaVim, Goes(v, NextKind(r)), UNCHANGED <<account, metrics>>
      PROVE  TypeInv'
  <2>1. NextKind(r) \in Task /\ NextKind(r).at \in {"limits", "list"}
        /\ (NextKind(r).at = "limits" => NextKind(r).kind <= 3)
    BY <1>1, <1>7, NextKindTypes
  <2> QED BY <1>3, <1>7, <2>1
<1>8. CASE CompareLimits(v)
  <2>1. r.at = "limits" /\ r.kind <= 3 /\ v \in NovaVim
    BY <1>1, <1>8 DEF CompareLimits, Stage
  <2>2. Kinds[r.kind] \in Kind
    BY <1>2, <2>1 DEF Kinds, Kind
  <2> DEFINE q == [r EXCEPT !.at = "write", !.value = limits[v][Kinds[r.kind]]]
  <2>3. limits[v][Kinds[r.kind]] \in Limit
    BY <1>1, <2>1, <2>2
  <2>4. q \in Task
    BY <1>1, <2>3, TaskChanges DEF At
  <2>5. q.at = "write" /\ q.kind = r.kind
    BY <1>1 DEF Task
  <2>6. Goes(v, NextKind(r)) \/ Goes(v, q)
    BY <1>8 DEF CompareLimits, AfterRaise
  <2>7. UNCHANGED <<account, metrics>>
    BY <1>8 DEF CompareLimits
  <2> HIDE DEF q
  <2> QED BY <1>3, <1>7, <2>1, <2>4, <2>5, <2>6, <2>7
<1>9. CASE WriteLimits(v) \/ WriteFails(v)
  <2>1. r.at = "write" /\ r.kind <= 3 /\ v \in NovaVim
    BY <1>1, <1>9 DEF WriteLimits, WriteFails, Stage
  <2>2. NextKind(r) \in Task /\ NextKind(r).at \in {"limits", "list"}
        /\ (NextKind(r).at = "limits" => NextKind(r).kind <= 3)
    BY <1>1, <2>1, NextKindTypes
  <2>3. task' = [task EXCEPT ![v] = NextKind(r)] /\ UNCHANGED world /\ UNCHANGED exported
        /\ UNCHANGED metrics /\ UNCHANGED <<collecting, vnfs, doomed>>
        /\ (UNCHANGED events \/ Bounded)
        /\ account' \in {account, [account EXCEPT ![v][Kinds[r.kind]] = r.value]}
    <3>1. CASE WriteLimits(v)
      BY <3>1 DEF WriteLimits, Goes
    <3>2. CASE WriteFails(v)
      BY <1>1, <3>2 DEF WriteFails
    <3> QED BY <1>9, <3>1, <3>2
  <2>4. Kinds[r.kind] \in Kind
    BY <1>2, <2>1 DEF Kinds, Kind
  <2>5. account' \in [NovaVim -> [Kind -> Limit]]
    <3> HIDE DEF r
    <3> QED BY <1>1, <1>2, <2>1, <2>3, <2>4
  <2>6. FlagTypes'
    <3>1. events' \in 0..MaxEvents
      BY <1>a, <2>3, BoundAssumption DEF FlagTypes, Bounded
    <3> QED BY <1>a, <2>3, <3>1, Zenon DEF FlagTypes
  <2>7. metrics' \in Seq(Metric)
    BY <1>1, <2>3
  <2> QED BY <1>1, <2>1, <2>2, <2>3, <2>5, <2>6, <2>7, OneTaskTypes
<1>10. CASE ListVnfs(v)
  <2> DEFINE X == {<<m, record[m]>> : m \in {x \in Machine : HostOf[x] = v /\ record[x] # "absent"}}
             q == [r EXCEPT !.at = "machines", !.left = X]
  <2>1. X \in SUBSET (Machine \X {"unfilled", "filled"})
    BY DEF TypeInv, WorldTypes
  <2>2. q \in Task
    <3> HIDE DEF X
    <3> QED BY <1>1, <2>1, TaskChanges DEF At
  <2>3. q.at = "machines"
    BY <1>1 DEF Task
  <2>4. Goes(v, q) /\ UNCHANGED <<account, metrics>>
    BY <1>10 DEF ListVnfs
  <2> HIDE DEF q, X
  <2> QED BY <1>3, <2>2, <2>3, <2>4
<1>11. CASE VisitMachine(v)
  <2>1. PICK l \in r.left :
          IF record[l[1]] = "absent" THEN Raises(v)
          ELSE /\ IF v \in NovaVim THEN AskNova(v, l) ELSE AskVcd(v, l)
               /\ UNCHANGED <<account, metrics>>
    BY <1>11 DEF VisitMachine
  <2>2. r.at = "machines" /\ l[1] \in Machine
    BY <1>2, <1>11 DEF VisitMachine
  <2>3. CASE Raises(v)
    BY <1>4, <2>3 DEF Raises
  <2>4. ASSUME NEW x \in Metric, Reports(v, l, x), UNCHANGED <<account, metrics>> PROVE TypeInv'
    <3> DEFINE q == [r EXCEPT !.left = @ \ {l}, !.last = x, !.metrics = Append(@, x)]
    <3>1. q \in Task /\ q.at = "machines"
      <4>1. Append(r.metrics, x) \in Seq(Metric)
        BY <1>2, <2>4
      <4> QED BY <1>1, <1>2, <2>2, <4>1 DEF Task
    <3>2. Goes(v, q)
      BY <2>4 DEF Reports
    <3> HIDE DEF q
    <3> QED BY <1>3, <2>4, <3>1, <3>2
  <2>5. ASSUME AskNova(v, l), UNCHANGED <<account, metrics>> PROVE TypeInv'
    <3>1. CASE l[2] = "unfilled"
      <4> DEFINE q == [r EXCEPT !.left = @ \ {l}]
      <4>1. q \in Task /\ q.at = "machines"
        BY <1>1, <1>2, <2>2 DEF Task
      <4>2. Goes(v, q)
        BY <2>5, <3>1 DEF AskNova
      <4> HIDE DEF q
      <4> QED BY <1>3, <2>5, <4>1, <4>2
    <3>2. CASE l[2] # "unfilled"
      <4> DEFINE ok == answers[v] /\ state[l[1]] = "active"
                 x == [name |-> "vm_status", of |-> l[1], value |-> Status(ok), labels |-> "vdu"]
      <4>1. Status(ok) \in Value
        BY DEF Status, Value
      <4>2. x \in Metric
        BY <2>2, <4>1, ReportTypes
      <4>3. Reports(v, l, x)
        BY <2>5, <3>2 DEF AskNova
      <4> HIDE DEF x, ok
      <4> QED BY <2>4, <2>5, <4>2, <4>3
    <3> QED BY <3>1, <3>2
  <2>6. ASSUME AskVcd(v, l), UNCHANGED <<account, metrics>> PROVE TypeInv'
    <3> DEFINE empty == answers[v] /\ state[l[1]] = "none"
               ok == answers[v] /\ state[l[1]] = "active"
               y == [name |-> "vm_status", of |-> l[1], value |-> Status(ok), labels |-> "vdur"]
               x == IF empty THEN r.last ELSE y
    <3>1. CASE l[2] = "unfilled" \/ (empty /\ r.last = NoMetric)
      BY <1>4, <2>6, <3>1 DEF AskVcd
    <3>2. CASE ~(l[2] = "unfilled" \/ (empty /\ r.last = NoMetric))
      <4>1. Status(ok) \in Value
        BY DEF Status, Value
      <4>2. y \in Metric
        BY <2>2, <4>1, ReportTypes
      <4>3. Reports(v, l, x)
        BY <2>6, <3>2 DEF AskVcd
      <4>4. x \in Metric
        <5> HIDE DEF y
        <5> QED BY <1>2, <3>2, <4>2
      <4> HIDE DEF x, y, empty, ok
      <4> QED BY <2>4, <2>6, <4>3, <4>4
    <3> QED BY <3>1, <3>2
  <2> QED BY <2>1, <2>3, <2>5, <2>6
<1>12. CASE Return(v)
  <2> DEFINE q == [Blank EXCEPT !.at = "done"]
  <2>1. q \in Task /\ q.at = "done"
    BY BlankTypes DEF At
  <2>2. Goes(v, q) /\ metrics' = metrics \o r.metrics /\ UNCHANGED account
    BY <1>12 DEF Return, Ends
  <2>3. metrics' \in Seq(Metric)
    BY <1>1, <1>2, <2>2
  <2>4. UNCHANGED <<collecting, vnfs, doomed, events>> /\ UNCHANGED world /\ UNCHANGED exported
        /\ task' = [task EXCEPT ![v] = q]
    BY <2>2 DEF Goes
  <2>5. FlagTypes'
    BY <1>a, <2>4, Zenon DEF FlagTypes
  <2> HIDE DEF q
  <2> QED BY <1>1, <2>1, <2>2, <2>3, <2>4, <2>5, OneTaskTypes
<1> QED BY <1>5, <1>6, <1>8, <1>9, <1>10, <1>11, <1>12 DEF StepOfVim

\* The tasks of VNFs.
LEMMA VnfStepTypes == TypeInv /\ ((\E l \in vnfs : CollectVnf(l)) \/ VnfFails) => TypeInv'
<1> SUFFICES ASSUME TypeInv, (\E l \in vnfs : CollectVnf(l)) \/ VnfFails PROVE TypeInv'
  OBVIOUS
<1>1. /\ UNCHANGED <<world, account, collecting, task, metrics, exported>>
      /\ (doomed' = TRUE \/ doomed' = doomed) /\ (UNCHANGED events \/ Bounded)
  BY DEF CollectVnf, VnfFails
<1>2. FlagTypes'
  <2>1. FlagTypes
    BY DEF TypeInv
  <2>2. events' \in 0..MaxEvents
    BY <1>1, <2>1, BoundAssumption DEF FlagTypes, Bounded
  <2>3. doomed' \in BOOLEAN /\ collecting' \in BOOLEAN
    BY <1>1, <2>1, Zenon DEF FlagTypes
  <2> QED BY <2>2, <2>3, Zenon DEF FlagTypes
<1>3. WorldTypes' /\ CycleTypes' /\ \A t \in Target : Stage(t)'
  BY <1>1 DEF TypeInv, WorldTypes, CycleTypes, Stage, world
<1> QED BY <1>2, <1>3 DEF TypeInv

\* The check of an SDN controller, and a database that raises in a task.
LEMMA OtherStepTypes ==
  TypeInv /\ ((\E s \in Sdnc : CheckSdnc(s)) \/ (\E t \in Target : TaskFails(t))) => TypeInv'
<1> SUFFICES ASSUME TypeInv, (\E s \in Sdnc : CheckSdnc(s)) \/ (\E t \in Target : TaskFails(t))
             PROVE  TypeInv'
  OBVIOUS
<1>1. metrics \in Seq(Metric) /\ account \in [NovaVim -> [Kind -> Limit]]
  BY DEF TypeInv, CycleTypes
<1>2. FlagTypes
  BY DEF TypeInv
<1>3. \A a \in {"done", "raised"} :
        LET q == [Blank EXCEPT !.at = a] IN q \in Task /\ q.at = a
  BY BlankTypes DEF At
<1>4. ASSUME NEW s \in Sdnc, CheckSdnc(s) PROVE TypeInv'
  <2> DEFINE x == [name |-> "sdnc_status", of |-> s, value |-> Status(answers[s]), labels |-> "status"]
             q == [Blank EXCEPT !.at = "done"]
  <2>1. x \in Metric
    BY ReportTypes DEF Value, Status
  <2>2. Goes(s, q) /\ metrics' = metrics \o <<x>> /\ UNCHANGED account
    BY <1>4 DEF CheckSdnc, Ends, Blank
  <2>3. metrics' \in Seq(Metric)
    <3> HIDE DEF x
    <3> QED BY <1>1, <2>1, <2>2
  <2>4. UNCHANGED <<collecting, vnfs, doomed, events>> /\ UNCHANGED world /\ UNCHANGED exported
        /\ task' = [task EXCEPT ![s] = q]
    BY <2>2 DEF Goes
  <2>5. FlagTypes'
    BY <1>2, <2>4, Zenon DEF FlagTypes
  <2>6. q \in Task /\ q.at = "done"
    BY <1>3
  <2> HIDE DEF q, x
  <2> QED BY <1>1, <2>2, <2>3, <2>4, <2>5, <2>6, ReportTypes, OneTaskTypes
<1>5. ASSUME NEW t \in Target, TaskFails(t) PROVE TypeInv'
  <2> DEFINE q == [Blank EXCEPT !.at = "raised"]
  <2>1. task' = [task EXCEPT ![t] = q] /\ Bounded
        /\ UNCHANGED <<world, account, collecting, vnfs, doomed, metrics, exported>>
    BY <1>5 DEF TaskFails
  <2>2. FlagTypes'
    <3>1. events' \in 0..MaxEvents
      BY <1>2, <2>1, BoundAssumption DEF FlagTypes, Bounded
    <3> QED BY <1>2, <2>1, <3>1, Zenon DEF FlagTypes
  <2>3. q \in Task /\ q.at = "raised"
    BY <1>3
  <2> HIDE DEF q
  <2> QED BY <1>1, <2>1, <2>2, <2>3, OneTaskTypes
<1> QED BY <1>4, <1>5

LEMMA NextTypes == TypeInv /\ [Next]_vars => TypeInv'
<1> SUFFICES ASSUME TypeInv, [Next]_vars PROVE TypeInv'
  OBVIOUS
<1>1. CASE UNCHANGED vars
  BY <1>1 DEF TypeInv, WorldTypes, CycleTypes, FlagTypes, Stage, vars, world, cycle
<1>2. CASE World
  BY <1>2, WorldStepTypes
<1>3. CASE Begin \/ BeginFails \/ EndCycle \/ Deadline \/ Crash
  BY <1>3, CycleStepTypes
<1>4. CASE \E v \in Vim : StepOfVim(v) \/ WriteFails(v)
  BY <1>4, VimStepTypes
<1>5. CASE (\E s \in Sdnc : CheckSdnc(s)) \/ (\E t \in Target : TaskFails(t))
  BY <1>5, OtherStepTypes
<1>6. CASE (\E l \in vnfs : CollectVnf(l)) \/ VnfFails
  BY <1>6, VnfStepTypes
<1> QED BY <1>1, <1>2, <1>3, <1>4, <1>5, <1>6 DEF Next

\* The VNFs of a cycle are those that were there when it began.
VnfTypes == vnfs \subseteq Machine \X {"unfilled", "filled"}

LEMMA VnfsKept == TypeInv /\ VnfTypes /\ [Next]_vars => VnfTypes'
<1> SUFFICES ASSUME TypeInv, VnfTypes, [Next]_vars PROVE VnfTypes'
  OBVIOUS
<1>1. CASE Begin
  <2>1. vnfs' = {<<m, record[m]>> : m \in {x \in Machine : record[x] # "absent"}}
    BY <1>1 DEF Begin
  <2>2. \A m \in Machine : record[m] # "absent" => record[m] \in {"unfilled", "filled"}
    BY DEF TypeInv, WorldTypes
  <2> QED BY <2>1, <2>2 DEF VnfTypes
<1>2. CASE (\E l \in vnfs : CollectVnf(l)) \/ VnfFails \/ EndCycle \/ Deadline \/ Crash
  <2>1. vnfs' \subseteq vnfs
    BY <1>2 DEF CollectVnf, VnfFails, EndCycle, Deadline, Crash
  <2> QED BY <2>1 DEF VnfTypes
<1>3. CASE World \/ BeginFails \/ UNCHANGED vars
  <2>1. UNCHANGED vnfs
    BY <1>3 DEF World, Happen, Deploy, Undeploy, ChangeState, FailOrRecover, Use, BeginFails,
                KeystoneFailsOrRecovers, TelemetryFailsOrRecovers, vars, cycle
  <2> QED BY <2>1 DEF VnfTypes
<1>4. CASE \/ \E v \in Vim : StepOfVim(v) \/ WriteFails(v)
           \/ \E s \in Sdnc : CheckSdnc(s)
           \/ \E t \in Target : TaskFails(t)
  <2>0. \A t, r : Goes(t, r) => UNCHANGED vnfs
    BY DEF Goes
  <2>1. ASSUME NEW v \in Vim, Construct(v) \/ CheckVim(v) PROVE UNCHANGED vnfs
    BY <2>0, <2>1 DEF Construct, CheckVim
  <2>2. ASSUME NEW v \in Vim, CompareLimits(v) PROVE UNCHANGED vnfs
    BY <2>0, <2>2 DEF CompareLimits
  <2>3. ASSUME NEW v \in Vim, WriteLimits(v) \/ WriteFails(v) PROVE UNCHANGED vnfs
    BY <2>0, <2>3 DEF WriteLimits, WriteFails
  <2>4. ASSUME NEW v \in Vim, ListVnfs(v) \/ Return(v) PROVE UNCHANGED vnfs
    BY <2>0, <2>4 DEF ListVnfs, Return, Ends
  <2>5. ASSUME NEW v \in Vim, NEW l, AskNova(v, l) \/ AskVcd(v, l) PROVE UNCHANGED vnfs
    BY <2>0, <2>5 DEF AskNova, AskVcd, Reports
  <2>6. ASSUME NEW v \in Vim, VisitMachine(v) PROVE UNCHANGED vnfs
    BY <2>0, <2>5, <2>6 DEF VisitMachine, Raises
  <2>7. ASSUME NEW s \in Sdnc, CheckSdnc(s) PROVE UNCHANGED vnfs
    BY <2>0, <2>7 DEF CheckSdnc, Ends
  <2>8. ASSUME NEW t \in Target, TaskFails(t) PROVE UNCHANGED vnfs
    BY <2>8 DEF TaskFails
  <2> QED
    BY <1>4, <2>1, <2>2, <2>3, <2>4, <2>6, <2>7, <2>8 DEF StepOfVim, VnfTypes
<1> QED BY <1>1, <1>2, <1>3, <1>4 DEF Next

LEMMA TypesKept == Spec => []TypeInv
BY InitTypes, NextTypes, PTL DEF Spec

\* What the collectors read, take and write has its type in every state, also when a
\* vApp is empty, a kind of resources raises or a cycle is cut short (base_osinfra.py,
\* vmware.py, onos.py, backends/prometheus.py): the step of a task is always at one of
\* the kinds of resources, and vm_status_metric is never reported unset.
THEOREM TypeCorrect == Spec => []TypeOK
<1>1. TypeInv /\ VnfTypes => TypeOK
  BY DEF TypeInv, WorldTypes, CycleTypes, FlagTypes, VnfTypes, TypeOK
<1>2. Init => VnfTypes
  BY DEF Init, VnfTypes
<1>3. Spec => []VnfTypes
  BY <1>2, TypesKept, VnfsKept, PTL DEF Spec
<1> QED BY <1>1, <1>3, TypesKept, PTL

-----------------------------------------------------------------------------
(* No VIM, SDN controller or machine is reported with two values.           *)

\* Samples of one name and one VIM, SDN controller or machine are the same sample.
OneValue(X) == \A x \in X, y \in X : x.name = y.name /\ x.of = y.of => x = y

\* The task that takes a sample.
OwnerOf(x) == IF x.name = "vm_status" THEN HostOf[x.of] ELSE x.of

\* A task has one sample of everything it reports, only of what is its own, and of no
\* machine it has still to visit. What vm_status_metric holds was reported before.
Taken(t, r) ==
  /\ OneValue(ToSet(r.metrics))
  /\ \A x \in ToSet(r.metrics) : OwnerOf(x) = t
  /\ r.at \in {"none", "submitted", "check", "done", "swallowed", "raised"} => r.metrics = <<>>
  /\ r.at \in {"limits", "write", "list"} => \A x \in ToSet(r.metrics) : x.name # "vm_status"
  /\ r.at # "machines" => r.left = {} /\ r.last = NoMetric
  /\ r.last = NoMetric \/ r.last \in ToSet(r.metrics)
  /\ \A l \in r.left :
       /\ HostOf[l[1]] = t
       /\ \A k \in r.left : k[1] = l[1] => k = l
       /\ \A x \in ToSet(r.metrics) : x.name = "vm_status" => x.of # l[1]

\* What the cycle has was taken by tasks that are done.
Gathered ==
  /\ OneValue(ToSet(metrics))
  /\ \A x \in ToSet(metrics) : OwnerOf(x) \in Target /\ task[OwnerOf(x)].at = "done"

\* Between two cycles nothing is left.
Idle == ~collecting => metrics = <<>> /\ \A t \in Target : task[t] = Blank

SampleInv ==
  /\ OneValue(exported) /\ Gathered /\ Idle
  /\ \A t \in Target : Taken(t, task[t])

LEMMA NothingTaken ==
  ASSUME NEW t, NEW r, r.metrics = <<>>, r.left = {}, r.last = NoMetric
  PROVE  Taken(t, r)
<1>1. ToSet(r.metrics) = {}
  BY DEF ToSet
<1> QED BY <1>1 DEF Taken, OneValue

\* What the exporter does to the labels makes no two samples of one.
LEMMA HandleOneValue ==
  ASSUME NEW ms \in Seq(Metric), OneValue(ToSet(ms))
  PROVE  OneValue(Handle(ms))
<1> SUFFICES ASSUME NEW x \in Handle(ms), NEW y \in Handle(ms), x.name = y.name, x.of = y.of
             PROVE  x = y
  BY DEF OneValue
<1>1. PICK m \in ToSet(ms) :
        x = [m EXCEPT !.labels = First(ms, m.name).labels] /\ x.name = m.name /\ x.of = m.of
  BY HandleTypes
<1>2. PICK n \in ToSet(ms) :
        y = [n EXCEPT !.labels = First(ms, n.name).labels] /\ y.name = n.name /\ y.of = n.of
  BY HandleTypes
<1>3. m = n
  <2>1. m.name = n.name /\ m.of = n.of
    BY <1>1, <1>2
  <2> QED BY <2>1 DEF OneValue
<1> QED BY <1>1, <1>2, <1>3

\* A step of one task that ends nothing.
LEMMA OneTaskSamples ==
  ASSUME TypeInv, SampleInv, NEW t \in Target, NEW r \in Task, task' = [task EXCEPT ![t] = r],
         UNCHANGED <<metrics, exported>>, UNCHANGED collecting,
         task[t].at \notin {"none", "done"}, Taken(t, r)
  PROVE  SampleInv'
<1>1. task \in [Target -> Task]
  BY DEF TypeInv, CycleTypes
<1>2. OneValue(exported)' /\ Idle'
  <2>1. OneValue(exported)'
    BY DEF SampleInv, OneValue
  <2>2. collecting
    BY BlankTypes DEF SampleInv, Idle
  <2> QED BY <2>1, <2>2 DEF Idle
<1>3. Gathered'
  <2>1. OneValue(ToSet(metrics))'
    BY DEF SampleInv, Gathered, OneValue
  <2>2. ASSUME NEW x \in ToSet(metrics)
        PROVE  OwnerOf(x) \in Target /\ task'[OwnerOf(x)].at = "done"
    <3>1. OwnerOf(x) \in Target /\ task[OwnerOf(x)].at = "done"
      BY DEF SampleInv, Gathered
    <3> QED BY <1>1, <3>1
  <2> QED BY <2>1, <2>2 DEF Gathered
<1>4. \A u \in Target : Taken(u, task'[u])
  BY <1>1 DEF SampleInv
<1> QED BY <1>2, <1>3, <1>4 DEF SampleInv

\* A task that ends hands over samples of its own.
LEMMA EndSamples ==
  ASSUME TypeInv, SampleInv, NEW t \in Target, NEW ms \in Seq(Metric),
         task' = [task EXCEPT ![t] = [Blank EXCEPT !.at = "done"]],
         metrics' = metrics \o ms, UNCHANGED exported, UNCHANGED collecting,
         task[t].at \notin {"none", "done"},
         OneValue(ToSet(ms)), \A x \in ToSet(ms) : OwnerOf(x) = t
  PROVE  SampleInv'
<1>1. task \in [Target -> Task] /\ metrics \in Seq(Metric)
  BY DEF TypeInv, CycleTypes
<1>2. ToSet(metrics \o ms) = ToSet(metrics) \cup ToSet(ms)
  BY <1>1, JoinedElements
<1>3. OneValue(exported)' /\ Idle'
  <2>1. OneValue(exported)'
    BY DEF SampleInv, OneValue
  <2>2. collecting
    BY BlankTypes DEF SampleInv, Idle
  <2> QED BY <2>1, <2>2 DEF Idle
<1>4. \A x \in ToSet(metrics) : OwnerOf(x) \in Target \ {t} /\ task[OwnerOf(x)].at = "done"
  BY DEF SampleInv, Gathered
<1>5. OneValue(ToSet(metrics \o ms))
  <2>1. \A x \in ToSet(metrics), y \in ToSet(ms) : ~(x.name = y.name /\ x.of = y.of)
    BY <1>4 DEF OwnerOf
  <2>2. OneValue(ToSet(metrics))
    BY DEF SampleInv, Gathered
  <2> QED BY <1>2, <2>1, <2>2 DEF OneValue
<1>6. \A x \in ToSet(metrics \o ms) : OwnerOf(x) \in Target /\ task'[OwnerOf(x)].at = "done"
  <2>1. [Blank EXCEPT !.at = "done"].at = "done"
    BY DEF Blank
  <2> HIDE DEF Blank
  <2> QED BY <1>1, <1>2, <1>4, <2>1
<1>7. Gathered'
  BY <1>5, <1>6 DEF Gathered, OneValue
<1>8. ASSUME NEW u \in Target PROVE Taken(u, task'[u])
  <2> DEFINE q == [Blank EXCEPT !.at = "done"]
  <2>1. Taken(t, q)
    <3>1. q.metrics = <<>> /\ q.left = {} /\ q.last = NoMetric
      BY DEF Blank
    <3> HIDE DEF q
    <3> QED BY <3>1, NothingTaken
  <2>2. task' = [task EXCEPT ![t] = q]
    OBVIOUS
  <2> HIDE DEF q
  <2> QED BY <1>1, <2>1, <2>2 DEF SampleInv
<1> QED BY <1>3, <1>7, <1>8 DEF SampleInv

\* The steps of the cycle as a whole and of the world.
LEMMA CycleSamples ==
  ASSUME TypeInv, SampleInv,
         World \/ Begin \/ BeginFails \/ EndCycle \/ Deadline \/ Crash \/ UNCHANGED vars
  PROVE  SampleInv'
<1>1. CASE World \/ BeginFails \/ UNCHANGED vars
  <2>1. UNCHANGED <<exported, metrics, collecting, task>>
    <3>1. Happen => UNCHANGED <<exported, metrics, collecting, task>>
      BY DEF Happen, cycle
    <3>2. World => Happen
      BY DEF World, Deploy, Undeploy, ChangeState, FailOrRecover, KeystoneFailsOrRecovers,
             TelemetryFailsOrRecovers, Use
    <3> QED BY <1>1, <3>1, <3>2 DEF BeginFails, vars, cycle
  <2> QED BY <2>1 DEF SampleInv, OneValue, Gathered, Idle, Taken
<1>2. CASE Begin
  <2> DEFINE q == [Blank EXCEPT !.at = "submitted"]
  <2>1. ~collecting /\ collecting' /\ UNCHANGED <<metrics, exported>>
        /\ task' = [t \in Target |-> q]
    BY <1>2 DEF Begin
  <2>2. metrics' = <<>>
    BY <2>1 DEF SampleInv, Idle
  <2>3. q.metrics = <<>> /\ q.left = {} /\ q.last = NoMetric
    BY DEF Blank
  <2> HIDE DEF q
  <2>4. OneValue(exported)' /\ Idle'
    BY <2>1 DEF SampleInv, OneValue, Idle
  <2>5. Gathered'
    BY <2>2 DEF Gathered, OneValue, ToSet
  <2>6. \A t \in Target : Taken(t, task'[t])
    BY <2>1, <2>3, NothingTaken
  <2> QED BY <2>4, <2>5, <2>6 DEF SampleInv
<1>3. CASE EndCycle \/ Deadline \/ Crash
  <2>1. exported' \in {exported, Handle(metrics), {}} /\ metrics' = <<>>
        /\ task' = [t \in Target |-> Blank]
    <3>1. CASE EndCycle
      BY <3>1 DEF EndCycle, NoTasks
    <3>2. CASE Deadline
      BY <3>2 DEF Deadline, NoTasks
    <3>3. CASE Crash
      BY <3>3 DEF Crash, NoTasks
    <3> QED BY <1>3, <3>1, <3>2, <3>3
  <2>2. metrics \in Seq(Metric) /\ OneValue(exported) /\ OneValue(ToSet(metrics))
    BY DEF TypeInv, CycleTypes, SampleInv, Gathered
  <2>3. OneValue(Handle(metrics)) /\ OneValue({})
    BY <2>2, HandleOneValue DEF OneValue
  <2>4. OneValue(exported)'
    <3>1. OneValue(exported')
      BY <2>1, <2>2, <2>3
    <3> QED BY <3>1
  <2>5. Gathered' /\ Idle'
    BY <2>1 DEF Gathered, Idle, OneValue, ToSet
  <2>6. \A t \in Target : Taken(t, task'[t])
    BY <2>1, BlankTypes, NothingTaken
  <2> QED BY <2>4, <2>5, <2>6 DEF SampleInv
<1> QED BY <1>1, <1>2, <1>3

\* The steps of the task of a VIM.
LEMMA VimSamples ==
  ASSUME TypeInv, SampleInv, NEW v \in Vim, StepOfVim(v) \/ WriteFails(v)
  PROVE  SampleInv'
<1> DEFINE r == task[v]
<1>1. v \in Target /\ r \in Task /\ Stage(v) /\ Taken(v, r)
  BY ReportTypes DEF TypeInv, CycleTypes, SampleInv
<1>2. r.kind \in 1..4 /\ r.left \in SUBSET (Machine \X {"unfilled", "filled"})
      /\ r.metrics \in Seq(Metric) /\ r.last \in Metric \cup {NoMetric} /\ r.value \in Limit
  BY <1>1 DEF Task
<1>3. ASSUME NEW q \in Task, Goes(v, q), UNCHANGED metrics, r.at \notin {"none", "done"}, Taken(v, q)
      PROVE  SampleInv'
  <2>1. UNCHANGED <<metrics, exported>> /\ UNCHANGED collecting /\ task' = [task EXCEPT ![v] = q]
    BY <1>3 DEF Goes
  <2> QED BY <1>1, <1>3, <2>1, OneTaskSamples
<1>4. \A a \in {"swallowed", "raised"} :
        Goes(v, [Blank EXCEPT !.at = a]) /\ UNCHANGED metrics /\ r.at \notin {"none", "done"}
          => SampleInv'
  <2> TAKE a \in {"swallowed", "raised"}
  <2> DEFINE q == [Blank EXCEPT !.at = a]
  <2>1. q \in Task /\ q.metrics = <<>> /\ q.left = {} /\ q.last = NoMetric
    BY BlankTypes DEF At, Blank
  <2>2. Goes(v, q) /\ UNCHANGED metrics /\ r.at \notin {"none", "done"} => SampleInv'
    <3> HIDE DEF q
    <3> QED BY <1>3, <2>1, NothingTaken
  <2> QED BY <2>2
<1>5. CASE Construct(v)
  <2> DEFINE q == [Blank EXCEPT !.at = "check"]
             c == [Blank EXCEPT !.at = "check", !.copy = account[v]]
  <2>1. q \in Task /\ q.metrics = <<>> /\ q.left = {} /\ q.last = NoMetric
    BY BlankTypes DEF At, Blank
  <2>2. v \in NovaVim => c \in Task
    BY BlankTypes, TaskChanges DEF At, TypeInv, CycleTypes
  <2>3. c.metrics = <<>> /\ c.left = {} /\ c.last = NoMetric
    BY DEF Blank
  <2>4. \/ Goes(v, q) \/ (v \in NovaVim /\ Goes(v, c))
        \/ Goes(v, [Blank EXCEPT !.at = "swallowed"])
    BY <1>5 DEF Construct
  <2>5. UNCHANGED metrics /\ r.at \notin {"none", "done"}
    BY <1>5 DEF Construct
  <2> HIDE DEF q, c, r
  <2> QED BY <1>3, <1>4, <2>1, <2>2, <2>3, <2>4, <2>5, NothingTaken
<1>6. CASE CheckVim(v)
  <2> DEFINE status ==
        [name |-> "vim_status", of |-> v, value |-> VimStatus(v), labels |-> "status"]
             update == v \in NovaVim /\ answers[v] /\ Recorded[v] # {}
             a == IF update THEN "limits" ELSE "list"
             q == [r EXCEPT !.at = a, !.metrics = <<status>>]
  <2>1. VimStatus(v) \in Value
    BY DEF VimStatus, Value, Status
  <2>2. status \in Metric /\ status.name = "vim_status" /\ OwnerOf(status) = v
    BY <2>1, ReportTypes DEF OwnerOf
  <2>3. <<status>> \in Seq(Metric) /\ a \in {"limits", "list"} /\ ToSet(<<status>>) = {status}
    <3> HIDE DEF status, update
    <3> QED BY <2>2 DEF ToSet
  <2>4. q \in Task
    <3> HIDE DEF status, a
    <3> QED BY <1>1, <2>3, TaskChanges DEF At
  <2>5. r.at = "check" /\ Goes(v, q) /\ UNCHANGED metrics
    BY <1>6 DEF CheckVim
  <2>6. q.at = a /\ q.metrics = <<status>> /\ q.left = {} /\ q.last = NoMetric
    <3>1. r.left = {} /\ r.last = NoMetric
      BY <1>1, <2>5 DEF Taken
    <3> HIDE DEF status, a
    <3> QED BY <1>1, <3>1 DEF Task
  <2> HIDE DEF q, a, status, update
  <2>7. Taken(v, q)
    BY <2>2, <2>3, <2>6 DEF Taken, OneValue
  <2> QED BY <1>3, <2>4, <2>5, <2>7
<1>7. ASSUME NEW q \in Task, r.at \in {"limits", "write"}, q.at \in {"limits", "write", "list"},
             q.metrics = r.metrics, q.left = r.left, q.last = r.last
      PROVE  Taken(v, q)
  <2> HIDE DEF r
  <2> QED BY <1>1, <1>7 DEF Taken
<1>8. ASSUME r.at \in {"limits", "write"}
      PROVE  NextKind(r) \in Task /\ Taken(v, NextKind(r))
  <2>1. r.kind <= 3
    BY <1>1, <1>8 DEF Stage
  <2> HIDE DEF r
  <2> QED BY <1>1, <1>7, <1>8, <2>1, NextKindTypes
<1>9. CASE CompareLimits(v)
  <2>1. r.at = "limits" /\ r.kind <= 3 /\ v \in NovaVim /\ UNCHANGED metrics
    BY <1>1, <1>9 DEF CompareLimits, Stage
  <2>2. Kinds[r.kind] \in Kind
    BY <1>2, <2>1 DEF Kinds, Kind
  <2> DEFINE q == [r EXCEPT !.at = "write", !.value = limits[v][Kinds[r.kind]]]
  <2>3. limits[v][Kinds[r.kind]] \in Limit
    BY <2>1, <2>2 DEF TypeInv, WorldTypes
  <2>4. q \in Task
    BY <1>1, <2>3, TaskChanges DEF At
  <2>5. q.at = "write" /\ q.metrics = r.metrics /\ q.left = r.left /\ q.last = r.last
    BY <1>1 DEF Task
  <2>6. Goes(v, NextKind(r)) \/ Goes(v, q)
    BY <1>9 DEF CompareLimits, AfterRaise
  <2> HIDE DEF q, r
  <2>7. Taken(v, q)
    BY <1>7, <2>1, <2>4, <2>5
  <2> QED BY <1>3, <1>8, <2>1, <2>4, <2>6, <2>7
<1>10. CASE WriteLimits(v) \/ WriteFails(v)
  <2>1. r.at = "write" /\ UNCHANGED <<metrics, exported>> /\ UNCHANGED collecting
        /\ task' = [task EXCEPT ![v] = NextKind(r)]
    BY <1>1, <1>10 DEF WriteLimits, WriteFails, Goes
  <2> HIDE DEF r
  <2>2. task[v].at \notin {"none", "done"}
    BY <2>1 DEF r
  <2> QED BY <1>1, <1>8, <2>1, <2>2, OneTaskSamples
<1>11. CASE ListVnfs(v)
  <2> DEFINE X == {<<m, record[m]>> : m \in {x \in Machine : HostOf[x] = v /\ record[x] # "absent"}}
             q == [r EXCEPT !.at = "machines", !.left = X]
  <2>1. X \in SUBSET (Machine \X {"unfilled", "filled"})
    BY DEF TypeInv, WorldTypes
  <2>2. \A l \in X : HostOf[l[1]] = v /\ \A k \in X : k[1] = l[1] => k = l
    OBVIOUS
  <2>3. q \in Task
    <3> HIDE DEF X
    <3> QED BY <1>1, <2>1, TaskChanges DEF At
  <2>4. q.at = "machines" /\ q.left = X /\ q.metrics = r.metrics /\ q.last = r.last
    <3> HIDE DEF X
    <3> QED BY <1>1 DEF Task
  <2>5. r.at = "list" /\ Goes(v, q) /\ UNCHANGED metrics
    BY <1>11 DEF ListVnfs
  <2> HIDE DEF q, X, r
  <2>6. Taken(v, q)
    BY <1>1, <2>2, <2>4, <2>5 DEF Taken
  <2> QED BY <1>3, <2>3, <2>5, <2>6
<1>12. CASE VisitMachine(v)
  <2>1. PICK l \in r.left :
          IF record[l[1]] = "absent" THEN Raises(v)
          ELSE /\ IF v \in NovaVim THEN AskNova(v, l) ELSE AskVcd(v, l)
               /\ UNCHANGED <<account, metrics>>
    BY <1>12 DEF VisitMachine
  <2>2. r.at = "machines" /\ l[1] \in Machine
    BY <1>2, <1>12 DEF VisitMachine
  <2>3. CASE Raises(v)
    BY <1>4, <2>2, <2>3 DEF Raises
  \* Either a sample of the machine visited, or the one reported last.
  <2>4. ASSUME NEW x \in Metric, Reports(v, l, x), UNCHANGED metrics,
               (x.name = "vm_status" /\ x.of = l[1]) \/ x = r.last
        PROVE  SampleInv'
    <3> DEFINE q == [r EXCEPT !.left = @ \ {l}, !.last = x, !.metrics = Append(@, x)]
    <3>1. q \in Task /\ q.at = "machines" /\ q.left = r.left \ {l} /\ q.last = x
          /\ ToSet(q.metrics) = ToSet(r.metrics) \cup {x}
      <4>1. Append(r.metrics, x) \in Seq(Metric) /\ ToSet(Append(r.metrics, x)) = ToSet(r.metrics) \cup {x}
        <5>1. r.metrics \in Seq(Metric)
          BY <1>2
        <5> HIDE DEF r
        <5>2. \A s \in Seq(Metric), e \in Metric :
                Append(s, e) \in Seq(Metric) /\ ToSet(Append(s, e)) = ToSet(s) \cup {e}
          BY AppendedElements
        <5>3. x \in Metric
          BY <2>4
        <5> QED BY <5>1, <5>2, <5>3, Zenon
      <4>2. q \in Task
        <5> HIDE DEF r
        <5> QED BY <1>1, <1>2, <4>1 DEF Task
      <4>3. /\ q.at = "machines" /\ q.left = r.left \ {l} /\ q.last = x
            /\ q.metrics = Append(r.metrics, x)
        <5> HIDE DEF r
        <5> QED BY <1>1, <2>2 DEF Task
      <4> HIDE DEF q, r
      <4> QED BY <4>1, <4>2, <4>3
    <3>2. Goes(v, q)
      BY <2>4 DEF Reports
    <3> HIDE DEF q, r
    <3>3. Taken(v, q)
      <4>1. CASE x = r.last
        <5>1. x \in ToSet(r.metrics)
          BY <1>1, <4>1, ReportTypes DEF Taken
        <5>2. ToSet(q.metrics) = ToSet(r.metrics)
          BY <3>1, <5>1
        <5> QED BY <1>1, <3>1, <5>1, <5>2 DEF Taken
      <4>2. CASE x.name = "vm_status" /\ x.of = l[1]
        <5>1. HostOf[l[1]] = v /\ \A y \in ToSet(r.metrics) : y.name = "vm_status" => y.of # l[1]
          BY <1>1 DEF Taken
        <5>2. OneValue(ToSet(q.metrics))
          BY <1>1, <3>1, <4>2, <5>1 DEF Taken, OneValue
        <5>3. \A y \in ToSet(q.metrics) : OwnerOf(y) = v
          BY <1>1, <3>1, <4>2, <5>1 DEF Taken, OwnerOf
        <5>4. \A k \in q.left :
                /\ HostOf[k[1]] = v
                /\ \A k2 \in q.left : k2[1] = k[1] => k2 = k
                /\ \A y \in ToSet(q.metrics) : y.name = "vm_status" => y.of # k[1]
          BY <1>1, <3>1, <4>2 DEF Taken
        <5> QED BY <3>1, <5>2, <5>3, <5>4 DEF Taken
      <4> QED BY <2>4, <4>1, <4>2
    <3> QED BY <1>3, <2>2, <2>4, <3>1, <3>2, <3>3
  <2>5. ASSUME AskNova(v, l), UNCHANGED metrics PROVE SampleInv'
    <3>1. CASE l[2] = "unfilled"
      <4> DEFINE q == [r EXCEPT !.left = @ \ {l}]
      <4>1. q \in Task /\ q.at = r.at /\ q.left = r.left \ {l} /\ q.last = r.last
            /\ q.metrics = r.metrics
        BY <1>1, <1>2 DEF Task
      <4>2. Goes(v, q)
        BY <2>5, <3>1 DEF AskNova
      <4> HIDE DEF q, r
      <4>3. Taken(v, q)
        BY <1>1, <2>2, <4>1 DEF Taken
      <4> QED BY <1>3, <2>2, <2>5, <4>1, <4>2, <4>3
    <3>2. CASE l[2] # "unfilled"
      <4> DEFINE ok == answers[v] /\ state[l[1]] = "active"
                 x == [name |-> "vm_status", of |-> l[1], value |-> Status(ok), labels |-> "vdu"]
      <4>1. Status(ok) \in Value
        BY DEF Status, Value
      <4>2. x \in Metric /\ x.name = "vm_status" /\ x.of = l[1]
        BY <2>2, <4>1, ReportTypes
      <4>3. Reports(v, l, x)
        BY <2>5, <3>2 DEF AskNova
      <4> HIDE DEF x, ok
      <4> QED BY <2>4, <2>5, <4>2, <4>3
    <3> QED BY <3>1, <3>2
  <2>6. ASSUME AskVcd(v, l), UNCHANGED metrics PROVE SampleInv'
    <3> DEFINE empty == answers[v] /\ state[l[1]] = "none"
               ok == answers[v] /\ state[l[1]] = "active"
               y == [name |-> "vm_status", of |-> l[1], value |-> Status(ok), labels |-> "vdur"]
               x == IF empty THEN r.last ELSE y
    <3>1. CASE l[2] = "unfilled" \/ (empty /\ r.last = NoMetric)
      BY <1>4, <2>2, <2>6, <3>1 DEF AskVcd
    <3>2. CASE ~(l[2] = "unfilled" \/ (empty /\ r.last = NoMetric))
      <4>1. Status(ok) \in Value
        BY DEF Status, Value
      <4>2. y \in Metric /\ y.name = "vm_status" /\ y.of = l[1]
        BY <2>2, <4>1, ReportTypes
      <4>3. Reports(v, l, x)
        BY <2>6, <3>2 DEF AskVcd
      <4>4. x \in Metric /\ ((x.name = "vm_status" /\ x.of = l[1]) \/ x = r.last)
        <5> HIDE DEF y
        <5> QED BY <1>2, <3>2, <4>2
      <4> HIDE DEF x, y, empty, ok
      <4> QED BY <2>4, <2>6, <4>3, <4>4
    <3> QED BY <3>1, <3>2
  <2> QED BY <2>1, <2>3, <2>5, <2>6
<1>13. CASE Return(v)
  <2>1. r.at = "machines" /\ task' = [task EXCEPT ![v] = [Blank EXCEPT !.at = "done"]]
        /\ metrics' = metrics \o r.metrics /\ UNCHANGED exported /\ UNCHANGED collecting
    BY <1>13 DEF Return, Ends, Goes
  <2>2. OneValue(ToSet(r.metrics)) /\ \A x \in ToSet(r.metrics) : OwnerOf(x) = v
    BY <1>1 DEF Taken
  <2> QED BY <1>1, <1>2, <2>1, <2>2, EndSamples
<1> QED BY <1>5, <1>6, <1>9, <1>10, <1>11, <1>12, <1>13 DEF StepOfVim

LEMMA OtherSamples ==
  ASSUME TypeInv, SampleInv,
         (\E s \in Sdnc : CheckSdnc(s)) \/ (\E t \in Target : TaskFails(t))
  PROVE  SampleInv'
<1>1. ASSUME NEW s \in Sdnc, CheckSdnc(s) PROVE SampleInv'
  <2> DEFINE x == [name |-> "sdnc_status", of |-> s, value |-> Status(answers[s]), labels |-> "status"]
  <2>1. x \in Metric /\ OwnerOf(x) = s /\ s \in Target
    BY ReportTypes DEF Value, Status, OwnerOf
  <2>2. task[s].at = "submitted" /\ metrics' = metrics \o <<x>>
        /\ task' = [task EXCEPT ![s] = [Blank EXCEPT !.at = "done"]]
        /\ UNCHANGED exported /\ UNCHANGED collecting
    BY <1>1 DEF CheckSdnc, Ends, Goes, Blank
  <2> HIDE DEF x
  <2>3. <<x>> \in Seq(Metric) /\ ToSet(<<x>>) = {x}
    BY <2>1 DEF ToSet
  <2>4. OneValue(ToSet(<<x>>)) /\ \A y \in ToSet(<<x>>) : OwnerOf(y) = s
    BY <2>1, <2>3 DEF OneValue
  <2> QED BY <2>1, <2>2, <2>3, <2>4, EndSamples
<1>2. ASSUME NEW t \in Target, TaskFails(t) PROVE SampleInv'
  <2> DEFINE q == [Blank EXCEPT !.at = "raised"]
  <2>1. task' = [task EXCEPT ![t] = q] /\ UNCHANGED <<metrics, exported>> /\ UNCHANGED collecting
        /\ task[t].at \notin {"none", "done"}
    BY <1>2 DEF TaskFails
  <2>2. q \in Task /\ q.metrics = <<>> /\ q.left = {} /\ q.last = NoMetric
    BY BlankTypes DEF At, Blank
  <2> HIDE DEF q
  <2> QED BY <2>1, <2>2, NothingTaken, OneTaskSamples
<1> QED BY <1>1, <1>2

LEMMA InitSamples == Init => SampleInv
<1> SUFFICES ASSUME Init PROVE SampleInv
  OBVIOUS
<1>1. exported = {} /\ metrics = <<>> /\ task = [t \in Target |-> Blank]
  BY DEF Init, NoTasks
<1>2. OneValue(exported) /\ Gathered /\ Idle
  BY <1>1 DEF OneValue, Gathered, Idle, ToSet
<1>3. \A t \in Target : Taken(t, task[t])
  BY <1>1, BlankTypes, NothingTaken
<1> QED BY <1>2, <1>3 DEF SampleInv

LEMMA NextSamples == TypeInv /\ SampleInv /\ [Next]_vars => SampleInv'
<1> SUFFICES ASSUME TypeInv, SampleInv, [Next]_vars PROVE SampleInv'
  OBVIOUS
<1>1. CASE World \/ Begin \/ BeginFails \/ EndCycle \/ Deadline \/ Crash \/ UNCHANGED vars
  BY <1>1, CycleSamples
<1>2. CASE \E v \in Vim : StepOfVim(v) \/ WriteFails(v)
  BY <1>2, VimSamples
<1>3. CASE (\E s \in Sdnc : CheckSdnc(s)) \/ (\E t \in Target : TaskFails(t))
  BY <1>3, OtherSamples
<1>4. CASE (\E l \in vnfs : CollectVnf(l)) \/ VnfFails
  <2>1. UNCHANGED <<exported, metrics, collecting, task>>
    BY <1>4 DEF CollectVnf, VnfFails
  <2> QED BY <2>1 DEF SampleInv, OneValue, Gathered, Idle, Taken
<1> QED BY <1>1, <1>2, <1>3, <1>4 DEF Next

\* What the exporter serves has at most one sample of each VIM, SDN controller and
\* machine, so no one is reported working and broken at once: a cycle that was cut
\* short, a vApp that reports the metric of the vdur before it once more, a machine
\* that is undeployed and deployed again while a task visits the others, and the labels
\* of the first sample put on all make no two of one (base_osinfra.py, vmware.py,
\* backends/prometheus.py).
THEOREM ReportedOnce == Spec => []OneValue(exported)
<1>1. SampleInv => OneValue(exported)
  BY DEF SampleInv
<1>2. Spec => []SampleInv
  BY InitSamples, NextSamples, TypesKept, PTL DEF Spec
<1> QED BY <1>1, <1>2, PTL

=============================================================================

------------------------- MODULE OpenstackVnf_proofs -------------------------
(***************************************************************************)
(* Proofs about the tasks of OpenStack VNFs: a counter is exported in the  *)
(* place of a rate only where there is nothing to compare it with, what is *)
(* known of sums over sets, the types of the variables, no packet is       *)
(* counted twice, and no sample is lost where nothing goes wrong.          *)
(***************************************************************************)
EXTENDS OpenstackVnf, FiniteSetTheorems, WellFoundedInduction, TLAPS

\* Where a task is while it deals with a metric.
Working == {"find", "ask", "select", "create", "insert"}

\* What is indexed by tasks and by VDUs is so, and a task at work is at one of its
\* places.
Shape ==
  /\ at = [n \in Vnf |-> at[n]]
  /\ row = [n \in Vnf |-> row[n]]
  /\ metrics = [n \in Vnf |-> metrics[n]]
  /\ rows = [v \in Vdu |-> rows[v]]
  /\ pc \in [Vnf -> {"idle", "returned", "raised", "killed"} \cup Working]
  /\ \A n \in Vnf : pc[n] \in Working => at[n] \in Work(n)

\* A table that is not there has no rows.
NoTableNoRows == ~table => \A v \in Vdu : rows[v] = {}

\* A task has no row in hand before it looks for one.  When it is about to insert, the
\* table is there, and it has one of the newest rows of its VDU, or there is none.
RowOf(n) ==
  /\ pc[n] \in {"idle", "find", "ask", "select", "create"} => row[n] = {}
  /\ pc[n] = "insert" => /\ table
                         /\ row[n] \subseteq rows[VduAt(n)]
                         /\ row[n] = {} => rows[VduAt(n)] = {}

RawInv == Shape /\ NoTableNoRows /\ \A n \in Vnf : RowOf(n)

-----------------------------------------------------------------------------
(* The loops of a task.                                                    *)

\* A place is inside of both loops.
LEMMA PlaceInside ==
  ASSUME NEW n \in Vnf, NEW x \in Work(n)
  PROVE  VduOf(n, x) \in ToSet(VdursOf[n]) /\ x # Outside
<1>1. PICK i \in 1..Len(VdursOf[n]) : \E k \in 1..Len(ParamsOf[VdursOf[n][i]]) : x = <<i, k>>
  BY DEF Work
<1>2. VdursOf[n] \in Seq(Vdu)
  BY VnfAssumption
<1>3. x[1] = i /\ x # Outside
  BY <1>1, <1>2 DEF Outside
<1> QED BY <1>1, <1>2, <1>3 DEF VduOf, ToSet

\* The VDUs of a VNF are known, and no other VNF has them.
LEMMA VdusOwn ==
  ASSUME NEW n \in Vnf
  PROVE  /\ ToSet(VdursOf[n]) \subseteq Vdu
         /\ \A m \in Vnf : m # n => ToSet(VdursOf[m]) \cap ToSet(VdursOf[n]) = {}
<1>1. VdursOf[n] \in Seq(Vdu)
  BY VnfAssumption
<1>2. ToSet(VdursOf[n]) \subseteq Vdu
  BY <1>1 DEF ToSet
<1>3. \A m \in Vnf : m # n => ToSet(VdursOf[m]) \cap ToSet(VdursOf[n]) = {}
  BY VnfAssumption
<1> QED BY <1>2, <1>3

\* A task goes on at a place of its own, or it is at the end.
LEMMA FollowingPlace ==
  ASSUME NEW n \in Vnf, NEW x, GoOn(Following(n, x)) \in Working
  PROVE  Following(n, x) \in Work(n)
<1>1. Following(n, x) # Outside
  BY DEF GoOn, Working
<1> QED BY <1>1 DEF Following

LEMMA GoOnRange == \A x : GoOn(x) \in {"find", "returned"}
BY DEF GoOn

\* What a task does next leaves the others as they are.
LEMMA AdvanceShape ==
  ASSUME Shape, NEW n \in Vnf, NEW S, Advance(n, S), rows' = [v \in Vdu |-> rows'[v]]
  PROVE  /\ Shape'
         /\ pc'[n] \in {"find", "returned"} /\ row'[n] = {}
         /\ metrics'[n] = metrics[n] \cup S
         /\ \A m \in Vnf \ {n} : pc'[m] = pc[m] /\ row'[m] = row[m] /\ at'[m] = at[m]
                                 /\ metrics'[m] = metrics[m]
<1>1. /\ pc'[n] = GoOn(Following(n, at[n]))
      /\ at'[n] = Following(n, at[n])
      /\ row'[n] = {}
      /\ metrics'[n] = metrics[n] \cup S
      /\ \A m \in Vnf \ {n} : pc'[m] = pc[m] /\ row'[m] = row[m] /\ at'[m] = at[m]
                              /\ metrics'[m] = metrics[m]
  BY DEF Shape, Advance
<1>2. pc'[n] \in {"find", "returned"}
  BY <1>1, GoOnRange
<1>3. pc'[n] \in Working => at'[n] \in Work(n)
  BY <1>1, FollowingPlace
<1>4. /\ at' = [m \in Vnf |-> at'[m]]
      /\ row' = [m \in Vnf |-> row'[m]]
      /\ metrics' = [m \in Vnf |-> metrics'[m]]
  BY DEF Shape, Advance
<1>5. pc' \in [Vnf -> {"idle", "returned", "raised", "killed"} \cup Working]
  BY <1>2, GoOnRange DEF Shape, Advance, Working
<1> QED BY <1>1, <1>2, <1>3, <1>4, <1>5 DEF Shape, Work

-----------------------------------------------------------------------------
(* Steps.                                                                  *)

\* Two tasks at work are at VDUs of their own.
LEMMA VdusApart ==
  ASSUME Shape, NEW m \in Vnf, NEW n \in Vnf, m # n, pc[m] \in Working, pc[n] \in Working
  PROVE  VduAt(m) \in Vdu /\ VduAt(n) \in Vdu /\ VduAt(m) # VduAt(n)
<1>1. VduAt(m) \in ToSet(VdursOf[m]) /\ VduAt(n) \in ToSet(VdursOf[n])
  BY PlaceInside DEF Shape, VduAt
<1> QED BY <1>1, VdusOwn

\* A step of one task disturbs what is said of another one by nothing but the rows of
\* its own VDU.
LEMMA StepOfOne ==
  ASSUME RawInv, NEW n \in Vnf, Shape', NoTableNoRows', RowOf(n)', table => table',
         \A m \in Vnf \ {n} : pc'[m] = pc[m] /\ row'[m] = row[m] /\ at'[m] = at[m],
         \/ UNCHANGED rows
         \/ /\ pc[n] \in Working
            /\ \A v \in Vdu \ {VduAt(n)} : rows'[v] = rows[v]
  PROVE  RawInv'
<1>1. ASSUME NEW m \in Vnf \ {n} PROVE RowOf(m)'
  <2>1. RowOf(m)
    BY DEF RawInv
  <2>2. pc'[m] = pc[m] /\ row'[m] = row[m] /\ VduAt(m)' = VduAt(m)
    BY DEF VduAt, VduOf
  <2>3. pc[m] = "insert" => rows'[VduAt(m)] = rows[VduAt(m)]
    BY VdusApart DEF RawInv, Working
  <2> QED BY <2>1, <2>2, <2>3 DEF RowOf
<1> QED BY <1>1 DEF RawInv

\* So it is with a task that goes on.
LEMMA AdvanceStep ==
  ASSUME RawInv, NEW n \in Vnf, NEW S, Advance(n, S), NoTableNoRows', table => table',
         rows' = [v \in Vdu |-> rows'[v]],
         \/ UNCHANGED rows
         \/ /\ pc[n] \in Working
            /\ \A v \in Vdu \ {VduAt(n)} : rows'[v] = rows[v]
  PROVE  RawInv'
<1>1. /\ Shape'
      /\ pc'[n] \in {"find", "returned"} /\ row'[n] = {}
      /\ \A m \in Vnf \ {n} : pc'[m] = pc[m] /\ row'[m] = row[m] /\ at'[m] = at[m]
  BY AdvanceShape DEF RawInv
<1>2. RowOf(n)'
  BY <1>1 DEF RowOf
<1> QED BY <1>1, <1>2, StepOfOne

\* And with a task that stays where it is.
LEMMA GoStep ==
  ASSUME RawInv, NEW n \in Vnf, NEW where \in {"raised"} \cup Working, Go(n, where),
         pc[n] \in Working, UNCHANGED <<at, metrics, rows>>,
         row' = [m \in Vnf |-> row'[m]], \A m \in Vnf \ {n} : row'[m] = row[m],
         NoTableNoRows', table => table',
         where \in Working \ {"insert"} => row'[n] = {},
         where = "insert" => /\ table'
                             /\ row'[n] \subseteq rows[VduAt(n)]
                             /\ row'[n] = {} => rows[VduAt(n)] = {}
  PROVE  RawInv'
<1>1. pc'[n] = where /\ \A m \in Vnf \ {n} : pc'[m] = pc[m]
  BY DEF Go, RawInv, Shape
<1>2. Shape'
  BY DEF Go, RawInv, Shape, Work, Working
<1>3. VduAt(n)' = VduAt(n)
  BY DEF VduAt, VduOf
<1>4. RowOf(n)'
  BY <1>1, <1>3 DEF RowOf, Working
<1> QED BY <1>1, <1>2, <1>4, StepOfOne

LEMMA FindResourceStep ==
  ASSUME RawInv, NEW n \in Vnf, FindResource(n)
  PROVE  RawInv'
<1>1. /\ UNCHANGED <<table, rows>> /\ NoTableNoRows' /\ rows' = [v \in Vdu |-> rows'[v]]
      /\ pc[n] \in Working /\ row[n] = {} /\ row = [m \in Vnf |-> row[m]]
  BY DEF FindResource, RawInv, Shape, NoTableNoRows, RowOf, Working, store
<1>2. \/ Advance(n, {})
      \/ Go(n, "raised") /\ UNCHANGED <<at, row, metrics>>
      \/ Go(n, "ask") /\ UNCHANGED <<at, row, metrics>>
  BY DEF FindResource
<1> QED BY <1>1, <1>2, AdvanceStep, GoStep DEF Working

LEMMA AskStep ==
  ASSUME RawInv, NEW n \in Vnf, Ask(n)
  PROVE  RawInv'
<1>1. /\ UNCHANGED <<table, rows>> /\ NoTableNoRows' /\ rows' = [v \in Vdu |-> rows'[v]]
      /\ pc[n] \in Working /\ row[n] = {} /\ row = [m \in Vnf |-> row[m]]
  BY DEF Ask, RawInv, Shape, NoTableNoRows, RowOf, Working, store
<1>2. \/ \E S : Advance(n, S)
      \/ Go(n, "select") /\ UNCHANGED <<at, row, metrics>>
  BY DEF Ask, Got
<1> QED BY <1>1, <1>2, AdvanceStep, GoStep DEF Working

LEMMA SelectStep ==
  ASSUME RawInv, NEW n \in Vnf, Select(n)
  PROVE  RawInv'
<1>1. /\ UNCHANGED <<table, rows, at, metrics>> /\ NoTableNoRows'
      /\ pc[n] \in Working /\ row[n] = {} /\ row = [m \in Vnf |-> row[m]]
  BY DEF Select, RawInv, Shape, NoTableNoRows, RowOf, Working, store
<1>2. \/ Go(n, "create") /\ UNCHANGED row
      \/ /\ Go(n, "insert") /\ table
         /\ \/ rows[VduAt(n)] = {} /\ UNCHANGED row
            \/ \E r \in rows[VduAt(n)] : row' = [row EXCEPT ![n] = {r}]
  BY DEF Select
<1>3. CASE Go(n, "create") /\ UNCHANGED row
  BY <1>1, <1>3, GoStep DEF Working
<1>4. CASE Go(n, "insert") /\ table /\ rows[VduAt(n)] = {} /\ UNCHANGED row
  BY <1>1, <1>4, GoStep DEF Working
<1>5. CASE /\ Go(n, "insert") /\ table
           /\ \E r \in rows[VduAt(n)] : row' = [row EXCEPT ![n] = {r}]
  <2>1. PICK r \in rows[VduAt(n)] : row' = [row EXCEPT ![n] = {r}]
    BY <1>5
  <2>2. /\ row'[n] = {r} /\ \A m \in Vnf \ {n} : row'[m] = row[m]
        /\ row' = [m \in Vnf |-> row'[m]]
    BY <1>1, <2>1
  <2> QED BY <1>1, <1>5, <2>2, GoStep DEF Working
<1> QED BY <1>2, <1>3, <1>4, <1>5

\* Who creates the table finds no rows in it.
LEMMA CreateStep ==
  ASSUME RawInv, NEW n \in Vnf, Create(n)
  PROVE  RawInv'
<1>1. /\ table' /\ UNCHANGED rows /\ NoTableNoRows' /\ rows' = [v \in Vdu |-> rows'[v]]
      /\ pc[n] \in Working /\ row[n] = {} /\ row = [m \in Vnf |-> row[m]]
  BY DEF Create, RawInv, Shape, NoTableNoRows, RowOf, Working
<1>2. \/ Advance(n, {})
      \/ ~table /\ Go(n, "insert") /\ UNCHANGED <<at, row, metrics>>
  BY DEF Create
<1>3. ~table => rows[VduAt(n)] = {}
  BY <1>1, PlaceInside, VdusOwn DEF RawInv, Shape, NoTableNoRows, VduAt
<1> QED BY <1>1, <1>2, <1>3, AdvanceStep, GoStep DEF Working

LEMMA InsertStep ==
  ASSUME RawInv, NEW n \in Vnf, Insert(n)
  PROVE  RawInv'
<1>1. pc[n] \in Working /\ table /\ UNCHANGED table /\ NoTableNoRows'
  BY DEF Insert, RawInv, RowOf, Working, NoTableNoRows
<1>2. UNCHANGED rows \/ \E k : SqlInsert(VduAt(n), k)
  BY DEF Insert
<1>3. /\ rows' = [v \in Vdu |-> rows'[v]]
      /\ \A v \in Vdu \ {VduAt(n)} : rows'[v] = rows[v]
  BY <1>2 DEF SqlInsert, RawInv, Shape
<1>4. \E S : Advance(n, S)
  BY DEF Insert
<1> QED BY <1>1, <1>3, <1>4, AdvanceStep

LEMMA BeginStep ==
  ASSUME RawInv, Begin
  PROVE  RawInv'
<1>1. /\ UNCHANGED <<store, row, metrics>>
      /\ \A n \in Vnf : row[n] = {}
  BY DEF Begin, RawInv, RowOf
<1>2. at' = [n \in Vnf |-> Following(n, Outside)]
  BY DEF Begin
<1>3. /\ pc' = [n \in Vnf |-> pc'[n]]
      /\ \A n \in Vnf : pc'[n] \in {"raised", GoOn(Following(n, Outside))}
  BY DEF Begin, GetBackendFails
<1>4. \A n \in Vnf : pc'[n] \in {"raised", "find", "returned"}
  BY <1>3, GoOnRange
<1>5. \A n \in Vnf : pc'[n] \in Working => at'[n] \in Work(n)
  BY <1>2, <1>3, FollowingPlace DEF Working
<1>6. Shape'
  BY <1>1, <1>2, <1>3, <1>4, <1>5 DEF RawInv, Shape, Work, Working, store
<1> QED BY <1>1, <1>4, <1>6 DEF RawInv, NoTableNoRows, RowOf, store

\* A cycle that ends or a container that dies leaves no task at work.
LEMMA ForgetStep ==
  ASSUME RawInv, EndCycle \/ Crash
  PROVE  RawInv'
<1>1. /\ pc' = [n \in Vnf |-> "idle"] /\ row' = [n \in Vnf |-> {}]
      /\ at' = [n \in Vnf |-> Outside] /\ metrics' = [n \in Vnf |-> {}]
      /\ UNCHANGED store \/ rows' = [v \in Vdu |-> {}]
  BY DEF EndCycle, Crash, Forget
<1>2. Shape'
  BY <1>1 DEF RawInv, Shape, Working, store
<1>3. NoTableNoRows'
  BY <1>1 DEF RawInv, NoTableNoRows, store
<1> QED BY <1>1, <1>2, <1>3 DEF RawInv, RowOf

\* What stays as it is, but for tasks that are killed.
LEMMA DeadlineStep ==
  ASSUME RawInv, Deadline
  PROVE  RawInv'
<1>1. /\ pc' = [n \in Vnf |-> IF Running(n) THEN "killed" ELSE pc[n]]
      /\ UNCHANGED <<table, rows, at, row, metrics>>
  BY DEF Deadline, store
<1>2. Shape' /\ NoTableNoRows'
  BY <1>1 DEF RawInv, Shape, NoTableNoRows, Work, Working
<1>3. ASSUME NEW n \in Vnf PROVE RowOf(n)'
  BY <1>1 DEF RawInv, RowOf, VduAt, VduOf, Working
<1> QED BY <1>2, <1>3 DEF RawInv

LEMMA TasksKept ==
  ASSUME RawInv, UNCHANGED <<store, task>>
  PROVE  RawInv'
BY DEF RawInv, Shape, NoTableNoRows, RowOf, VduAt, VduOf, Work, store, task

LEMMA RawStart == Init => RawInv
BY DEF Init, RawInv, Shape, NoTableNoRows, RowOf, Working

LEMMA RawStep == RawInv /\ [Next]_vars => RawInv'
<1> SUFFICES ASSUME RawInv, [Next]_vars PROVE RawInv'
  OBVIOUS
<1>1. CASE \/ UNCHANGED vars
           \/ \E v \in Vdu : Complete(v) \/ Delete(v) \/ Restart(v)
           \/ \E V \in SUBSET Busy : Tick(V)
           \/ SetBack
  BY <1>1, TasksKept DEF vars, Complete, Delete, Restart, Tick, SetBack
<1>2. CASE Begin
  BY <1>2, BeginStep
<1>3. CASE \E n \in Vnf : FindResource(n) \/ Ask(n) \/ Select(n) \/ Create(n) \/ Insert(n)
  BY <1>3, FindResourceStep, AskStep, SelectStep, CreateStep, InsertStep
<1>4. CASE Deadline
  BY <1>4, DeadlineStep
<1>5. CASE EndCycle \/ Crash
  BY <1>5, ForgetStep
<1> QED BY <1>1, <1>2, <1>3, <1>4, <1>5 DEF Next

-----------------------------------------------------------------------------
(* Raw counters.                                                           *)

\* What a step adds to the samples of a task.
LEMMA SamplesAdded ==
  ASSUME RawInv, [Next]_vars, NEW n \in Vnf, NEW s \in metrics'[n] \ metrics[n],
         s.kind = "raw"
  PROVE  /\ s.vdu = VduAt(n) /\ pc[n] = "insert"
         /\ \A r \in row[n] : r.time >= clock
<1>1. metrics'[n] # metrics[n] /\ metrics'[n] # {}
  OBVIOUS
<1>2. PICK m \in Vnf : FindResource(m) \/ Ask(m) \/ Select(m) \/ Create(m) \/ Insert(m)
  BY <1>1 DEF Next, vars, task, Complete, Delete, Restart, Tick, SetBack, Begin, Deadline,
              EndCycle, Crash, Forget
<1>3. ASSUME NEW S, Advance(m, S) PROVE s \in S /\ n = m
  BY <1>3 DEF Advance, RawInv, Shape
<1>4. ~Advance(m, {}) /\ ~UNCHANGED metrics
  BY <1>1, <1>3
<1>5. CASE FindResource(m) \/ Select(m) \/ Create(m)
  BY <1>4, <1>5 DEF FindResource, Select, Create
<1>6. CASE Ask(m)
  <2>1. PICK answer :
          Advance(m, {[vdu |-> VduAt(m), metric |-> MetricAt(m), kind |-> "value",
                       delta |-> 0] : x \in {answer} \ {None}})
    BY <1>4, <1>6 DEF Ask, Got
  <2>2. s.kind = "value"
    BY <1>3, <2>1
  <2> QED BY <2>2
<1>7. CASE Insert(m)
  <2> DEFINE sample(kind, d) ==
        {[vdu |-> VduAt(m), metric |-> "packets", kind |-> kind, delta |-> d]}
  <2>1. pc[m] = "insert"
    BY <1>7 DEF Insert
  <2>2. ~\E d : Advance(m, sample("rate", d))
    <3>1. ASSUME NEW d, Advance(m, sample("rate", d)) PROVE FALSE
      <4>1. s \in sample("rate", d)
        BY <1>3, <3>1
      <4> QED BY <4>1
    <3> QED BY <3>1
  <2>3. /\ \A r \in row[m] : r.time >= clock
        /\ Advance(m, sample("raw", value[m].is))
    BY <1>4, <1>7, <2>2 DEF Insert
  <2>4. s \in sample("raw", value[m].is) /\ n = m
    BY <1>3, <2>3
  <2> QED BY <2>1, <2>3, <2>4
<1> QED BY <1>2, <1>5, <1>6, <1>7

\* A counter is exported in the place of a rate only when the table has no row of the
\* VDU, or one that is not before now, whatever locks, deadlines, crashes and clocks
\* do, and for any number of VNFs (openstack.py OpenstackCollector.collect).
THEOREM RawIsFirst == Spec => RawOnlyAtFirst
<1>1. Spec => []RawInv
  BY RawStart, RawStep, PTL DEF Spec
<1>2. RawInv /\ [Next]_vars =>
        [\A n \in Vnf : \A s \in metrics'[n] \ metrics[n] :
           s.kind = "raw" =>
             rows[s.vdu] = {} \/ \E r \in rows[s.vdu] : r.time >= clock]_vars
  <2> SUFFICES ASSUME RawInv, [Next]_vars, NEW n \in Vnf,
                      NEW s \in metrics'[n] \ metrics[n], s.kind = "raw"
               PROVE  rows[s.vdu] = {} \/ \E r \in rows[s.vdu] : r.time >= clock
    OBVIOUS
  <2>1. /\ s.vdu = VduAt(n) /\ pc[n] = "insert"
        /\ \A r \in row[n] : r.time >= clock
    BY SamplesAdded
  <2>2. /\ row[n] \subseteq rows[VduAt(n)]
        /\ row[n] = {} => rows[VduAt(n)] = {}
    BY <2>1 DEF RawInv, RowOf
  <2> QED BY <2>1, <2>2
<1> QED BY <1>1, <1>2, PTL DEF Spec, RawOnlyAtFirst

-----------------------------------------------------------------------------
(* Sums.  SumFunctionOnSet takes away the elements of a set one by one.  What *)
(* holds of it is shown for a smallest set of which it did not hold.          *)

LEMMA SmallestSet ==
  ASSUME NEW S, NEW C, C \subseteq FiniteSubsetsOf(S), C # {}
  PROVE  \E X \in C : \A Y \in C : Y \subseteq X => Y = X
<1>1. IsWellFoundedOn(StrictSubsetOrdering(S), FiniteSubsetsOf(S))
  BY FS_StrictSubsetOrderingWellFounded
<1>2. \E x \in C : \A y \in C : ~ (<<y, x>> \in StrictSubsetOrdering(S))
  BY <1>1, WFMin
<1> QED BY <1>2 DEF StrictSubsetOrdering, FiniteSubsetsOf

\* The element that is taken away first.
Taken(X) == CHOOSE x \in X : TRUE
Rest(X) == X \ {Taken(X)}

LEMMA RestSmaller ==
  ASSUME NEW X, X # {}
  PROVE  /\ Taken(X) \in X /\ Rest(X) \subseteq X /\ Rest(X) # X
         /\ IsFiniteSet(X) => IsFiniteSet(Rest(X))
BY FS_Subset DEF Taken, Rest

\* g tells the sums of f over the subsets of X.
Summing(f, g, X) ==
  \A s \in SUBSET X : g[s] = IF s = {} THEN 0 ELSE f[Taken(s)] + g[Rest(s)]

LEMMA SumsUnique ==
  ASSUME NEW f, NEW X, IsFiniteSet(X), NEW g, NEW h, Summing(f, g, X), Summing(f, h, X)
  PROVE  g[X] = h[X]
<1> DEFINE Wrong == {s \in SUBSET X : g[s] # h[s]}
<1> SUFFICES ASSUME Wrong # {} PROVE FALSE
  BY DEF Wrong
<1>1. Wrong \subseteq FiniteSubsetsOf(X)
  BY FS_Subset DEF FiniteSubsetsOf
<1> HIDE DEF Wrong
<1>2. PICK s \in Wrong : \A t \in Wrong : t \subseteq s => t = s
  BY <1>1, SmallestSet
<1>3. s \in SUBSET X /\ g[s] # h[s]
  BY DEF Wrong
<1>4. CASE s = {}
  BY <1>3, <1>4 DEF Summing
<1>5. CASE s # {}
  <2>1. Rest(s) \in SUBSET X /\ Rest(s) \subseteq s /\ Rest(s) # s
    BY <1>3, <1>5, RestSmaller
  <2>2. g[Rest(s)] = h[Rest(s)]
    BY <1>2, <2>1 DEF Wrong
  <2> QED BY <1>3, <1>5, <2>2 DEF Summing
<1> QED BY <1>4, <1>5

LEMMA SumsExist ==
  ASSUME NEW f, NEW S, IsFiniteSet(S)
  PROVE  \E g : Summing(f, g, S)
<1> DEFINE Wrong == {X \in SUBSET S : ~ \E g : Summing(f, g, X)}
<1> SUFFICES ASSUME Wrong # {} PROVE FALSE
  BY DEF Wrong
<1>1. Wrong \subseteq FiniteSubsetsOf(S)
  BY FS_Subset DEF FiniteSubsetsOf
<1> HIDE DEF Wrong
<1>2. PICK X \in Wrong : \A Y \in Wrong : Y \subseteq X => Y = X
  BY <1>1, SmallestSet
<1>3. X \in SUBSET S /\ IsFiniteSet(X) /\ ~ \E g : Summing(f, g, X)
  BY FS_Subset DEF Wrong
<1> DEFINE g(Y) == CHOOSE g : Summing(f, g, Y)
           h == [Y \in SUBSET X |-> IF Y = X THEN IF X = {} THEN 0 ELSE f[Taken(X)] + g(Rest(X))[Rest(X)]
                                    ELSE g(Y)[Y]]
<1>4. ASSUME NEW Y \in SUBSET X, Y # X PROVE Summing(f, g(Y), Y) /\ IsFiniteSet(Y)
  BY <1>2, <1>3, <1>4, FS_Subset DEF Wrong
<1>5. ASSUME NEW Y \in SUBSET X, Y # {}
      PROVE  h[Y] = f[Taken(Y)] + h[Rest(Y)]
  <2>1. Rest(Y) \in SUBSET X /\ Rest(Y) # X /\ Rest(Y) \subseteq Y
    BY <1>5, RestSmaller
  <2>2. h[Rest(Y)] = g(Rest(Y))[Rest(Y)]
    BY <2>1
  <2>3. CASE Y = X
    BY <1>5, <2>2, <2>3
  <2>4. CASE Y # X
    <3>1. h[Y] = g(Y)[Y] /\ g(Y)[Y] = f[Taken(Y)] + g(Y)[Rest(Y)]
      BY <1>4, <1>5, <2>4 DEF Summing
    <3>2. Summing(f, g(Y), Rest(Y))
      BY <1>4, <2>1, <2>4 DEF Summing
    <3>3. g(Y)[Rest(Y)] = g(Rest(Y))[Rest(Y)]
      BY <1>4, <2>1, <3>2, SumsUnique
    <3> QED BY <2>2, <3>1, <3>3
  <2> QED BY <2>3, <2>4
<1>6. h[{}] = 0
  <2>1. CASE X = {}
    BY <2>1
  <2>2. CASE X # {}
    BY <1>4, <2>2 DEF Summing
  <2> QED BY <2>1, <2>2
<1> HIDE DEF h
<1>7. Summing(f, h, X)
  BY <1>5, <1>6 DEF Summing
<1> QED BY <1>3, <1>7

\* The two equations of a sum.
LEMMA SumEquations ==
  ASSUME NEW f, NEW S, IsFiniteSet(S)
  PROVE  SumFunctionOnSet(f, S) =
           IF S = {} THEN 0 ELSE f[Taken(S)] + SumFunctionOnSet(f, Rest(S))
<1> DEFINE iter(X) ==
      CHOOSE g : g = [s \in SUBSET X |-> IF s = {} THEN 0 ELSE f[Taken(s)] + g[Rest(s)]]
<1>1. ASSUME NEW X PROVE SumFunctionOnSet(f, X) = iter(X)[X]
  BY DEF SumFunctionOnSet, FoldFunctionOnSet, MapThenFoldSet, Taken, Rest
<1>2. ASSUME NEW X, IsFiniteSet(X) PROVE Summing(f, iter(X), X)
  <2>1. PICK g : Summing(f, g, X)
    BY <1>2, SumsExist
  <2> DEFINE h == [s \in SUBSET X |-> g[s]]
  <2>2. h = [s \in SUBSET X |-> IF s = {} THEN 0 ELSE f[Taken(s)] + h[Rest(s)]]
    <3>1. \A s \in SUBSET X : s # {} => Rest(s) \in SUBSET X
      BY RestSmaller
    <3>2. \A s \in SUBSET X : h[s] = IF s = {} THEN 0 ELSE f[Taken(s)] + h[Rest(s)]
      BY <2>1, <3>1 DEF Summing
    <3> QED BY <3>2
  <2> HIDE DEF h
  <2>3. iter(X) = [s \in SUBSET X |-> IF s = {} THEN 0 ELSE f[Taken(s)] + iter(X)[Rest(s)]]
    BY <2>2
  <2> HIDE DEF iter
  <2>4. \A s \in SUBSET X : iter(X)[s] = IF s = {} THEN 0 ELSE f[Taken(s)] + iter(X)[Rest(s)]
    BY <2>3
  <2> QED BY <2>4 DEF Summing
<1> HIDE DEF iter
<1>3. iter(S)[S] = IF S = {} THEN 0 ELSE f[Taken(S)] + iter(S)[Rest(S)]
  BY <1>2 DEF Summing
<1>4. ASSUME S # {} PROVE iter(S)[Rest(S)] = iter(Rest(S))[Rest(S)]
  <2>1. Rest(S) \subseteq S /\ IsFiniteSet(Rest(S))
    BY <1>4, RestSmaller
  <2>2. Summing(f, iter(S), Rest(S)) /\ Summing(f, iter(Rest(S)), Rest(S))
    BY <1>2, <2>1 DEF Summing
  <2> QED BY <2>1, <2>2, SumsUnique
<1> QED BY <1>1, <1>3, <1>4

LEMMA SumOfNone == ASSUME NEW f PROVE SumFunctionOnSet(f, {}) = 0
BY SumEquations, FS_EmptySet

LEMMA SumIsInt ==
  ASSUME NEW f, NEW S, IsFiniteSet(S), \A x \in S : f[x] \in Int
  PROVE  SumFunctionOnSet(f, S) \in Int
<1> DEFINE Wrong == {X \in SUBSET S : SumFunctionOnSet(f, X) \notin Int}
<1> SUFFICES ASSUME Wrong # {} PROVE FALSE
  BY DEF Wrong
<1>1. Wrong \subseteq FiniteSubsetsOf(S)
  BY FS_Subset DEF FiniteSubsetsOf
<1> HIDE DEF Wrong
<1>2. PICK X \in Wrong : \A Y \in Wrong : Y \subseteq X => Y = X
  BY <1>1, SmallestSet
<1>3. X \in SUBSET S /\ IsFiniteSet(X) /\ SumFunctionOnSet(f, X) \notin Int
  BY FS_Subset DEF Wrong
<1>4. X # {}
  BY <1>3, SumOfNone
<1>5. Taken(X) \in S /\ Rest(X) \in SUBSET S /\ Rest(X) \subseteq X /\ Rest(X) # X
  BY <1>3, <1>4, RestSmaller
<1>6. SumFunctionOnSet(f, Rest(X)) \in Int
  BY <1>2, <1>5 DEF Wrong
<1> QED BY <1>3, <1>4, <1>5, <1>6, SumEquations

\* Where no term shrinks the sum does not.
LEMMA SumGrows ==
  ASSUME NEW f, NEW g, NEW S, IsFiniteSet(S),
         \A x \in S : f[x] \in Int /\ g[x] \in Int /\ f[x] <= g[x]
  PROVE  SumFunctionOnSet(f, S) <= SumFunctionOnSet(g, S)
<1> DEFINE Wrong == {X \in SUBSET S : ~(SumFunctionOnSet(f, X) <= SumFunctionOnSet(g, X))}
<1> SUFFICES ASSUME Wrong # {} PROVE FALSE
  BY DEF Wrong
<1>1. Wrong \subseteq FiniteSubsetsOf(S)
  BY FS_Subset DEF FiniteSubsetsOf
<1> HIDE DEF Wrong
<1>2. PICK X \in Wrong : \A Y \in Wrong : Y \subseteq X => Y = X
  BY <1>1, SmallestSet
<1>3. /\ X \in SUBSET S /\ IsFiniteSet(X)
      /\ ~(SumFunctionOnSet(f, X) <= SumFunctionOnSet(g, X))
  BY FS_Subset DEF Wrong
<1>4. X # {}
  BY <1>3, SumOfNone
<1>5. /\ Taken(X) \in S /\ Rest(X) \in SUBSET S /\ Rest(X) \subseteq X /\ Rest(X) # X
      /\ IsFiniteSet(Rest(X))
  BY <1>3, <1>4, RestSmaller
<1>6. SumFunctionOnSet(f, Rest(X)) <= SumFunctionOnSet(g, Rest(X))
  BY <1>2, <1>5 DEF Wrong
<1>7. SumFunctionOnSet(f, Rest(X)) \in Int /\ SumFunctionOnSet(g, Rest(X)) \in Int
  BY <1>5, SumIsInt
<1>8. /\ SumFunctionOnSet(f, X) = f[Taken(X)] + SumFunctionOnSet(f, Rest(X))
      /\ SumFunctionOnSet(g, X) = g[Taken(X)] + SumFunctionOnSet(g, Rest(X))
  BY <1>3, <1>4, SumEquations
<1> QED BY <1>3, <1>5, <1>6, <1>7, <1>8

LEMMA SumIsNat ==
  ASSUME NEW f, NEW S, IsFiniteSet(S), \A x \in S : f[x] \in Nat
  PROVE  SumFunctionOnSet(f, S) \in Nat
<1> DEFINE Wrong == {X \in SUBSET S : SumFunctionOnSet(f, X) \notin Nat}
<1> SUFFICES ASSUME Wrong # {} PROVE FALSE
  BY DEF Wrong
<1>1. Wrong \subseteq FiniteSubsetsOf(S)
  BY FS_Subset DEF FiniteSubsetsOf
<1> HIDE DEF Wrong
<1>2. PICK X \in Wrong : \A Y \in Wrong : Y \subseteq X => Y = X
  BY <1>1, SmallestSet
<1>3. X \in SUBSET S /\ IsFiniteSet(X) /\ SumFunctionOnSet(f, X) \notin Nat
  BY FS_Subset DEF Wrong
<1>4. X # {}
  BY <1>3, SumOfNone
<1>5. Taken(X) \in S /\ Rest(X) \in SUBSET S /\ Rest(X) \subseteq X /\ Rest(X) # X
  BY <1>3, <1>4, RestSmaller
<1>6. SumFunctionOnSet(f, Rest(X)) \in Nat
  BY <1>2, <1>5 DEF Wrong
<1> QED BY <1>3, <1>4, <1>5, <1>6, SumEquations

\* The order in which elements are taken away makes no difference.
LEMMA SumWithout ==
  ASSUME NEW f, NEW S, IsFiniteSet(S), \A x \in S : f[x] \in Int, NEW x \in S
  PROVE  SumFunctionOnSet(f, S) = f[x] + SumFunctionOnSet(f, S \ {x})
<1> DEFINE Sum(X) == SumFunctionOnSet(f, X)
           Wrong == {X \in SUBSET S : \E y \in X : Sum(X) # f[y] + Sum(X \ {y})}
<1> SUFFICES ASSUME Wrong # {} PROVE FALSE
  BY DEF Wrong
<1>1. Wrong \subseteq FiniteSubsetsOf(S)
  BY FS_Subset DEF FiniteSubsetsOf
<1>2. \A X \in SUBSET S : IsFiniteSet(X) /\ Sum(X) \in Int
  BY SumIsInt, FS_Subset
<1> HIDE DEF Wrong
<1>3. PICK X \in Wrong : \A Y \in Wrong : Y \subseteq X => Y = X
  BY <1>1, SmallestSet
<1>4. PICK y \in X : Sum(X) # f[y] + Sum(X \ {y})
  BY <1>3 DEF Wrong
<1>5. X \in SUBSET S
  BY <1>3 DEF Wrong
<1> DEFINE c == Taken(X)
<1>6. c \in X /\ Sum(X) = f[c] + Sum(X \ {c})
  BY <1>2, <1>4, <1>5, SumEquations, RestSmaller DEF Rest
<1> HIDE DEF c, Sum
<1>7. y # c
  BY <1>4, <1>6
<1>8. \A Y \in SUBSET X : Y # X => \A z \in Y : Sum(Y) = f[z] + Sum(Y \ {z})
  BY <1>3, <1>5 DEF Wrong, Sum
<1>9. Sum(X \ {c}) = f[y] + Sum((X \ {c}) \ {y})
  BY <1>6, <1>7, <1>8
<1>10. Sum(X \ {y}) = f[c] + Sum((X \ {y}) \ {c})
  BY <1>6, <1>7, <1>8
<1>11. (X \ {c}) \ {y} = (X \ {y}) \ {c}
  OBVIOUS
<1>12. f[c] \in Int /\ f[y] \in Int /\ Sum((X \ {c}) \ {y}) \in Int
  BY <1>2, <1>5, <1>6
<1> HIDE DEF c, Sum
<1>13. Sum(X \ {y}) = f[c] + Sum((X \ {c}) \ {y})
  BY <1>10, <1>11
<1>14. f[c] + (f[y] + Sum((X \ {c}) \ {y})) = f[y] + (f[c] + Sum((X \ {c}) \ {y}))
  BY <1>12
<1>15. Sum(X) = f[y] + Sum(X \ {y})
  BY <1>6, <1>9, <1>13, <1>14
<1> QED BY <1>4, <1>15

\* No part of a sum is more than the whole.
LEMMA SumOfPart ==
  ASSUME NEW f, NEW T, IsFiniteSet(T), \A x \in T : f[x] \in Nat, NEW S \in SUBSET T
  PROVE  SumFunctionOnSet(f, S) <= SumFunctionOnSet(f, T)
<1> DEFINE Sum(X) == SumFunctionOnSet(f, X)
           Wrong == {X \in SUBSET T : S \subseteq X /\ ~(Sum(S) <= Sum(X))}
<1> SUFFICES ASSUME Wrong # {} PROVE FALSE
  BY DEF Wrong
<1>1. Wrong \subseteq FiniteSubsetsOf(T)
  BY FS_Subset DEF FiniteSubsetsOf
<1>2. \A X \in SUBSET T : IsFiniteSet(X) /\ Sum(X) \in Nat
  BY SumIsNat, FS_Subset
<1> HIDE DEF Wrong
<1>3. PICK X \in Wrong : \A Y \in Wrong : Y \subseteq X => Y = X
  BY <1>1, SmallestSet
<1>4. X \in SUBSET T /\ S \subseteq X /\ ~(Sum(S) <= Sum(X)) /\ Sum(S) \in Nat /\ Sum(X) \in Nat
  BY <1>2, <1>3 DEF Wrong
<1>5. PICK x \in X : x \notin S
  BY <1>4
<1>6. Sum(X) = f[x] + Sum(X \ {x})
  BY <1>2, <1>4, SumWithout
<1>7. Sum(S) <= Sum(X \ {x})
  BY <1>3, <1>4, <1>5 DEF Wrong
<1>8. f[x] \in Nat /\ Sum(X \ {x}) \in Nat
  BY <1>2, <1>4
<1> HIDE DEF Sum
<1> QED BY <1>4, <1>6, <1>7, <1>8

\* The sum of the numbers of a set.
Total(S) == SumFunctionOnSet([d \in S |-> d], S)

LEMMA TotalOfNone == Total({}) = 0
BY SumOfNone DEF Total

LEMMA TotalIsInt ==
  ASSUME NEW S, IsFiniteSet(S), S \subseteq Int
  PROVE  Total(S) \in Int
BY SumIsInt DEF Total

LEMMA TotalIsNat ==
  ASSUME NEW S, IsFiniteSet(S), S \subseteq Nat
  PROVE  Total(S) \in Nat
BY SumIsNat DEF Total

LEMMA TotalWithin ==
  ASSUME NEW T, IsFiniteSet(T), T \subseteq Nat, NEW S \in SUBSET T
  PROVE  SumFunctionOnSet([d \in T |-> d], S) = Total(S)
<1>1. IsFiniteSet(S)
  BY FS_Subset
<1> DEFINE f == [d \in T |-> d]
           g == [d \in S |-> d]
<1>2. \A d \in S : f[d] \in Int /\ g[d] \in Int /\ f[d] <= g[d] /\ g[d] <= f[d]
  OBVIOUS
<1> HIDE DEF f, g
<1>3. SumFunctionOnSet(f, S) <= SumFunctionOnSet(g, S)
  BY <1>1, <1>2, SumGrows
<1>4. SumFunctionOnSet(g, S) <= SumFunctionOnSet(f, S)
  BY <1>1, <1>2, SumGrows
<1>5. SumFunctionOnSet(f, S) \in Int /\ SumFunctionOnSet(g, S) \in Int
  BY <1>1, <1>2, SumIsInt
<1> QED BY <1>3, <1>4, <1>5 DEF Total, f, g

LEMMA TotalOfPart ==
  ASSUME NEW T, IsFiniteSet(T), T \subseteq Nat, NEW S \in SUBSET T
  PROVE  Total(S) <= Total(T)
<1>1. SumFunctionOnSet([d \in T |-> d], S) <= Total(T)
  BY SumOfPart DEF Total
<1> QED BY <1>1, TotalWithin

\* A number that is taken away takes itself.
LEMMA TotalWithout ==
  ASSUME NEW T, IsFiniteSet(T), T \subseteq Nat, NEW d \in T
  PROVE  Total(T) = d + Total(T \ {d})
<1> DEFINE f == [x \in T |-> x]
<1>1. \A x \in T : f[x] \in Int
  OBVIOUS
<1>2. f[d] = d
  OBVIOUS
<1>3. Total(T) = SumFunctionOnSet(f, T) /\ Total(T \ {d}) = SumFunctionOnSet(f, T \ {d})
  BY TotalWithin DEF Total
<1> HIDE DEF f
<1>4. SumFunctionOnSet(f, T) = f[d] + SumFunctionOnSet(f, T \ {d})
  <2>1. ASSUME NEW X, IsFiniteSet(X), \A x \in X : f[x] \in Int
        PROVE  \A x \in X : SumFunctionOnSet(f, X) = f[x] + SumFunctionOnSet(f, X \ {x})
    BY <2>1, SumWithout, SMT
  <2> QED BY <1>1, <2>1
<1> QED BY <1>2, <1>3, <1>4

\* A number that is added adds itself, or nothing if the set has it.
LEMMA TotalAdded ==
  ASSUME NEW S, IsFiniteSet(S), S \subseteq Nat, NEW d \in Nat
  PROVE  Total(S \cup {d}) <= Total(S) + d
<1>1. Total(S) \in Nat
  BY TotalIsNat
<1>2. CASE d \in S
  <2>1. S \cup {d} = S
    BY <1>2
  <2>2. Total(S) <= Total(S) + d
    BY <1>1
  <2> QED BY <2>1, <2>2
<1>3. CASE d \notin S
  <2> DEFINE T == S \cup {d}
  <2>1. IsFiniteSet(T) /\ T \subseteq Nat /\ T \ {d} = S /\ d \in T
    BY <1>3, FS_AddElement
  <2> HIDE DEF T
  <2>5. Total(T) = d + Total(S)
    BY <2>1, TotalWithout
  <2>6. Total(T) <= Total(S) + d
    BY <1>1, <2>5
  <2> QED BY <2>6 DEF T
<1> QED BY <1>2, <1>3

-----------------------------------------------------------------------------
(* The variables keep their types.                                         *)

\* What TypeOK says, in parts: of OSM and the VIM, of the table, of the tasks, and of
\* the bounds and histories.
WorldTypes ==
  /\ account \in Account
  /\ record \in [Vdu -> {"nameless", "named", "complete", "deleted"}]
  /\ copy \in [Vdu -> {"nameless", "named", "complete", "deleted"}]
  /\ counter \in [Interface -> Nat]
  /\ clock \in Nat
StoreTypes == table \in BOOLEAN /\ rows \in [Vdu -> SUBSET Row]
TaskTypes ==
  /\ pc \in [Vnf -> {"idle", "find", "ask", "select", "create", "insert",
                     "returned", "raised", "killed"}]
  /\ backend \in [Vnf -> {"none", "prometheus", "gnocchi", "ceilometer"}]
  /\ \A n \in Vnf : at[n] \in Work(n) \cup {Outside}
  /\ value \in [Vnf -> Value]
  /\ row \in [Vnf -> SUBSET Row]
  /\ metrics \in [Vnf -> SUBSET Sample]
HistoryTypes ==
  /\ cycle \in 0..MaxCycles[account] /\ faults \in 0..MaxFaults
  /\ counted \in [Vdu -> Int]
  /\ uneven \subseteq Vdu
  /\ untroubled \in BOOLEAN

\* The rates there are of a VDU in the samples of all tasks.  They are finitely many,
\* so they have a sum.
Samples == UNION {metrics[n] : n \in Vnf}
RatesOf(v) == {s.delta : s \in {x \in Samples : x.vdu = v /\ x.kind = "rate"}}
FiniteRates == \A v \in Vdu : IsFiniteSet(RatesOf(v))

TypeInv ==
  /\ WorldTypes /\ StoreTypes /\ TaskTypes /\ HistoryTypes
  /\ RawInv /\ FiniteRates /\ hadTable \in BOOLEAN

LEMMA FollowingRange ==
  ASSUME NEW n \in Vnf, NEW x
  PROVE  Following(n, x) \in Work(n) \cup {Outside}
BY DEF Following

\* A task at work is at a VDU and a metric.
LEMMA PlaceTypes ==
  ASSUME Shape, NEW n \in Vnf, pc[n] \in Working
  PROVE  VduAt(n) \in Vdu /\ MetricAt(n) \in Metric
<1>1. PICK i \in 1..Len(VdursOf[n]) :
        \E k \in 1..Len(ParamsOf[VdursOf[n][i]]) : at[n] = <<i, k>>
  BY DEF Shape, Work
<1>2. VdursOf[n] \in Seq(Vdu)
  BY VnfAssumption
<1>3. VduAt(n) = VdursOf[n][i] /\ VdursOf[n][i] \in Vdu
  BY <1>1, <1>2 DEF VduAt, VduOf
<1>4. ParamsOf[VduAt(n)] \in Seq(Metric)
  BY <1>3, VnfAssumption
<1>5. \E k \in 1..Len(ParamsOf[VduAt(n)]) : MetricAt(n) = ParamsOf[VduAt(n)][k]
  BY <1>1, <1>3 DEF MetricAt
<1> QED BY <1>3, <1>4, <1>5

\* The packets that went through interfaces are a number.
LEMMA PacketsNumber ==
  ASSUME WorldTypes, NEW S \in SUBSET Interface
  PROVE  /\ SumFunctionOnSet(counter, S) \in Nat
         /\ Packets(S) \in Value /\ Packets(S).form # "text"
<1>1. IsFiniteSet(S) /\ \A i \in S : counter[i] \in Nat
  BY FiniteAssumption, FS_Subset DEF WorldTypes
<1>2. SumFunctionOnSet(counter, S) \in Nat
  BY <1>1, SumIsNat
<1> QED BY <1>2 DEF Packets, Value, Number, None

LEMMA AnswersTypes ==
  ASSUME WorldTypes, Shape, NEW n \in Vnf, pc[n] \in Working
  PROVE  Answers(n) \subseteq Value
<1>1. InterfacesOf[VduAt(n)] \in SUBSET Interface
  BY PlaceTypes, VnfAssumption
<1>2. Packets(InterfacesOf[VduAt(n)]) \in Value
  BY <1>1, PacketsNumber
<1>3. Number(0) \in Value /\ Number(1) \in Value /\ None \in Value
      /\ [form |-> "text", is |-> 0] \in Value
  BY DEF Number, None, Value
<1>4. GnocchiAnswers(n) \subseteq Value
  BY <1>2, <1>3 DEF GnocchiAnswers
<1>5. PrometheusAnswers \subseteq Value /\ CeilometerAnswers(n) \subseteq Value
  BY <1>3 DEF PrometheusAnswers, CeilometerAnswers
<1> QED BY <1>4, <1>5 DEF Answers

\* A task that goes on.
LEMMA AdvanceTypes ==
  ASSUME TaskTypes, NEW n \in Vnf, NEW S \in SUBSET Sample, Advance(n, S), UNCHANGED backend
  PROVE  TaskTypes'
<1>1. /\ value' = [value EXCEPT ![n] = None] /\ None \in Value
      /\ row' = [row EXCEPT ![n] = {}]
      /\ metrics' = [metrics EXCEPT ![n] = @ \cup S]
  BY DEF Advance, None, Value
<1>2. /\ value' \in [Vnf -> Value]
      /\ row' \in [Vnf -> SUBSET Row]
      /\ metrics' \in [Vnf -> SUBSET Sample]
  BY <1>1 DEF TaskTypes
<1>3. pc' \in [Vnf -> {"idle", "find", "ask", "select", "create", "insert",
                       "returned", "raised", "killed"}]
  BY GoOnRange DEF TaskTypes, Advance
<1>4. \A m \in Vnf : at'[m] \in Work(m) \cup {Outside}
  BY FollowingRange DEF TaskTypes, Advance
<1> QED BY <1>2, <1>3, <1>4 DEF TaskTypes, Work

\* A task that stays where it is.
LEMMA GoTypes ==
  ASSUME TaskTypes, NEW n \in Vnf, NEW where \in {"ask", "select", "create", "insert", "raised"},
         Go(n, where), UNCHANGED <<at, metrics, backend>>,
         value' \in [Vnf -> Value], row' \in [Vnf -> SUBSET Row]
  PROVE  TaskTypes'
<1>1. pc' \in [Vnf -> {"idle", "find", "ask", "select", "create", "insert",
                       "returned", "raised", "killed"}]
  BY DEF TaskTypes, Go
<1> QED BY <1>1 DEF TaskTypes, Work

\* Calm and Strike keep the types of what they change.
LEMMA StrikeTypes ==
  ASSUME HistoryTypes, Calm \/ Strike, UNCHANGED <<account, cycle, counted>>, uneven' \subseteq Vdu
  PROVE  HistoryTypes'
<1>1. faults' \in 0..MaxFaults
  BY BoundsAssumption DEF HistoryTypes, Calm, Strike
<1>2. untroubled' \in BOOLEAN
  BY Zenon DEF HistoryTypes, Calm, Strike
<1> QED BY <1>1, <1>2, Zenon DEF HistoryTypes

\* What a task that goes on adds to the samples.
LEMMA SamplesAdd ==
  ASSUME Shape, NEW n \in Vnf, NEW S, Advance(n, S)
  PROVE  Samples' = Samples \cup S
<1>1. metrics' = [metrics EXCEPT ![n] = @ \cup S] /\ metrics = [m \in Vnf |-> metrics[m]]
  BY DEF Advance, Shape
<1>2. \A m \in Vnf : metrics'[m] = IF m = n THEN metrics[n] \cup S ELSE metrics[m]
  BY <1>1
<1> QED BY <1>2 DEF Samples

\* A sample adds at most one rate to those of a VDU.
LEMMA RatesAdded ==
  ASSUME Shape, FiniteRates, NEW n \in Vnf, NEW S, S = {} \/ (\E s : S = {s}), Advance(n, S)
  PROVE  FiniteRates'
<1> SUFFICES ASSUME NEW v \in Vdu PROVE IsFiniteSet(RatesOf(v)')
  BY DEF FiniteRates
<1>2. Samples' = Samples \cup S
  BY SamplesAdd
<1> DEFINE new == {s.delta : s \in S}
<1>3. RatesOf(v)' \subseteq RatesOf(v) \cup new
  BY <1>2 DEF RatesOf
<1>4. IsFiniteSet(new)
  <2>1. new = {} \/ \E d : new = {d}
    OBVIOUS
  <2> QED BY <2>1, FS_EmptySet, FS_Singleton, ZenonT(30)
<1>5. IsFiniteSet(RatesOf(v) \cup new)
  BY <1>4, FS_Union DEF FiniteRates
<1> QED BY <1>3, <1>5, FS_Subset

LEMMA WorldStep ==
  ASSUME WorldTypes, [Next]_vars
  PROVE  WorldTypes' /\ UNCHANGED account
<1>1. CASE UNCHANGED vars
  BY <1>1 DEF vars, task, WorldTypes
<1>2. CASE \E v \in Vdu : Complete(v) \/ Delete(v)
  BY <1>2 DEF Complete, Delete, WorldTypes, task
<1>3. CASE \E v \in Vdu : Restart(v)
  BY <1>3 DEF Restart, WorldTypes, task
<1>4. CASE \E V \in SUBSET Busy : Tick(V)
  BY <1>4 DEF Tick, WorldTypes, task
<1>5. CASE SetBack
  BY <1>5 DEF SetBack, WorldTypes, task
<1>6. CASE Begin
  BY <1>6 DEF Begin, WorldTypes
<1>7. CASE \E n \in Vnf : FindResource(n) \/ Ask(n) \/ Select(n) \/ Create(n) \/ Insert(n)
  BY <1>7 DEF FindResource, Ask, Select, Create, Insert, WorldTypes
<1>8. CASE Deadline \/ EndCycle \/ Crash
  BY <1>8 DEF Deadline, EndCycle, Crash, WorldTypes
<1> QED BY <1>1, <1>2, <1>3, <1>4, <1>5, <1>6, <1>7, <1>8 DEF Next

\* What is put in the table is a row.
LEMMA NewestRows ==
  ASSUME WorldTypes, StoreTypes, NEW v, NEW k \in Nat, SqlInsert(v, k)
  PROVE  rows' \in [Vdu -> SUBSET Row]
<1>1. [time |-> clock, value |-> k] \in Row
  BY DEF WorldTypes, Row
<1>2. \A S \in SUBSET Row : Newest(S, [time |-> clock, value |-> k]) \in SUBSET Row
  BY <1>1 DEF Newest
<1> QED BY <1>2 DEF SqlInsert, StoreTypes

LEMMA StoreStep ==
  ASSUME TypeInv, [Next]_vars
  PROVE  StoreTypes'
<1>1. CASE UNCHANGED store
  BY <1>1 DEF store, TypeInv, StoreTypes
<1>2. CASE \E n \in Vnf : Create(n)
  BY <1>2 DEF Create, TypeInv, StoreTypes
<1>3. CASE \E n \in Vnf : Insert(n)
  <2>1. PICK n \in Vnf : Insert(n)
    BY <1>3
  <2>2. UNCHANGED rows \/ SqlInsert(VduAt(n), value[n].is)
    BY <2>1 DEF Insert
  <2>3. value[n].is \in Nat
    BY DEF TypeInv, TaskTypes, Value
  <2>4. rows' \in [Vdu -> SUBSET Row]
    BY <2>2, <2>3, NewestRows DEF TypeInv, StoreTypes
  <2> QED BY <2>1, <2>4 DEF Insert, TypeInv, StoreTypes
<1>4. CASE Crash
  BY <1>4 DEF Crash, store, TypeInv, StoreTypes
<1> QED BY <1>1, <1>2, <1>3, <1>4 DEF Next, vars, Complete, Delete, Restart, Tick, SetBack, Begin,
                                      FindResource, Ask, Select, Deadline, EndCycle

LEMMA BeginTypes ==
  ASSUME TypeInv, Begin
  PROVE  TaskTypes'
<1> DEFINE found == [n \in Vnf |-> Backend]
<1>1. Backend \in {"none", "prometheus", "gnocchi", "ceilometer"}
  BY AccountAssumption DEF Backend, TypeInv, WorldTypes
<1>2. backend' \in [Vnf -> {"none", "prometheus", "gnocchi", "ceilometer"}]
  BY <1>1 DEF Begin, GetBackendFails
<1>3. pc' \in [Vnf -> {"find", "returned", "raised"}]
  BY GoOnRange DEF Begin, GetBackendFails
<1>4. \A n \in Vnf : at'[n] \in Work(n) \cup {Outside}
  BY FollowingRange DEF Begin
<1>5. UNCHANGED <<value, row, metrics>>
  BY DEF Begin
<1> QED BY <1>2, <1>3, <1>4, <1>5 DEF TypeInv, TaskTypes, Work

LEMMA AskTypes ==
  ASSUME TypeInv, NEW n \in Vnf, Ask(n)
  PROVE  TaskTypes'
<1>1. pc[n] \in Working /\ UNCHANGED backend /\ TaskTypes /\ WorldTypes /\ Shape
  BY DEF Ask, Working, TypeInv, RawInv
<1>2. VduAt(n) \in Vdu /\ MetricAt(n) \in Metric
  BY <1>1, PlaceTypes
<1>3. ASSUME NEW S \in SUBSET InterfacesOf[VduAt(n)] PROVE Packets(S) \in Value
  BY <1>1, <1>2, <1>3, PacketsNumber, VnfAssumption
<1>4. \/ Advance(n, {})
      \/ \E answer \in Value : Got(n, answer)
  BY <1>1, <1>3, AnswersTypes DEF Ask
<1>5. CASE Advance(n, {})
  BY <1>1, <1>5, AdvanceTypes
<1>6. CASE \E answer \in Value : Got(n, answer)
  <2>1. PICK answer \in Value : Got(n, answer)
    BY <1>6
  <2>2. CASE Give(n, answer) /\ Go(n, "select") /\ UNCHANGED <<at, row, metrics>>
    <3>1. value' \in [Vnf -> Value] /\ row' \in [Vnf -> SUBSET Row]
      BY <1>1, <2>2 DEF Give, TaskTypes
    <3> QED BY <1>1, <2>2, <3>1, GoTypes
  <2>3. CASE \E S \in SUBSET Sample : Advance(n, S)
    BY <1>1, <2>3, AdvanceTypes
  <2>4. [vdu |-> VduAt(n), metric |-> MetricAt(n), kind |-> "value", delta |-> 0] \in Sample
    BY <1>2 DEF Sample
  <2> QED BY <2>1, <2>2, <2>3, <2>4 DEF Got
<1> QED BY <1>4, <1>5, <1>6

LEMMA InsertTypes ==
  ASSUME TypeInv, NEW n \in Vnf, Insert(n)
  PROVE  TaskTypes'
<1>1. pc[n] \in Working /\ UNCHANGED backend /\ TaskTypes /\ Shape
  BY DEF Insert, Working, TypeInv, RawInv
<1>2. VduAt(n) \in Vdu /\ value[n].is \in Nat /\ \A r \in row[n] : r.value \in Nat
  BY <1>1, PlaceTypes DEF TaskTypes, Value, Row
<1> DEFINE sample(kind, d) ==
      {[vdu |-> VduAt(n), metric |-> "packets", kind |-> kind, delta |-> d]}
<1>3. \A d \in Int : sample("raw", d) \subseteq Sample /\ sample("rate", d) \subseteq Sample
  BY <1>2 DEF Sample, Metric
<1>4. \/ Advance(n, {}) \/ Advance(n, sample("raw", value[n].is))
      \/ \E r \in row[n] : Advance(n, sample("rate", value[n].is - r.value))
  BY DEF Insert
<1> HIDE DEF sample
<1>5. \E S \in SUBSET Sample : Advance(n, S)
  BY <1>2, <1>3, <1>4
<1> QED BY <1>1, <1>5, AdvanceTypes

LEMMA SelectTypes ==
  ASSUME TypeInv, NEW n \in Vnf, Select(n)
  PROVE  TaskTypes'
<1>1. /\ pc[n] \in Working /\ UNCHANGED <<backend, at, value, metrics>>
      /\ TaskTypes /\ StoreTypes /\ Shape
  BY DEF Select, Working, TypeInv, RawInv
<1>2. VduAt(n) \in Vdu
  BY <1>1, PlaceTypes
<1>3. UNCHANGED row \/ \E r \in rows[VduAt(n)] : row' = [row EXCEPT ![n] = {r}]
  BY DEF Select
<1>4. row' \in [Vnf -> SUBSET Row]
  BY <1>1, <1>2, <1>3 DEF TaskTypes, StoreTypes
<1>5. Go(n, "insert") \/ Go(n, "create")
  BY DEF Select
<1>6. value' \in [Vnf -> Value]
  BY <1>1 DEF TaskTypes
<1> QED BY <1>1, <1>4, <1>5, <1>6, GoTypes

LEMMA TaskStep ==
  ASSUME TypeInv, [Next]_vars
  PROVE  TaskTypes'
<1>1. CASE UNCHANGED task
  BY <1>1 DEF task, TypeInv, TaskTypes, Work
<1>2. CASE Begin
  BY <1>2, BeginTypes
<1>3. ASSUME NEW n \in Vnf, FindResource(n) PROVE TaskTypes'
  <2>1. /\ UNCHANGED backend
        /\ \/ Advance(n, {})
           \/ (Go(n, "raised") \/ Go(n, "ask")) /\ UNCHANGED <<at, value, row, metrics>>
    BY <1>3 DEF FindResource
  <2>2. TaskTypes /\ value \in [Vnf -> Value] /\ row \in [Vnf -> SUBSET Row]
    BY DEF TypeInv, TaskTypes
  <2> QED BY <2>1, <2>2, AdvanceTypes, GoTypes
<1>4. ASSUME NEW n \in Vnf, Create(n) PROVE TaskTypes'
  <2>1. /\ UNCHANGED backend
        /\ \/ Advance(n, {})
           \/ Go(n, "insert") /\ UNCHANGED <<at, value, row, metrics>>
    BY <1>4 DEF Create
  <2>2. TaskTypes /\ value \in [Vnf -> Value] /\ row \in [Vnf -> SUBSET Row]
    BY DEF TypeInv, TaskTypes
  <2> QED BY <2>1, <2>2, AdvanceTypes, GoTypes
<1>5. CASE \E n \in Vnf : Ask(n) \/ Select(n) \/ Insert(n)
  BY <1>5, AskTypes, SelectTypes, InsertTypes
<1>6. CASE Deadline
  <2>1. UNCHANGED <<backend, at, value, row, metrics>>
    BY <1>6 DEF Deadline
  <2>2. pc' \in [Vnf -> {"idle", "find", "ask", "select", "create", "insert",
                         "returned", "raised", "killed"}]
    BY <1>6 DEF Deadline, TypeInv, TaskTypes
  <2> QED BY <2>1, <2>2 DEF TypeInv, TaskTypes, Work
<1>7. CASE EndCycle \/ Crash
  <2>1. Forget
    BY <1>7 DEF EndCycle, Crash
  <2>2. None \in Value
    BY DEF None, Value
  <2> QED BY <2>1, <2>2 DEF Forget, TaskTypes
<1> QED BY <1>1, <1>2, <1>3, <1>4, <1>5, <1>6, <1>7 DEF Next, vars, Complete, Delete, Restart, Tick, SetBack

LEMMA HistoryStep ==
  ASSUME TypeInv, [Next]_vars
  PROVE  HistoryTypes'
<1>1. HistoryTypes /\ UNCHANGED account
  BY WorldStep DEF TypeInv
<1>2. CASE UNCHANGED <<cycle, faults, history>>
  <2>1. UNCHANGED <<counted, uneven, untroubled>>
    BY <1>2 DEF history
  <2>2. /\ cycle' \in 0..MaxCycles[account'] /\ faults' \in 0..MaxFaults
        /\ counted' \in [Vdu -> Int] /\ uneven' \subseteq Vdu
    BY <1>1, <1>2, <2>1 DEF HistoryTypes
  <2>3. untroubled' \in BOOLEAN
    BY <1>1, <2>1, Zenon DEF HistoryTypes
  <2> QED BY <2>2, <2>3, Zenon DEF HistoryTypes
<1>3. CASE /\ Calm \/ Strike
           /\ UNCHANGED <<cycle, counted>>
           /\ uneven' \subseteq Vdu
  BY <1>1, <1>3, StrikeTypes
<1>4. CASE \E v \in Vdu : Complete(v) \/ Delete(v) \/ Restart(v)
  <2>1. uneven' \subseteq Vdu
    BY <1>1, <1>4 DEF Complete, Delete, Restart, HistoryTypes
  <2> QED BY <1>3, <1>4, <2>1 DEF Complete, Delete, Restart
<1>5. CASE Begin
  <2>1. cycle' \in 0..MaxCycles[account'] /\ UNCHANGED <<counted, uneven>>
    BY <1>1, <1>5, BoundsAssumption DEF Begin, HistoryTypes, TypeInv, WorldTypes
  <2>2. faults' \in 0..MaxFaults
    BY <1>1, <1>5, BoundsAssumption DEF Begin, Calm, Strike, HistoryTypes
  <2>3. untroubled' \in BOOLEAN
    <3>1. Calm \/ Strike
      BY <1>5 DEF Begin
    <3> QED BY <1>1, <3>1, Zenon DEF Calm, Strike, HistoryTypes
  <2> QED BY <1>1, <2>1, <2>2, <2>3, Zenon DEF HistoryTypes
<1>6. CASE \E n \in Vnf : FindResource(n) \/ Create(n)
  BY <1>2, <1>6 DEF FindResource, Create
<1>7. CASE \E n \in Vnf : Select(n) \/ Insert(n)
  BY <1>1, <1>3, <1>7 DEF Select, Insert, HistoryTypes
<1>8. ASSUME NEW n \in Vnf, Ask(n) PROVE HistoryTypes'
  <2>1. VduAt(n) \in Vdu
    BY <1>8, PlaceTypes DEF Ask, Working, TypeInv, RawInv
  <2>2. uneven' \subseteq Vdu
    BY <1>1, <1>8, <2>1 DEF Ask, HistoryTypes
  <2> QED BY <1>3, <1>8, <2>2 DEF Ask
<1>9. CASE SetBack \/ Deadline \/ Crash
  BY <1>1, <1>3, <1>9 DEF SetBack, Deadline, Crash, HistoryTypes
<1>10. CASE EndCycle
  <2>1. ASSUME NEW v \in Vdu PROVE RateOf(v) \in Int
    <3> DEFINE rates == {s.delta : s \in {x \in Exported(v) : x.kind = "rate"}}
    <3>1. rates \subseteq RatesOf(v)
      BY DEF Exported, RatesOf, Samples
    <3>2. RatesOf(v) \subseteq Int
      BY DEF RatesOf, Samples, Sample, TypeInv, TaskTypes
    <3>3. IsFiniteSet(rates)
      BY <3>1, FS_Subset DEF TypeInv, FiniteRates
    <3>4. RateOf(v) = Total(rates)
      BY DEF RateOf, Total
    <3> HIDE DEF rates
    <3> QED BY <3>1, <3>2, <3>3, <3>4, TotalIsInt
  <2>2. counted' \in [Vdu -> Int]
    BY <1>1, <1>10, <2>1 DEF EndCycle, HistoryTypes
  <2> QED BY <1>1, <1>10, <2>2 DEF EndCycle, HistoryTypes
<1>11. CASE \E V \in SUBSET Busy : Tick(V)
  BY <1>2, <1>11 DEF Tick
<1>12. CASE UNCHANGED vars
  BY <1>2, <1>12 DEF vars
<1> QED BY <1>4, <1>5, <1>6, <1>7, <1>8, <1>9, <1>10, <1>11, <1>12 DEF Next

\* What a step does to the samples.
LEMMA SamplesStep ==
  ASSUME [Next]_vars
  PROVE  \/ UNCHANGED metrics
         \/ metrics' = [n \in Vnf |-> {}]
         \/ \E n \in Vnf : \E S : Advance(n, S) /\ (S = {} \/ \E s : S = {s})
<1>1. ASSUME NEW n \in Vnf, NEW answer, Got(n, answer)
      PROVE  \/ UNCHANGED metrics
             \/ \E S : Advance(n, S) /\ (S = {} \/ \E s : S = {s})
  <2> DEFINE S == {[vdu |-> VduAt(n), metric |-> MetricAt(n), kind |-> "value", delta |-> 0] :
                     x \in {answer} \ {None}}
  <2>1. S = {} \/ \E s : S = {s}
    <3>1. {answer} \ {None} = {} \/ {answer} \ {None} = {answer}
      OBVIOUS
    <3> QED BY <3>1
  <2>2. UNCHANGED metrics \/ Advance(n, S)
    BY <1>1 DEF Got
  <2> QED BY <2>1, <2>2
<1>2. CASE \E n \in Vnf : FindResource(n) \/ Create(n) \/ Select(n)
  BY <1>2 DEF FindResource, Create, Select
<1>3. CASE \E n \in Vnf : Ask(n)
  BY <1>1, <1>3 DEF Ask
<1>4. CASE \E n \in Vnf : Insert(n)
  BY <1>4 DEF Insert
<1>5. CASE EndCycle \/ Crash
  BY <1>5 DEF EndCycle, Crash, Forget
<1> QED BY <1>2, <1>3, <1>4, <1>5 DEF Next, vars, task, Complete, Delete, Restart, Tick, SetBack,
                                      Begin, Deadline

LEMMA RatesStep ==
  ASSUME TypeInv, [Next]_vars
  PROVE  FiniteRates'
<1>1. CASE UNCHANGED metrics
  BY <1>1 DEF TypeInv, FiniteRates, RatesOf, Samples
<1>2. CASE metrics' = [n \in Vnf |-> {}]
  <2>1. \A v \in Vdu : RatesOf(v)' = {}
    BY <1>2 DEF RatesOf, Samples
  <2> QED BY <2>1, FS_EmptySet DEF FiniteRates
<1>3. ASSUME NEW n \in Vnf, NEW S, Advance(n, S), S = {} \/ (\E s : S = {s})
      PROVE  FiniteRates'
  BY <1>3, RatesAdded DEF TypeInv, RawInv
<1> QED BY <1>1, <1>2, <1>3, SamplesStep

LEMMA TypeStart == Init => TypeInv
<1> SUFFICES ASSUME Init PROVE TypeInv
  OBVIOUS
<1>1. WorldTypes /\ StoreTypes
  BY DEF Init, WorldTypes, StoreTypes
<1>2. TaskTypes
  BY DEF Init, TaskTypes, None, Value
<1>3. faults \in Nat
  BY FiniteAssumption, FS_Subset, FS_CardinalityType DEF Init
<1>4. cycle \in 0..MaxCycles[account] /\ faults \in 0..MaxFaults
  BY <1>3, BoundsAssumption DEF Init
<1>5. counted \in [Vdu -> Int] /\ uneven \subseteq Vdu
  BY DEF Init
<1>6. untroubled \in BOOLEAN /\ hadTable \in BOOLEAN
  BY Zenon DEF Init
<1>7. HistoryTypes
  BY <1>4, <1>5, <1>6, Zenon DEF HistoryTypes
<1>8. \A v \in Vdu : RatesOf(v) = {}
  BY DEF Init, RatesOf, Samples
<1>9. FiniteRates
  BY <1>8, FS_EmptySet DEF FiniteRates
<1>10. RawInv
  BY RawStart
<1> QED BY <1>1, <1>2, <1>6, <1>7, <1>9, <1>10, Zenon DEF TypeInv

LEMMA HadTableStep == TypeInv /\ [Next]_vars => hadTable' \in BOOLEAN
<1> SUFFICES ASSUME TypeInv, [Next]_vars PROVE hadTable' \in BOOLEAN
  OBVIOUS
<1>1. hadTable' = hadTable \/ hadTable' = table
  BY DEF Next, vars, history, Complete, Delete, Restart, Tick, SetBack, Begin, FindResource, Ask,
         Select, Create, Insert, Deadline, EndCycle, Crash
<1>2. hadTable \in BOOLEAN /\ table \in BOOLEAN
  BY Zenon DEF TypeInv, StoreTypes
<1> QED BY <1>1, <1>2, Zenon

LEMMA TypeStep == TypeInv /\ [Next]_vars => TypeInv'
<1> SUFFICES ASSUME TypeInv, [Next]_vars PROVE TypeInv'
  OBVIOUS
<1>1. /\ WorldTypes' /\ StoreTypes' /\ TaskTypes' /\ HistoryTypes' /\ FiniteRates'
      /\ RawInv' /\ hadTable' \in BOOLEAN
  BY WorldStep, StoreStep, TaskStep, HistoryStep, RatesStep, RawStep, HadTableStep DEF TypeInv
<1> QED BY <1>1, Zenon DEF TypeInv

\* The types of the variables: counters, clock and rows stay natural numbers through
\* restarts and clocks set back, and what is counted of a VDU is a sum that exists
\* (OpenstackCollector.collect, sql_work.py).
THEOREM TypeCorrect == Spec => []TypeOK
<1>1. TypeInv => TypeOK
  <2> SUFFICES ASSUME TypeInv PROVE TypeOK
    OBVIOUS
  <2>1. /\ HistoryTypes /\ WorldTypes /\ StoreTypes /\ TaskTypes /\ NoTableNoRows
        /\ hadTable \in BOOLEAN
    BY Zenon DEF TypeInv, RawInv
  <2> QED BY <2>1, Zenon DEF TypeOK, WorldTypes, StoreTypes, TaskTypes, HistoryTypes, NoTableNoRows
<1> QED BY <1>1, TypeStart, TypeStep, PTL DEF Spec

-----------------------------------------------------------------------------
(* No packet is counted twice.                                             *)

\* Where a task has a number of packets in hand.
AtTable == {"select", "create", "insert"}

\* What the rates of a VDU tell of, those of the running cycle included, and what its
\* interfaces counted; a Prometheus counts nothing that a rate is taken of.
Told(v) == counted[v] + Total(RatesOf(v))
Passed(v) == IF account = "prometheus" THEN 0 ELSE SumFunctionOnSet(counter, InterfacesOf[v])

\* A backend answers for the VIM it was looked for in.
BackendFits(n) ==
  /\ backend[n] = "prometheus" => account = "prometheus"
  /\ backend[n] = "gnocchi" => account \in {"rocky", "older"}

\* The rows that are the newest are of one time.
SameTime == \A v \in Vdu : \A p \in rows[v], q \in rows[v] : p.time = q.time

\* The rates tell of no more than each row does, and a row of no more than was counted.
RowsBetween(v) == \A r \in rows[v] : Told(v) <= r.value /\ r.value <= Passed(v)

\* A number in hand is at least what each row has, and no more than was counted since.
ValueBetween(n) ==
  /\ Told(VduAt(n)) <= value[n].is /\ value[n].is <= Passed(VduAt(n))
  /\ \A r \in rows[VduAt(n)] : r.value <= value[n].is

\* What is said of a VDU of which no less was read than before.
Growing(v) ==
  /\ Told(v) <= Passed(v) /\ RatesOf(v) \subseteq Nat
  /\ RowsBetween(v)
  /\ \A n \in Vnf : pc[n] \in AtTable /\ VduAt(n) = v => ValueBetween(n)

CountInv ==
  /\ SameTime /\ \A n \in Vnf : BackendFits(n)
  /\ account # "older" => \A v \in Vdu \ uneven : Growing(v)

LEMMA ToldTypes ==
  ASSUME TypeInv, NEW v \in Vdu
  PROVE  /\ counted[v] \in Int /\ Total(RatesOf(v)) \in Int
         /\ Told(v) \in Int /\ Passed(v) \in Nat
         /\ RatesOf(v) \subseteq Nat => Total(RatesOf(v)) \in Nat
         /\ \A r \in rows[v] : r.value \in Nat /\ r.time \in Nat
<1>1. RatesOf(v) \subseteq Int /\ IsFiniteSet(RatesOf(v))
  BY DEF RatesOf, Samples, Sample, TypeInv, TaskTypes, FiniteRates
<1>2. Total(RatesOf(v)) \in Int /\ (RatesOf(v) \subseteq Nat => Total(RatesOf(v)) \in Nat)
  BY <1>1, TotalIsInt, TotalIsNat
<1>3. counted[v] \in Int
  BY DEF TypeInv, HistoryTypes
<1>4. Passed(v) \in Nat
  BY PacketsNumber, VnfAssumption DEF Passed, TypeInv
<1>5. \A r \in rows[v] : r.value \in Nat /\ r.time \in Nat
  BY DEF TypeInv, StoreTypes, Row
<1>6. Told(v) \in Int
  BY <1>2, <1>3 DEF Told
<1> QED BY <1>2, <1>3, <1>4, <1>5, <1>6

Numbers == \A v \in Vdu : Told(v) \in Int /\ Passed(v) \in Int

LEMMA ToldNumbers == TypeInv => Numbers
BY ToldTypes DEF Numbers

LEMMA ToldNumbersNext == TypeInv' => Numbers'
BY ToldNumbers, PTL

\* As the counters of its interfaces grow, so does what was counted of a VDU.
LEMMA PassedGrows ==
  ASSUME TypeInv, TypeInv', NEW v \in Vdu, UNCHANGED account,
         \A i \in InterfacesOf[v] : counter[i] <= counter'[i]
  PROVE  Passed(v) <= Passed(v)'
<1>1. InterfacesOf[v] \subseteq Interface /\ IsFiniteSet(InterfacesOf[v])
  BY VnfAssumption, FiniteAssumption, FS_Subset
<1>2. \A i \in InterfacesOf[v] : counter[i] \in Int /\ counter'[i] \in Int
  BY <1>1 DEF TypeInv, WorldTypes
<1>3. SumFunctionOnSet(counter, InterfacesOf[v]) <= SumFunctionOnSet(counter', InterfacesOf[v])
  BY <1>1, <1>2, SumGrows
<1> QED BY <1>3 DEF Passed

\* Nothing new is told of a VDU, no row of it is added, and a task that has a number of
\* its packets in hand had it before, or has one that fits.
LEMMA GrowingKept ==
  ASSUME TypeInv, TypeInv', NEW v \in Vdu, Growing(v),
         Told(v)' <= Told(v), RatesOf(v)' \subseteq Nat,
         rows'[v] \subseteq rows[v], Passed(v) <= Passed(v)',
         \A n \in Vnf : pc'[n] \in AtTable /\ VduAt(n)' = v =>
           \/ ValueBetween(n)'
           \/ pc[n] \in AtTable /\ VduAt(n) = v /\ value'[n] = value[n]
  PROVE  Growing(v)'
<1>1. /\ Told(v) \in Int /\ Told(v)' \in Int /\ Passed(v) \in Int /\ Passed(v)' \in Int
      /\ \A r \in rows[v] : r.value \in Int
  BY ToldTypes, ToldNumbersNext DEF Numbers
<1>2. Told(v)' <= Passed(v)'
  BY <1>1 DEF Growing
<1>3. RowsBetween(v)'
  BY <1>1 DEF Growing, RowsBetween
<1>4. ASSUME NEW n \in Vnf, pc'[n] \in AtTable, VduAt(n)' = v
      PROVE  ValueBetween(n)'
  <2>1. CASE pc[n] \in AtTable /\ VduAt(n) = v /\ value'[n] = value[n]
    <3>1. value[n].is \in Int
      BY DEF TypeInv, TaskTypes, Value
    <3>2. ValueBetween(n)
      BY <2>1 DEF Growing
    <3> QED BY <1>1, <1>4, <2>1, <3>1, <3>2 DEF ValueBetween
  <2> QED BY <1>4, <2>1
<1> QED BY <1>2, <1>3, <1>4 DEF Growing

\* Samples that are no rates of a VDU tell nothing of it.
LEMMA RatesSame ==
  ASSUME Shape, NEW n \in Vnf, NEW S, Advance(n, S), NEW v,
         \A s \in S : s.kind = "rate" => s.vdu # v
  PROVE  RatesOf(v)' = RatesOf(v)
<1>1. Samples' = Samples \cup S
  BY SamplesAdd
<1> QED BY <1>1 DEF RatesOf

\* A task that goes on without the rate of a VDU, and without a row for it, leaves what
\* is said of this one.
LEMMA GrowingPassedBy ==
  ASSUME TypeInv, TypeInv', NEW n \in Vnf, NEW S, Advance(n, S),
         NEW v \in Vdu, Growing(v), \A s \in S : s.kind = "rate" => s.vdu # v,
         UNCHANGED <<account, counter, counted>>, rows'[v] = rows[v]
  PROVE  Growing(v)'
<1>1. Shape /\ value = [m \in Vnf |-> value[m]]
  BY DEF TypeInv, RawInv, TaskTypes
<1>2. RatesOf(v)' = RatesOf(v) /\ Told(v)' = Told(v)
  BY <1>1, RatesSame DEF Told
<1>3. Passed(v)' = Passed(v)
  BY DEF Passed
<1>4. /\ pc'[n] \notin AtTable
      /\ \A m \in Vnf \ {n} : pc'[m] = pc[m] /\ value'[m] = value[m] /\ VduAt(m)' = VduAt(m)
  <2>1. /\ pc'[n] \in {"find", "returned"}
        /\ \A m \in Vnf \ {n} : pc'[m] = pc[m] /\ at'[m] = at[m]
    BY <1>1, GoOnRange DEF Advance, Shape
  <2>2. \A m \in Vnf \ {n} : value'[m] = value[m]
    BY <1>1 DEF Advance
  <2> QED BY <2>1, <2>2 DEF AtTable, VduAt, VduOf
<1>5. Told(v) <= Told(v) /\ Passed(v) <= Passed(v)
  BY ToldTypes
<1> QED BY <1>2, <1>3, <1>4, <1>5, GrowingKept DEF Growing

\* So it does when it stays where it is, and has what it had in hand.
LEMMA GrowingLeft ==
  ASSUME TypeInv, TypeInv', NEW v \in Vdu, Growing(v), UNCHANGED <<account, counted, metrics, rows>>,
         Passed(v) <= Passed(v)',
         \A n \in Vnf : pc'[n] \in AtTable /\ VduAt(n)' = v =>
           \/ ValueBetween(n)'
           \/ pc[n] \in AtTable /\ VduAt(n) = v /\ value'[n] = value[n]
  PROVE  Growing(v)'
<1>1. RatesOf(v)' = RatesOf(v) /\ Told(v)' = Told(v)
  BY DEF RatesOf, Samples, Told
<1>2. Told(v) <= Told(v)
  BY ToldTypes
<1> QED BY <1>1, <1>2, GrowingKept DEF Growing

\* OSM, the VIM and time.  A VDU that starts again leaves the interfaces of others.
LEMMA GrowingWorld ==
  ASSUME TypeInv, TypeInv', NEW v \in Vdu \ uneven', Growing(v),
         \/ UNCHANGED vars
         \/ \E u \in Vdu : Complete(u) \/ Delete(u) \/ Restart(u)
         \/ \E V \in SUBSET Busy : Tick(V)
         \/ SetBack
  PROVE  Growing(v)'
<1>1. UNCHANGED <<account, counted, metrics, rows, pc, at, value>>
  BY DEF vars, Complete, Delete, Restart, Tick, SetBack, task, store, history
<1>2. InterfacesOf[v] \subseteq Interface
  BY VnfAssumption
<1>3. \A i \in InterfacesOf[v] : counter[i] <= counter'[i]
  <2>1. \A i \in Interface : counter[i] \in Nat
    BY DEF TypeInv, WorldTypes
  <2>2. CASE UNCHANGED counter
    BY <1>2, <2>1, <2>2
  <2>3. CASE \E V \in SUBSET Busy : Tick(V)
    <3>1. PICK V \in SUBSET Busy : Tick(V)
      BY <2>3
    <3>2. \A i \in Interface :
            counter'[i] = counter[i] + IF \E u \in V : i \in InterfacesOf[u] THEN 1 ELSE 0
      BY <3>1 DEF Tick
    <3> QED BY <1>2, <2>1, <3>2
  <2>4. CASE \E u \in Vdu : Restart(u)
    <3>1. PICK u \in Vdu : Restart(u)
      BY <2>4
    <3>2. u # v
      BY <3>1 DEF Restart
    <3>3. \A i \in InterfacesOf[v] : i \notin InterfacesOf[u]
      BY <3>2, VnfAssumption
    <3>4. \A i \in InterfacesOf[v] : counter'[i] = counter[i]
      BY <1>2, <3>1, <3>3 DEF Restart
    <3> QED BY <1>2, <2>1, <3>4
  <2> QED BY <2>2, <2>3, <2>4 DEF vars, Complete, Delete, SetBack
<1>4. Passed(v) <= Passed(v)'
  BY <1>1, <1>3, PassedGrows
<1>5. \A n \in Vnf : VduAt(n)' = VduAt(n)
  BY <1>1 DEF VduAt, VduOf
<1> QED BY <1>1, <1>4, <1>5, GrowingLeft

\* Tasks are at no number when a cycle begins, or when it ends before its time.
LEMMA GrowingCycle ==
  ASSUME TypeInv, TypeInv', NEW v \in Vdu, Growing(v), Begin \/ Deadline
  PROVE  Growing(v)'
<1>1. UNCHANGED <<account, counter, counted, metrics, rows, value>>
  BY DEF Begin, Deadline, store
<1>2. Passed(v) <= Passed(v)'
  BY <1>1, ToldTypes DEF Passed
<1>3. ASSUME NEW n \in Vnf, pc'[n] \in AtTable
      PROVE  pc[n] \in AtTable /\ VduAt(n)' = VduAt(n)
  <2>1. ~Begin
    <3>1. Begin => pc'[n] \in {"find", "returned", "raised"}
      BY GoOnRange DEF Begin, GetBackendFails
    <3> QED BY <1>3, <3>1 DEF AtTable
  <2>2. Deadline
    BY <2>1
  <2> QED BY <1>3, <2>2 DEF Deadline, AtTable, VduAt, VduOf
<1> QED BY <1>1, <1>2, <1>3, GrowingLeft

\* A cycle that ends tells of its rates; one that is abandoned does not.
LEMMA GrowingEnd ==
  ASSUME TypeInv, TypeInv', NEW v \in Vdu, Growing(v), EndCycle \/ Crash
  PROVE  Growing(v)'
<1>1. /\ UNCHANGED <<account, counter>> /\ Forget
      /\ rows'[v] \subseteq rows[v]
      /\ UNCHANGED counted \/ counted' = [u \in Vdu |-> counted[u] + RateOf(u)]
  BY DEF EndCycle, Crash, store
<1>2. RatesOf(v)' = {} /\ Told(v)' = counted'[v]
  <2>1. RatesOf(v)' = {}
    BY <1>1 DEF Forget, RatesOf, Samples
  <2>2. Total(RatesOf(v))' = 0
    BY <2>1, TotalOfNone
  <2>3. counted'[v] \in Int
    BY DEF TypeInv, HistoryTypes
  <2> QED BY <2>1, <2>2, <2>3 DEF Told
<1>3. RatesOf(v) \subseteq Nat /\ IsFiniteSet(RatesOf(v))
  BY DEF Growing, TypeInv, FiniteRates
<1>4. RateOf(v) <= Total(RatesOf(v)) /\ RateOf(v) \in Nat
  <2> DEFINE rates == {s.delta : s \in {x \in Exported(v) : x.kind = "rate"}}
  <2>1. rates \in SUBSET RatesOf(v)
    BY DEF Exported, RatesOf, Samples
  <2>2. RateOf(v) = Total(rates)
    BY DEF RateOf, Total
  <2> HIDE DEF rates
  <2>3. IsFiniteSet(rates) /\ rates \subseteq Nat
    BY <1>3, <2>1, FS_Subset
  <2> QED BY <1>3, <2>1, <2>2, <2>3, TotalOfPart, TotalIsNat
<1>5. counted[v] \in Int /\ Total(RatesOf(v)) \in Nat
  BY <1>3, ToldTypes
<1>6. Told(v)' <= Told(v)
  BY <1>1, <1>2, <1>4, <1>5 DEF Told
<1>7. Passed(v) <= Passed(v)'
  BY <1>1, ToldTypes DEF Passed
<1>8. \A n \in Vnf : pc'[n] \notin AtTable
  BY <1>1 DEF Forget, AtTable
<1> QED BY <1>1, <1>2, <1>6, <1>7, <1>8, GrowingKept

\* A task that stays at a metric.
LEMMA GrowingGo ==
  ASSUME TypeInv, TypeInv', NEW n \in Vnf, NEW where, Go(n, where),
         NEW v \in Vdu, Growing(v), UNCHANGED <<account, counter, counted, metrics, rows, at, value>>,
         where \in AtTable => pc[n] \in AtTable
  PROVE  Growing(v)'
<1>1. Passed(v) <= Passed(v)'
  BY ToldTypes DEF Passed
<1>2. pc = [m \in Vnf |-> pc[m]]
  BY DEF TypeInv, RawInv, Shape
<1>3. \A m \in Vnf : pc'[m] = IF m = n THEN where ELSE pc[m]
  BY <1>2 DEF Go
<1>4. \A m \in Vnf : VduAt(m)' = VduAt(m)
  BY DEF VduAt, VduOf
<1> QED BY <1>1, <1>3, <1>4, GrowingLeft

LEMMA GrowingTask ==
  ASSUME TypeInv, TypeInv', NEW v \in Vdu, Growing(v),
         NEW n \in Vnf, FindResource(n) \/ Select(n) \/ Create(n)
  PROVE  Growing(v)'
<1>1. UNCHANGED <<account, counter, counted, rows>>
  BY DEF FindResource, Select, Create, store, history
<1>2. \/ Advance(n, {})
      \/ Go(n, "raised") /\ UNCHANGED <<at, value, metrics>>
      \/ Go(n, "ask") /\ UNCHANGED <<at, value, metrics>>
      \/ pc[n] \in AtTable /\ (Go(n, "create") \/ Go(n, "insert")) /\ UNCHANGED <<at, value, metrics>>
  BY DEF FindResource, Select, Create, AtTable
<1>3. CASE Advance(n, {})
  BY <1>1, <1>3, GrowingPassedBy
<1> QED BY <1>1, <1>2, <1>3, GrowingGo DEF AtTable

\* What is answered for packets, to a task that has a place to be at, is the number that
\* went through the interfaces of the VDU, or the text of a Prometheus.
LEMMA AnswerFits ==
  ASSUME TypeInv, account # "older", NEW n \in Vnf, BackendFits(n), pc[n] = "ask",
         MetricAt(n) = "packets", NEW answer \in Answers(n), answer # None
  PROVE  answer.is = Passed(VduAt(n))
<1>1. backend[n] \in {"none", "prometheus", "gnocchi", "ceilometer"}
  BY DEF TypeInv, TaskTypes
<1>2. CASE backend[n] = "gnocchi"
  <2>1. answer = Packets(InterfacesOf[VduAt(n)]) /\ account # "prometheus"
    BY <1>2 DEF Answers, GnocchiAnswers, BackendFits
  <2> QED BY <2>1 DEF Packets, Number, Passed
<1>3. CASE backend[n] = "prometheus"
  BY <1>3 DEF Answers, PrometheusAnswers, BackendFits, Passed
<1>4. Answers(n) = {} \/ backend[n] \in {"gnocchi", "prometheus"}
  BY <1>1 DEF Answers, CeilometerAnswers
<1> QED BY <1>2, <1>3, <1>4

LEMMA GrowingAsk ==
  ASSUME TypeInv, TypeInv', account # "older", NEW v \in Vdu \ uneven', Growing(v),
         NEW n \in Vnf, BackendFits(n), Ask(n)
  PROVE  Growing(v)'
<1>1. UNCHANGED <<account, counter, counted, rows>> /\ pc[n] = "ask"
  BY DEF Ask, store
<1>2. \/ \E S : Advance(n, S) /\ \A s \in S : s.kind = "value"
      \/ /\ Go(n, "select") /\ UNCHANGED <<at, metrics>>
         /\ \E answer : /\ Give(n, answer) /\ answer # None /\ MetricAt(n) = "packets"
                        /\ answer \in Answers(n) \/ VduAt(n) \in uneven'
  <2>1. ASSUME NEW answer, Got(n, answer), answer \in Answers(n) \/ VduAt(n) \in uneven'
        PROVE  \/ \E S : Advance(n, S) /\ \A s \in S : s.kind = "value"
               \/ /\ Go(n, "select") /\ UNCHANGED <<at, metrics>>
                  /\ Give(n, answer) /\ answer # None /\ MetricAt(n) = "packets"
    <3> DEFINE S == {[vdu |-> VduAt(n), metric |-> MetricAt(n), kind |-> "value", delta |-> 0] :
                       x \in {answer} \ {None}}
    <3>1. \A s \in S : s.kind = "value"
      OBVIOUS
    <3> QED BY <2>1, <3>1 DEF Got
  <2>2. \/ Advance(n, {})
        \/ \E answer : Got(n, answer) /\ (answer \in Answers(n) \/ VduAt(n) \in uneven')
    BY DEF Ask
  <2> QED BY <2>1, <2>2
<1>3. CASE \E S : Advance(n, S) /\ \A s \in S : s.kind = "value"
  BY <1>1, <1>3, GrowingPassedBy
<1>4. CASE /\ Go(n, "select") /\ UNCHANGED <<at, metrics>>
           /\ \E answer : /\ Give(n, answer) /\ answer # None /\ MetricAt(n) = "packets"
                          /\ answer \in Answers(n) \/ VduAt(n) \in uneven'
  <2>1. PICK answer : /\ Give(n, answer) /\ answer # None /\ MetricAt(n) = "packets"
                      /\ answer \in Answers(n) \/ VduAt(n) \in uneven'
    BY <1>4
  <2>2. /\ value' = [value EXCEPT ![n] = answer] /\ value = [m \in Vnf |-> value[m]]
        /\ pc' = [pc EXCEPT ![n] = "select"] /\ pc = [m \in Vnf |-> pc[m]]
    BY <1>4, <2>1 DEF Give, Go, TypeInv, TaskTypes
  <2>3. /\ Passed(v)' = Passed(v) /\ Told(v)' = Told(v)
        /\ \A m \in Vnf : VduAt(m)' = VduAt(m)
    BY <1>1, <1>4 DEF Passed, Told, RatesOf, Samples, VduAt, VduOf
  <2>4. ASSUME VduAt(n) = v PROVE ValueBetween(n)'
    <3>1. value'[n] = answer /\ answer.is = Passed(v)
      BY <1>1, <2>1, <2>2, <2>4, AnswerFits
    <3>2. Told(v) <= Passed(v) /\ \A r \in rows[v] : r.value <= Passed(v)
      BY DEF Growing, RowsBetween
    <3>3. Passed(v) \in Nat
      BY ToldTypes
    <3>4. /\ Told(VduAt(n))' = Told(v) /\ Passed(VduAt(n))' = Passed(v)
          /\ rows'[VduAt(n)'] = rows[v]
      <4>1. counted' = counted /\ metrics' = metrics /\ account' = account /\ counter' = counter
        BY <1>1, <1>4
      <4> QED BY <1>1, <2>3, <2>4, <4>1 DEF Told, RatesOf, Samples, Passed
    <3> QED BY <3>1, <3>2, <3>3, <3>4 DEF ValueBetween
  <2>5. \A m \in Vnf : pc'[m] \in AtTable /\ VduAt(m)' = v =>
          \/ ValueBetween(m)'
          \/ pc[m] \in AtTable /\ VduAt(m) = v /\ value'[m] = value[m]
    <3>1. \A m \in Vnf \ {n} : pc'[m] = pc[m] /\ value'[m] = value[m]
      BY <2>2
    <3> QED BY <2>3, <2>4, <3>1
  <2> QED BY <1>1, <1>4, <2>3, <2>5, ToldTypes, GrowingLeft
<1> QED BY <1>2, <1>3, <1>4

\* What is inserted is between what was told and what was counted, and a rate tells of
\* what was not told yet.
LEMMA GrowingInsert ==
  ASSUME TypeInv, TypeInv', SameTime, NEW v \in Vdu, Growing(v), NEW n \in Vnf, Insert(n)
  PROVE  Growing(v)'
<1> DEFINE k == value[n].is
           sample(kind, d) ==
             {[vdu |-> VduAt(n), metric |-> "packets", kind |-> kind, delta |-> d]}
           new == [time |-> clock, value |-> k]
<1>1. /\ UNCHANGED <<account, counter, counted>> /\ pc[n] = "insert"
      /\ Shape /\ RowOf(n) /\ VduAt(n) \in Vdu
  BY PlaceTypes DEF Insert, TypeInv, RawInv, Working
<1>2. \/ UNCHANGED rows /\ Advance(n, {})
      \/ SqlInsert(VduAt(n), k) /\ Advance(n, sample("raw", k))
      \/ \E r \in row[n] : /\ r.time < clock
                           /\ SqlInsert(VduAt(n), k) /\ Advance(n, sample("rate", k - r.value))
  BY DEF Insert
<1>3. CASE UNCHANGED rows /\ Advance(n, {})
  BY <1>1, <1>3, GrowingPassedBy
<1>4. CASE /\ VduAt(n) # v
           /\ SqlInsert(VduAt(n), k) /\ \E kind, d : Advance(n, sample(kind, d))
  <2>1. rows'[v] = rows[v]
    BY <1>1, <1>4 DEF SqlInsert, Shape
  <2>2. \A kind, d : \A s \in sample(kind, d) : s.vdu # v
    BY <1>4
  <2> HIDE DEF sample
  <2> QED BY <1>1, <1>4, <2>1, <2>2, GrowingPassedBy
<1>5. CASE /\ VduAt(n) = v /\ SqlInsert(v, k)
           /\ \/ Advance(n, sample("raw", k))
              \/ \E r \in row[n] : r.time < clock /\ Advance(n, sample("rate", k - r.value))
  <2>1. /\ Told(v) <= k /\ k <= Passed(v) /\ k \in Nat
        /\ \A r \in rows[v] : r.value <= k /\ Told(v) <= r.value /\ r.value <= Passed(v)
    BY <1>1, <1>5 DEF Growing, AtTable, ValueBetween, RowsBetween, TypeInv, TaskTypes, Value
  <2>2. /\ Told(v) \in Int /\ Passed(v) \in Nat /\ counted[v] \in Int
        /\ RatesOf(v) \subseteq Nat /\ Total(RatesOf(v)) \in Nat /\ IsFiniteSet(RatesOf(v))
        /\ \A r \in rows[v] : r.value \in Nat /\ r.time \in Nat
    BY ToldTypes DEF Growing, TypeInv, FiniteRates
  <2>3. rows'[v] = Newest(rows[v], new)
    BY <1>1, <1>5 DEF SqlInsert, Shape
  <2>4. Passed(v)' = Passed(v)
    BY <1>1 DEF Passed
  <2>5. \A m \in Vnf : pc'[m] \in AtTable => VduAt(m)' # v
    <3>1. ASSUME NEW m \in Vnf, pc'[m] \in AtTable PROVE VduAt(m)' # v
      <4>1. \E S : Advance(n, S)
        BY <1>5
      <4>2. pc'[n] \in {"find", "returned"} /\ \A l \in Vnf \ {n} : pc'[l] = pc[l] /\ at'[l] = at[l]
        BY <1>1, <4>1, GoOnRange DEF Advance, Shape
      <4>3. m # n /\ pc[m] \in Working /\ VduAt(m)' = VduAt(m)
        BY <3>1, <4>2 DEF AtTable, Working, VduAt, VduOf
      <4> QED BY <1>1, <1>5, <4>3, VdusApart DEF Working
    <3> QED BY <3>1
  <2>6. \/ /\ Told(v)' = Told(v) /\ RatesOf(v)' = RatesOf(v)
           /\ rows'[v] \subseteq rows[v] \cup {new}
        \/ /\ Told(v)' <= k /\ RatesOf(v)' \subseteq Nat
           /\ rows'[v] = {new}
    <3>1. CASE Advance(n, sample("raw", k))
      <4>1. RatesOf(v)' = RatesOf(v)
        BY <1>1, <3>1, RatesSame
      <4> QED BY <1>1, <2>3, <4>1 DEF Told, Newest
    <3>2. ASSUME NEW r \in row[n], r.time < clock, Advance(n, sample("rate", k - r.value))
          PROVE  Told(v)' <= k /\ RatesOf(v)' \subseteq Nat /\ rows'[v] = {new}
      <4> DEFINE d == k - r.value
      <4>1. r \in rows[v] /\ clock \in Nat
        BY <1>1, <1>5 DEF RowOf, TypeInv, WorldTypes
      <4>2. d \in Nat /\ Told(v) <= r.value /\ r.value \in Nat
        BY <2>1, <2>2, <4>1
      <4>3. Samples' = Samples \cup sample("rate", d)
        BY <1>1, <3>2, SamplesAdd
      <4>4. RatesOf(v)' = RatesOf(v) \cup {d}
        <5> DEFINE e == [vdu |-> VduAt(n), metric |-> "packets", kind |-> "rate", delta |-> d]
        <5>1. e.vdu = v /\ e.kind = "rate" /\ e.delta = d
          BY <1>5
        <5>2. Samples' = Samples \cup {e}
          BY <4>3
        <5> HIDE DEF e, d
        <5> QED BY <5>1, <5>2 DEF RatesOf
      <4>5. Total(RatesOf(v)') <= Total(RatesOf(v)) + d
        BY <2>2, <4>2, TotalAdded, <4>4
      <4>6. IsFiniteSet(RatesOf(v)') /\ RatesOf(v)' \subseteq Nat
        BY <2>2, <4>2, <4>4, FS_AddElement
      <4>7. Total(RatesOf(v)') \in Nat
        BY <4>6, TotalIsNat
      <4>8. Told(v)' = counted[v] + Total(RatesOf(v)')
        BY <1>1 DEF Told
      <4>9. Told(v)' <= Told(v) + d
        BY <2>2, <4>2, <4>5, <4>7, <4>8 DEF Told
      <4>10. Told(v)' \in Int
        BY <2>2, <4>7, <4>8
      <4>11. Told(v)' <= k
        BY <2>1, <2>2, <4>2, <4>9, <4>10
      <4>12. \A q \in rows[v] : q.time < clock
        BY <3>2, <4>1 DEF SameTime
      <4>13. Newest(rows[v], new) = {new}
        <5>1. new.time = clock
          OBVIOUS
        <5> HIDE DEF new
        <5> QED BY <2>2, <4>1, <4>12, <5>1 DEF Newest
      <4> QED BY <2>3, <4>6, <4>11, <4>13
    <3> QED BY <1>5, <3>1, <3>2
  <2>7. new.value = k
    OBVIOUS
  <2>8. RowsBetween(v)' /\ RatesOf(v)' \subseteq Nat /\ Told(v)' <= Passed(v)'
    <3>1. Told(v)' <= k /\ RatesOf(v)' \subseteq Nat
      BY <2>1, <2>2, <2>6
    <3>2. \A r \in rows'[v] : Told(v)' <= r.value /\ r.value <= Passed(v)
      BY <2>1, <2>2, <2>6, <2>7
    <3>3. Told(v)' \in Int
      BY ToldNumbersNext DEF Numbers
    <3>4. Told(v)' <= Passed(v)
      BY <2>1, <2>2, <3>1, <3>3
    <3> QED BY <2>4, <3>1, <3>2, <3>4 DEF RowsBetween
  <2> QED BY <2>5, <2>8 DEF Growing
<1> HIDE DEF k, sample
<1> QED BY <1>2, <1>3, <1>4, <1>5

LEMMA SameTimeStep ==
  ASSUME TypeInv, SameTime, [Next]_vars
  PROVE  SameTime'
<1>1. CASE UNCHANGED rows \/ rows' = [v \in Vdu |-> {}]
  BY <1>1 DEF SameTime
<1>2. ASSUME NEW n \in Vnf, Insert(n) PROVE SameTime'
  <2>1. PICK k \in Nat : UNCHANGED rows \/ SqlInsert(VduAt(n), k)
    <3>1. value[n].is \in Nat
      BY DEF TypeInv, TaskTypes, Value
    <3> QED BY <1>2, <3>1 DEF Insert
  <2> DEFINE new == [time |-> clock, value |-> k]
  <2>2. \A S \in SUBSET Row : \A p \in Newest(S, new), q \in Newest(S, new) : p.time = q.time
    <3>1. new \in Row
      BY DEF TypeInv, WorldTypes, Row
    <3> HIDE DEF new
    <3>2. \A S \in SUBSET Row : \A p \in S \cup {new} : p.time \in Nat
      BY <3>1 DEF Row
    <3> QED BY <3>2 DEF Newest
  <2>3. \A v \in Vdu : rows[v] \in SUBSET Row
    BY DEF TypeInv, StoreTypes
  <2>4. CASE SqlInsert(VduAt(n), k)
    <3>1. \A v \in Vdu : rows'[v] = rows[v] \/ rows'[v] = Newest(rows[v], new)
      BY <2>4 DEF SqlInsert, TypeInv, RawInv, Shape
    <3> HIDE DEF new
    <3> QED BY <2>2, <2>3, <3>1 DEF SameTime
  <2> QED BY <1>1, <2>1, <2>4
<1>3. CASE UNCHANGED vars
           \/ \E n \in Vnf : FindResource(n) \/ Ask(n) \/ Select(n) \/ Create(n)
  BY <1>1, <1>3 DEF vars, store, FindResource, Ask, Select, Create
<1>4. CASE EndCycle \/ Crash \/ Begin \/ Deadline \/ SetBack
           \/ \E v \in Vdu : Complete(v) \/ Delete(v) \/ Restart(v)
  BY <1>1, <1>4 DEF store, Begin, Deadline, EndCycle, Crash, Complete, Delete, Restart, SetBack
<1>5. CASE \E V \in SUBSET Busy : Tick(V)
  BY <1>1, <1>5 DEF Tick, store
<1> QED BY <1>2, <1>3, <1>4, <1>5 DEF Next

LEMMA BackendStep ==
  ASSUME TypeInv, \A n \in Vnf : BackendFits(n), [Next]_vars
  PROVE  \A n \in Vnf : BackendFits(n)'
<1>1. UNCHANGED account
  BY WorldStep DEF TypeInv
<1>2. CASE UNCHANGED backend
  BY <1>1, <1>2 DEF BackendFits
<1>3. CASE Begin
  <2>1. \A n \in Vnf : backend'[n] \in {Backend, "none", "ceilometer"}
    BY <1>3 DEF Begin, GetBackendFails
  <2>2. account \in {"prometheus", "rocky", "older", "ceilometer"}
    BY AccountAssumption DEF TypeInv, WorldTypes
  <2> QED BY <1>1, <2>1, <2>2 DEF BackendFits, Backend
<1>4. CASE EndCycle \/ Crash
  BY <1>4 DEF EndCycle, Crash, Forget, BackendFits
<1> QED BY <1>2, <1>3, <1>4 DEF Next, vars, task, Complete, Delete, Restart, Tick, SetBack,
                                FindResource, Ask, Select, Create, Insert, Deadline

LEMMA CountStart == Init => CountInv
<1> SUFFICES ASSUME Init PROVE CountInv
  OBVIOUS
<1>1. SameTime /\ \A n \in Vnf : BackendFits(n)
  BY DEF Init, SameTime, BackendFits
<1>2. ASSUME NEW v \in Vdu PROVE Growing(v)
  <2>1. RatesOf(v) = {} /\ rows[v] = {} /\ counted[v] = 0
    BY DEF Init, RatesOf, Samples
  <2>2. Told(v) = 0
    BY <2>1, TotalOfNone DEF Told
  <2>3. Passed(v) \in Nat
    BY TypeStart, ToldTypes
  <2>4. \A n \in Vnf : pc[n] \notin AtTable
    BY DEF Init, AtTable
  <2> QED BY <2>1, <2>2, <2>3, <2>4 DEF Growing, RowsBetween
<1> QED BY <1>1, <1>2 DEF CountInv

LEMMA CountStep == TypeInv /\ TypeInv' /\ CountInv /\ [Next]_vars => CountInv'
<1> SUFFICES ASSUME TypeInv, TypeInv', CountInv, [Next]_vars PROVE CountInv'
  OBVIOUS
<1>1. SameTime' /\ \A n \in Vnf : BackendFits(n)'
  BY SameTimeStep, BackendStep DEF CountInv
<1>2. UNCHANGED account /\ uneven \subseteq uneven'
  <2>1. UNCHANGED account
    BY WorldStep DEF TypeInv
  <2>2. UNCHANGED uneven \/ \E v : uneven' = uneven \cup {v}
    BY DEF Next, vars, history, Complete, Delete, Restart, Tick, SetBack, Begin, FindResource,
           Ask, Select, Create, Insert, Deadline, EndCycle, Crash
  <2> QED BY <2>1, <2>2
<1>3. ASSUME account # "older", NEW v \in Vdu \ uneven' PROVE Growing(v)'
  <2>1. Growing(v) /\ SameTime /\ \A n \in Vnf : BackendFits(n)
    BY <1>2, <1>3 DEF CountInv
  <2>2. CASE \/ UNCHANGED vars
             \/ \E u \in Vdu : Complete(u) \/ Delete(u) \/ Restart(u)
             \/ \E V \in SUBSET Busy : Tick(V)
             \/ SetBack
    BY <1>3, <2>1, <2>2, GrowingWorld
  <2>3. CASE Begin \/ Deadline
    BY <2>1, <2>3, GrowingCycle
  <2>4. CASE EndCycle \/ Crash
    BY <2>1, <2>4, GrowingEnd
  <2>5. CASE \E n \in Vnf : FindResource(n) \/ Select(n) \/ Create(n)
    BY <2>1, <2>5, GrowingTask
  <2>6. CASE \E n \in Vnf : Ask(n)
    BY <1>3, <2>1, <2>6, GrowingAsk
  <2>7. CASE \E n \in Vnf : Insert(n)
    BY <2>1, <2>7, GrowingInsert
  <2> QED BY <2>2, <2>3, <2>4, <2>5, <2>6, <2>7 DEF Next
<1> QED BY <1>1, <1>2, <1>3 DEF CountInv

\* No packet is counted twice: whatever samples are lost, killed with their task or
\* thrown away with their cycle, whichever of several rows of one time is read, and
\* however the clock goes, the rates exported for a VDU never tell of more than its
\* interfaces counted (OpenstackCollector.collect, sql_work.py).
THEOREM NothingCountedTwice == Spec => []CountedOnce
<1>1. Spec => []TypeInv
  BY TypeStart, TypeStep, PTL DEF Spec
<1>2. Spec => []CountInv
  BY <1>1, CountStart, CountStep, PTL DEF Spec
<1>3. TypeInv /\ CountInv => CountedOnce
  <2> SUFFICES ASSUME TypeInv, CountInv, account # "older", NEW v \in Vdu \ uneven
               PROVE  counted[v] <= SumFunctionOnSet(counter, InterfacesOf[v])
    BY DEF CountedOnce
  <2>1. Told(v) <= Passed(v) /\ RatesOf(v) \subseteq Nat
    BY DEF CountInv, Growing
  <2>2. counted[v] \in Int /\ Total(RatesOf(v)) \in Nat /\ Passed(v) \in Nat
    BY <2>1, ToldTypes
  <2>3. counted[v] <= Passed(v)
    BY <2>1, <2>2 DEF Told
  <2>4. SumFunctionOnSet(counter, InterfacesOf[v]) \in Nat
    BY PacketsNumber, VnfAssumption DEF TypeInv
  <2>5. Passed(v) <= SumFunctionOnSet(counter, InterfacesOf[v])
    BY <2>4 DEF Passed
  <2> QED BY <2>2, <2>3, <2>4, <2>5
<1> QED BY <1>1, <1>2, <1>3, PTL

-----------------------------------------------------------------------------
(* The places of a task, one after the other.                              *)

LEMMA LeastNumber ==
  ASSUME NEW I \in SUBSET Nat, I # {}
  PROVE  \E i \in I : \A j \in I : i <= j
<1> DEFINE C == {1..i : i \in I}
<1>1. C \subseteq FiniteSubsetsOf(Nat) /\ C # {}
  <2>1. \A i \in I : IsFiniteSet(1..i) /\ 1..i \subseteq Nat
    BY FS_Interval
  <2> QED BY <2>1 DEF FiniteSubsetsOf
<1> HIDE DEF C
<1>2. PICK X \in C : \A Y \in C : Y \subseteq X => Y = X
  BY <1>1, SmallestSet
<1>3. PICK i \in I : X = 1..i
  BY DEF C
<1>4. ASSUME NEW j \in I, j < i PROVE FALSE
  <2>1. 1..j \in C /\ 1..j \subseteq X /\ i \in X /\ i \notin 1..j
    BY <1>3, <1>4 DEF C
  <2> QED BY <1>2, <2>1
<1> QED BY <1>4

\* A place is a pair of numbers.
LEMMA PlacePair ==
  ASSUME NEW n \in Vnf, NEW x \in Work(n)
  PROVE  x[1] \in Nat /\ x[2] \in Nat /\ x[1] > 0 /\ x = <<x[1], x[2]>>
<1>1. PICK i \in 1..Len(VdursOf[n]) : \E k \in 1..Len(ParamsOf[VdursOf[n][i]]) : x = <<i, k>>
  BY DEF Work
<1>2. VdursOf[n] \in Seq(Vdu) /\ ParamsOf[VdursOf[n][i]] \in Seq(Metric)
  BY <1>1, VnfAssumption
<1> QED BY <1>1, <1>2

\* Of any places one is the first.
LEMMA FirstPlace ==
  ASSUME NEW n \in Vnf, NEW Y \in SUBSET Work(n), Y # {}
  PROVE  \E y \in Y : \A z \in Y : ~Precedes(z, y)
<1>1. \A y \in Y : y[1] \in Nat /\ y[2] \in Nat
  BY PlacePair
<1> DEFINE I == {y[1] : y \in Y}
<1>2. I \in SUBSET Nat /\ I # {}
  BY <1>1
<1>3. PICK i \in I : \A j \in I : i <= j
  BY <1>2, LeastNumber
<1> DEFINE K == {y[2] : y \in {z \in Y : z[1] = i}}
<1>4. K \in SUBSET Nat /\ K # {}
  BY <1>1
<1>5. PICK k \in K : \A l \in K : k <= l
  BY <1>4, LeastNumber
<1>6. PICK y \in Y : y[1] = i /\ y[2] = k
  OBVIOUS
<1>7. ASSUME NEW z \in Y, Precedes(z, y) PROVE FALSE
  <2>1. i <= z[1] /\ i \in Nat /\ z[1] \in Nat /\ z[2] \in Nat /\ k \in Nat
    BY <1>1, <1>2, <1>3, <1>4
  <2>2. z[1] = i /\ z[2] < k
    BY <1>6, <1>7, <2>1 DEF Precedes
  <2>3. k <= z[2]
    BY <1>5, <2>2
  <2> QED BY <2>1, <2>2, <2>3
<1> QED BY <1>7

\* After a place come all that are not before it, and none between it and the next.
LEMMA FollowingNext ==
  ASSUME NEW n \in Vnf, NEW x \in Work(n) \cup {Outside}
  PROVE  /\ Following(n, x) = Outside => \A z \in Work(n) : z = x \/ Precedes(z, x)
         /\ Following(n, x) # Outside =>
              /\ Following(n, x) \in Work(n)
              /\ \A z \in Work(n) : Precedes(z, Following(n, x)) <=> z = x \/ Precedes(z, x)
<1> DEFINE after == {y \in Work(n) : Precedes(x, y)}
           next == {y \in Work(n) : /\ Precedes(x, y)
                                    /\ \A z \in Work(n) : Precedes(x, z) => ~Precedes(z, y)}
<1>1. /\ \A z \in Work(n) : z[1] \in Nat /\ z[2] \in Nat /\ z[1] > 0 /\ z = <<z[1], z[2]>>
      /\ x[1] \in Nat /\ x[2] \in Nat /\ x = <<x[1], x[2]>>
  BY PlacePair DEF Outside
<1>2. \A z \in Work(n) : z = x \/ Precedes(z, x) \/ Precedes(x, z)
  <2> SUFFICES ASSUME NEW z \in Work(n), ~Precedes(z, x), ~Precedes(x, z) PROVE z = x
    OBVIOUS
  <2>1. z[1] = x[1] /\ z[2] = x[2]
    BY <1>1 DEF Precedes
  <2> QED BY <1>1, <2>1
<1>3. after # {} => next # {}
  BY FirstPlace
<1>4. Following(n, x) = IF next = {} THEN Outside ELSE CHOOSE y \in next : TRUE
  BY DEF Following
<1>5. \A y \in next : y # Outside
  BY <1>1 DEF Outside
<1>6. CASE next = {}
  BY <1>2, <1>3, <1>4, <1>6
<1>7. CASE next # {}
  <2> DEFINE y == CHOOSE y \in next : TRUE
  <2>1. y \in next /\ Following(n, x) = y
    BY <1>4, <1>7
  <2> HIDE DEF y
  <2>2. y \in Work(n) /\ Precedes(x, y) /\ \A z \in Work(n) : Precedes(x, z) => ~Precedes(z, y)
    BY <2>1
  <2>3. \A z \in Work(n) : Precedes(z, x) => Precedes(z, y)
    BY <1>1, <2>2 DEF Precedes
  <2> QED BY <1>2, <1>5, <2>1, <2>2, <2>3
<1> QED BY <1>6, <1>7

-----------------------------------------------------------------------------
(* Samples that are lost.                                                  *)

MetricOf(n, x) == ParamsOf[VduOf(n, x)][x[2]]

\* A metric that goes through the table.
Tabled(n, x) ==
  /\ MetricOf(n, x) = "packets" /\ copy[VduOf(n, x)] # "nameless"
  /\ account = "prometheus" \/ (account # "ceilometer" /\ InterfacesOf[VduOf(n, x)] # {})

\* The places a task is done with, those it has no sample of though it owes one, and a
\* task that lost none and is not about to.
Done(n) == IF pc[n] = "returned" THEN Work(n) ELSE {x \in Work(n) : Precedes(x, at[n])}
Sampled(n, x) == \E s \in metrics[n] : s.vdu = VduOf(n, x) /\ s.metric = MetricOf(n, x)
Missing(n) == {x \in Done(n) : Owed(n, x) /\ ~Sampled(n, x)}
Whole(n) == Missing(n) = {} /\ pc[n] # "create"

\* Nothing a task of this VNF is asked for makes it raise.
Fine(n) == \A x \in Work(n) : MetricOf(n, x) \in Names(Backend)

\* Where a task is when nothing failed.
AtWork(n) ==
  /\ pc[n] \in Working => backend[n] = Backend
  /\ pc[n] \in Working \ {"find"} =>
       MetricAt(n) \in Names(Backend) /\ copy[VduAt(n)] # "nameless"
  /\ pc[n] \in AtTable =>
       Tabled(n, at[n]) /\ (value[n].form = "number" \/ account = "prometheus")
  /\ pc[n] # "killed" /\ (pc[n] = "raised" /\ faults = 0 => ~Fine(n))
  /\ pc[n] # "idle" => cycle > 0
  /\ pc[n] = "idle" => at[n] = Outside /\ metrics[n] = {}

\* The first cycle is over.
Settled == cycle > 1 \/ (cycle = 1 /\ \A n \in Vnf : pc[n] = "idle")

\* A task is done with packets only when the table is there.  It loses a sample only by
\* being late to create the table, and so one at most.  If all records were complete the
\* table is there after the first cycle for each task that may come to its end.
SamplesOf(n) ==
  /\ faults = 0 => \A x \in Done(n) : MetricOf(n, x) \in Names(Backend)
  /\ (\E x \in Done(n) : Tabled(n, x)) => table
  /\ \A x \in Missing(n), y \in Missing(n) : x = y
  /\ (~table \/ pc[n] = "create") => Missing(n) = {}
  /\ hadTable => Whole(n)
  /\ faults = 0 /\ Settled /\ Fine(n) => Whole(n) /\ ((\E x \in Work(n) : Tabled(n, x)) => table)

\* In the first cycle with a Prometheus a VDU has a row only with its sample.
FirstRows(n) ==
  account = "prometheus" /\ cycle = 1 /\ pc[n] # "idle" =>
    \A x \in Work(n) : MetricOf(n, x) = "packets" /\ rows[VduOf(n, x)] # {} => Sampled(n, x)

Records ==
  /\ \A v \in Vdu : record[v] # "deleted" /\ copy[v] # "deleted"
  /\ faults = 0 => \A v \in Vdu : record[v] = "complete" /\ copy[v] = "complete"
NoRowsYet == cycle = 0 => \A v \in Vdu : rows[v] = {}

SampledInv ==
  untroubled =>
    /\ Records /\ NoRowsYet /\ \A n \in Vnf : AtWork(n) /\ SamplesOf(n) /\ FirstRows(n)
    /\ table => \E n \in Vnf : Whole(n)
    /\ hadTable => table

\* A task that goes on is done with one place more.
LEMMA DoneAdvance ==
  ASSUME Shape, NEW n \in Vnf, NEW S, Advance(n, S), pc[n] \in Working
  PROVE  Done(n)' = Done(n) \cup {at[n]} /\ at[n] \in Work(n)
<1>1. /\ at[n] \in Work(n) /\ pc[n] # "returned"
      /\ at'[n] = Following(n, at[n]) /\ pc'[n] = GoOn(Following(n, at[n]))
  BY DEF Shape, Working, Advance
<1>2. Done(n) = {x \in Work(n) : Precedes(x, at[n])}
  BY <1>1 DEF Done
<1>3. CASE Following(n, at[n]) = Outside
  <2>1. Done(n)' = Work(n)
    BY <1>1, <1>3 DEF Done, GoOn, Work
  <2> QED BY <1>1, <1>2, <1>3, <2>1, FollowingNext
<1>4. CASE Following(n, at[n]) # Outside
  <2>1. Done(n)' = {x \in Work(n) : Precedes(x, Following(n, at[n]))}
    BY <1>1, <1>4 DEF Done, GoOn, Work
  <2> QED BY <1>1, <1>2, <1>4, <2>1, FollowingNext
<1> QED BY <1>3, <1>4

\* What is owed changes with the cycle and its copy only.
LEMMA OwedKept ==
  ASSUME NEW n \in Vnf, NEW x, UNCHANGED <<account, cycle, copy>>
  PROVE  /\ Owed(n, x)' <=> Owed(n, x)
         /\ Tabled(n, x)' <=> Tabled(n, x)
         /\ MetricOf(n, x)' = MetricOf(n, x)
<1>1. Given(n, x)' <=> Given(n, x)
  BY DEF Given, VduOf
<1> QED BY <1>1 DEF Owed, Tabled, MetricOf, VduOf

\* It has the samples it had, and the one of the place it was at if it got one.
LEMMA SampledAdvance ==
  ASSUME Shape, NEW n \in Vnf, NEW S, Advance(n, S), NEW x
  PROVE  /\ Sampled(n, x) => Sampled(n, x)'
         /\ x = at[n] /\ (\E s \in S : s.vdu = VduAt(n) /\ s.metric = MetricAt(n)) =>
              Sampled(n, x)'
<1>1. metrics'[n] = metrics[n] \cup S
  BY DEF Shape, Advance
<1>2. x = at[n] => VduAt(n) = VduOf(n, x) /\ MetricAt(n) = MetricOf(n, x)
  BY DEF VduAt, MetricAt, MetricOf, VduOf
<1>3. Sampled(n, x)' <=> \E s \in metrics'[n] : s.vdu = VduOf(n, x) /\ s.metric = MetricOf(n, x)
  BY DEF Sampled, VduOf, MetricOf
<1> QED BY <1>1, <1>2, <1>3 DEF Sampled

\* It misses no more than it did, but perhaps the one it is at.
LEMMA MissingAdvance ==
  ASSUME Shape, NEW n \in Vnf, NEW S, Advance(n, S), pc[n] \in Working,
         UNCHANGED <<account, cycle, copy>>
  PROVE  /\ Missing(n)' \subseteq Missing(n) \cup {at[n]}
         /\ ~Owed(n, at[n]) \/ Sampled(n, at[n])
              \/ (\E s \in S : s.vdu = VduAt(n) /\ s.metric = MetricAt(n))
              => Missing(n)' \subseteq Missing(n)
<1>1. Done(n)' = Done(n) \cup {at[n]}
  BY DoneAdvance
<1>2. \A x : Owed(n, x)' <=> Owed(n, x)
  BY OwedKept
<1>3. Missing(n)' = {x \in Done(n)' : Owed(n, x) /\ ~Sampled(n, x)'}
  BY <1>2 DEF Missing
<1>4. \A x \in Missing(n)' : x \in Missing(n) \/ x = at[n]
  BY <1>1, <1>3, SampledAdvance DEF Missing
<1>5. ASSUME \/ ~Owed(n, at[n]) \/ Sampled(n, at[n])
             \/ \E s \in S : s.vdu = VduAt(n) /\ s.metric = MetricAt(n),
             NEW x \in Missing(n)'
      PROVE  x \in Missing(n)
  <2>1. CASE x = at[n]
    BY <1>3, <1>5, <2>1, SampledAdvance
  <2>2. CASE x # at[n]
    BY <1>4, <1>5, <2>2
  <2> QED BY <2>1, <2>2
<1> QED BY <1>4, <1>5

\* A task that stays at its metric is done with what it was.
LEMMA DoneGo ==
  ASSUME NEW n \in Vnf, at'[n] = at[n], metrics'[n] = metrics[n],
         pc[n] = "returned" <=> pc'[n] = "returned", UNCHANGED <<account, cycle, copy>>
  PROVE  /\ Done(n)' = Done(n) /\ Missing(n)' = Missing(n)
         /\ VduAt(n)' = VduAt(n) /\ MetricAt(n)' = MetricAt(n)
<1>1. Done(n)' = Done(n)
  BY DEF Done, Work
<1>2. \A x : Owed(n, x)' <=> Owed(n, x)
  BY OwedKept
<1>3. \A x : Sampled(n, x)' <=> Sampled(n, x)
  BY DEF Sampled, VduOf, MetricOf
<1>4. Missing(n)' = {x \in Done(n)' : Owed(n, x)' /\ ~Sampled(n, x)'}
  BY DEF Missing
<1> QED BY <1>1, <1>2, <1>3, <1>4 DEF Missing, VduAt, VduOf, MetricAt

\* What is said of a task stands where nothing of it changes.
LEMMA TaskKept ==
  ASSUME NEW n \in Vnf, AtWork(n), SamplesOf(n), table => table', Settled' => Settled,
         UNCHANGED <<account, cycle, copy, faults, hadTable>>,
         at'[n] = at[n], metrics'[n] = metrics[n], pc'[n] = pc[n], value'[n] = value[n],
         backend'[n] = backend[n]
  PROVE  AtWork(n)' /\ SamplesOf(n)' /\ (Whole(n)' <=> Whole(n))
<1>1. /\ Done(n)' = Done(n) /\ Missing(n)' = Missing(n)
      /\ VduAt(n)' = VduAt(n) /\ MetricAt(n)' = MetricAt(n)
  BY DoneGo
<1>2. Whole(n)' <=> Whole(n)
  BY <1>1 DEF Whole
<1>3. Backend' = Backend /\ Names(Backend)' = Names(Backend)
  BY DEF Backend, Names
<1>4. \A x : (Tabled(n, x)' <=> Tabled(n, x)) /\ MetricOf(n, x)' = MetricOf(n, x)
  BY OwedKept
<1>5. (Fine(n)' <=> Fine(n)) /\ Work(n)' = Work(n)
  BY <1>3, <1>4 DEF Fine, Work
<1>6. Tabled(n, at[n])' <=> Tabled(n, at[n])
  BY <1>4, at'[n] = at[n] DEF Tabled, MetricOf, VduOf
<1>7. AtWork(n)'
  BY <1>1, <1>3, <1>5, <1>6 DEF AtWork
<1>8. SamplesOf(n)'
  BY <1>1, <1>2, <1>3, <1>4, <1>5 DEF SamplesOf
<1> QED BY <1>2, <1>7, <1>8

LEMMA FirstRowsKept ==
  ASSUME NEW n \in Vnf, FirstRows(n), UNCHANGED <<account, cycle>>,
         pc[n] # "idle" \/ pc'[n] = "idle", metrics[n] \subseteq metrics'[n],
         \A x \in Work(n) : rows'[VduOf(n, x)] = rows[VduOf(n, x)]
  PROVE  FirstRows(n)'
<1>1. \A x : Sampled(n, x) => Sampled(n, x)'
  BY DEF Sampled, VduOf, MetricOf
<1>2. Work(n)' = Work(n) /\ \A x : VduOf(n, x)' = VduOf(n, x) /\ MetricOf(n, x)' = MetricOf(n, x)
  BY DEF Work, VduOf, MetricOf
<1> QED BY <1>1, <1>2 DEF FirstRows

\* A step of one task.
LEMMA OneTask ==
  ASSUME SampledInv, untroubled, Shape, NEW n \in Vnf, pc[n] \in Working, pc'[n] # "idle",
         UNCHANGED <<account, record, copy, cycle, backend, faults, hadTable>>, table => table',
         \A m \in Vnf \ {n} : /\ at'[m] = at[m] /\ metrics'[m] = metrics[m]
                              /\ pc'[m] = pc[m] /\ value'[m] = value[m],
         \A v \in Vdu \ {VduAt(n)} : rows'[v] = rows[v],
         AtWork(n)', SamplesOf(n)', FirstRows(n)', ~table /\ table' => Whole(n)',
         table' /\ Whole(n) => Whole(n)'
  PROVE  SampledInv'
<1>1. /\ Records /\ \A m \in Vnf : AtWork(m) /\ SamplesOf(m) /\ FirstRows(m)
      /\ table => \E m \in Vnf : Whole(m)
      /\ hadTable => table
  BY DEF SampledInv
<1>2. Settled' => Settled
  BY DEF Settled, Working
<1>3. \A m \in Vnf \ {n} : AtWork(m)' /\ SamplesOf(m)' /\ (Whole(m)' <=> Whole(m))
  BY <1>1, <1>2, TaskKept
<1>4. ASSUME NEW m \in Vnf \ {n} PROVE FirstRows(m)'
  <2>1. VduAt(n) \in ToSet(VdursOf[n])
    BY PlaceInside DEF Shape, VduAt
  <2>2. \A x \in Work(m) : VduOf(m, x) \in Vdu \ {VduAt(n)}
    BY <2>1, PlaceInside, VdusOwn
  <2> QED BY <1>1, <2>2, FirstRowsKept
<1>5. Records'
  BY <1>1 DEF Records
<1>6. table' => \E m \in Vnf : Whole(m)'
  BY <1>1, <1>3
<1>7. cycle # 0
  BY <1>1 DEF AtWork, Working
<1> QED BY <1>1, <1>3, <1>4, <1>5, <1>6, <1>7 DEF SampledInv, NoRowsYet

\* What is asked of a task, and what makes it raise, changes with the copy only.
LEMMA AskedKept ==
  ASSUME NEW n \in Vnf, UNCHANGED <<account, cycle, copy>>
  PROVE  /\ Fine(n)' <=> Fine(n)
         /\ Backend' = Backend /\ Names(Backend)' = Names(Backend) /\ Work(n)' = Work(n)
         /\ \A x : (Tabled(n, x)' <=> Tabled(n, x)) /\ MetricOf(n, x)' = MetricOf(n, x)
<1>1. Backend' = Backend /\ Names(Backend)' = Names(Backend)
  BY DEF Backend, Names
<1>2. \A x : (Tabled(n, x)' <=> Tabled(n, x)) /\ MetricOf(n, x)' = MetricOf(n, x)
  BY OwedKept
<1>3. Work(n)' = Work(n)
  BY DEF Work
<1> QED BY <1>1, <1>2, <1>3 DEF Fine

\* A task goes on: with a sample, or where it owes none, or late to a table.
LEMMA SampledOn ==
  ASSUME SampledInv, untroubled, Shape, NEW n \in Vnf, NEW S, Advance(n, S),
         pc[n] \in Working, value = [m \in Vnf |-> value[m]],
         UNCHANGED <<account, record, copy, cycle, backend, faults, hadTable>>, table' <=> table,
         Tabled(n, at[n]) => table, faults = 0 => MetricAt(n) \in Names(Backend),
         \A v \in Vdu \ {VduAt(n)} : rows'[v] = rows[v],
         \/ rows'[VduAt(n)] = rows[VduAt(n)]
         \/ MetricAt(n) = "packets" /\ \E s \in S : s.vdu = VduAt(n) /\ s.metric = "packets",
         \/ ~Owed(n, at[n]) \/ Sampled(n, at[n])
         \/ \E s \in S : s.vdu = VduAt(n) /\ s.metric = MetricAt(n)
         \/ pc[n] = "create" /\ table
  PROVE  SampledInv'
<1>1. AtWork(n) /\ SamplesOf(n) /\ FirstRows(n)
  BY DEF SampledInv
<1>2. /\ Done(n)' = Done(n) \cup {at[n]} /\ at[n] \in Work(n)
      /\ Missing(n)' \subseteq Missing(n) \cup {at[n]}
      /\ Missing(n)' \subseteq Missing(n) \/ (pc[n] = "create" /\ table)
  <2>1. Done(n)' = Done(n) \cup {at[n]} /\ at[n] \in Work(n)
    BY DoneAdvance
  <2>2. /\ Missing(n)' \subseteq Missing(n) \cup {at[n]}
        /\ (\/ ~Owed(n, at[n]) \/ Sampled(n, at[n])
            \/ \E s \in S : s.vdu = VduAt(n) /\ s.metric = MetricAt(n)) =>
             Missing(n)' \subseteq Missing(n)
    BY MissingAdvance
  <2> QED BY <2>1, <2>2
<1>3. /\ pc'[n] \in {"find", "returned"} /\ metrics'[n] = metrics[n] \cup S
      /\ \A m \in Vnf \ {n} : /\ at'[m] = at[m] /\ metrics'[m] = metrics[m]
                              /\ pc'[m] = pc[m] /\ value'[m] = value[m]
  BY GoOnRange DEF Advance, Shape
<1>4. /\ Fine(n)' <=> Fine(n)
      /\ Backend' = Backend /\ Names(Backend)' = Names(Backend) /\ Work(n)' = Work(n)
      /\ \A x : (Tabled(n, x)' <=> Tabled(n, x)) /\ MetricOf(n, x)' = MetricOf(n, x)
  BY AskedKept
<1>5. Settled' => Settled
  <2>1. Settled' => cycle > 1
    BY <1>3 DEF Settled
  <2> QED BY <2>1 DEF Settled
<1>6. faults = 0 => MetricOf(n, at[n]) \in Names(Backend)
  BY DEF MetricOf, MetricAt, VduAt
<1>7. AtWork(n)'
  BY <1>1, <1>3, <1>4 DEF AtWork, AtTable, Working
<1>8. Missing(n) # {} => pc[n] # "create"
  BY <1>1 DEF SamplesOf
<1>9. Whole(n) => Whole(n)'
  BY <1>2, <1>3 DEF Whole
<1>10. SamplesOf(n)'
  <2>1. faults' = 0 => \A x \in Done(n)' : MetricOf(n, x)' \in Names(Backend)'
    BY <1>1, <1>2, <1>4, <1>6 DEF SamplesOf
  <2>2. (\E x \in Done(n)' : Tabled(n, x)') => table'
    BY <1>1, <1>2, <1>4 DEF SamplesOf
  <2>3. \A x \in Missing(n)', y \in Missing(n)' : x = y
    BY <1>1, <1>2, <1>8 DEF SamplesOf
  <2>4. (~table' \/ pc'[n] = "create") => Missing(n)' = {}
    BY <1>1, <1>2, <1>3 DEF SamplesOf
  <2>5. hadTable' => Whole(n)'
    BY <1>1, <1>9 DEF SamplesOf
  <2>6. faults' = 0 /\ Settled' /\ Fine(n)' =>
          Whole(n)' /\ ((\E x \in Work(n)' : Tabled(n, x)') => table')
    BY <1>1, <1>4, <1>5, <1>9 DEF SamplesOf
  <2> QED BY <2>1, <2>2, <2>3, <2>4, <2>5, <2>6 DEF SamplesOf
<1>11. FirstRows(n)'
  <2> SUFFICES ASSUME account = "prometheus", cycle = 1, NEW x \in Work(n),
                      MetricOf(n, x) = "packets", rows'[VduOf(n, x)] # {}
               PROVE  Sampled(n, x)'
    <3>1. \A x : VduOf(n, x)' = VduOf(n, x)
      BY DEF VduOf
    <3> QED BY <1>4, <3>1 DEF FirstRows
  <2>1. VduOf(n, x) \in Vdu
    BY PlaceInside, VdusOwn DEF Shape
  <2>2. CASE rows'[VduOf(n, x)] = rows[VduOf(n, x)]
    <3>1. Sampled(n, x)
      BY <1>1, <2>2 DEF FirstRows, Working
    <3> QED BY <3>1, SampledAdvance
  <2>3. CASE rows'[VduOf(n, x)] # rows[VduOf(n, x)]
    <3>1. VduOf(n, x) = VduAt(n)
      BY <2>1, <2>3
    <3>2. \E s \in S : s.vdu = VduAt(n) /\ s.metric = "packets"
      BY <2>3, <3>1
    <3>3. Sampled(n, x)' <=> \E s \in metrics'[n] : s.vdu = VduOf(n, x) /\ s.metric = MetricOf(n, x)
      BY DEF Sampled, VduOf, MetricOf
    <3> QED BY <1>3, <3>1, <3>2, <3>3
  <2> QED BY <2>2, <2>3
<1> QED BY <1>3, <1>7, <1>9, <1>10, <1>11, OneTask DEF Working

\* A task stays at its metric, on its way to the table or to its end.
LEMMA SampledGo ==
  ASSUME SampledInv, untroubled, Shape, NEW n \in Vnf, pc[n] \in Working,
         NEW where \in (Working \ {"find"}) \cup {"raised"}, Go(n, where),
         UNCHANGED <<account, record, copy, cycle, backend, at, metrics, rows, faults, hadTable>>,
         table => table', \A m \in Vnf \ {n} : value'[m] = value[m],
         where \in Working => MetricAt(n) \in Names(Backend) /\ copy[VduAt(n)] # "nameless",
         where \in AtTable =>
           Tabled(n, at[n]) /\ (value'[n].form = "number" \/ account = "prometheus"),
         where = "raised" /\ faults = 0 => ~Fine(n),
         where = "create" => ~table'
  PROVE  SampledInv'
<1>1. AtWork(n) /\ SamplesOf(n) /\ FirstRows(n) /\ at[n] \in Work(n) /\ (hadTable => table)
  BY DEF SampledInv, Shape
<1>2. pc'[n] = where /\ \A m \in Vnf \ {n} : pc'[m] = pc[m]
  BY DEF Go, Shape
<1>3. /\ Done(n)' = Done(n) /\ Missing(n)' = Missing(n)
      /\ VduAt(n)' = VduAt(n) /\ MetricAt(n)' = MetricAt(n)
  BY <1>2, DoneGo DEF Working
<1>4. /\ Fine(n)' <=> Fine(n)
      /\ Backend' = Backend /\ Names(Backend)' = Names(Backend) /\ Work(n)' = Work(n)
      /\ \A x : (Tabled(n, x)' <=> Tabled(n, x)) /\ MetricOf(n, x)' = MetricOf(n, x)
  BY AskedKept
<1>5. Settled' => Settled
  <2>1. Settled' => cycle > 1
    BY <1>2 DEF Settled, Working
  <2> QED BY <2>1 DEF Settled
<1>6. AtWork(n)'
  <2>1. MetricAt(n)' = MetricAt(n) /\ VduAt(n)' = VduAt(n) /\ at'[n] = at[n]
    BY <1>3
  <2>2. where \in AtTable => Tabled(n, at[n])'
    BY <1>4 DEF Tabled, MetricOf, VduOf
  <2> QED BY <1>1, <1>2, <1>4, <2>1, <2>2 DEF AtWork, Working, AtTable
<1>7. table' /\ Whole(n) => Whole(n)'
  BY <1>2, <1>3 DEF Whole
<1>8. SamplesOf(n)'
  <2>1. (~table' \/ where = "create") => Missing(n) = {}
    BY <1>1 DEF SamplesOf
  <2>2. faults = 0 /\ Settled /\ Fine(n) => where # "create"
    BY <1>1 DEF SamplesOf, AtTable
  <2>3. faults' = 0 /\ Settled' /\ Fine(n)' =>
          Whole(n)' /\ ((\E x \in Work(n)' : Tabled(n, x)') => table')
    BY <1>1, <1>2, <1>3, <1>4, <1>5, <2>2 DEF SamplesOf, Whole
  <2>4. hadTable' => Whole(n)'
    BY <1>1, <1>7 DEF SamplesOf
  <2>5. faults' = 0 => \A x \in Done(n)' : MetricOf(n, x)' \in Names(Backend)'
    BY <1>1, <1>3, <1>4 DEF SamplesOf
  <2> QED BY <1>1, <1>2, <1>3, <1>4, <2>1, <2>3, <2>4, <2>5 DEF SamplesOf
<1>9. ~table /\ table' => Whole(n)'
  BY <1>1, <1>2, <1>3 DEF SamplesOf, Whole
<1>10. FirstRows(n)'
  BY <1>1, <1>2, FirstRowsKept DEF Working
<1> QED BY <1>2, <1>6, <1>7, <1>8, <1>9, <1>10, OneTask DEF Working

LEMMA SampledFind ==
  ASSUME TypeInv, SampledInv, untroubled, NEW n \in Vnf, FindResource(n)
  PROVE  SampledInv'
<1>1. /\ UNCHANGED <<account, record, copy, cycle, backend, table, rows, faults, hadTable>>
      /\ pc[n] \in Working /\ pc[n] = "find"
      /\ Shape /\ at[n] \in Work(n) /\ VduAt(n) \in Vdu
  BY PlaceTypes DEF FindResource, Working, TypeInv, RawInv, Shape, store, history
<1>2. Records /\ AtWork(n)
  BY DEF SampledInv
<1>3. backend[n] = Backend /\ record[VduAt(n)] # "deleted" /\ copy[VduAt(n)] # "deleted"
  BY <1>1, <1>2 DEF AtWork, Records
<1>4. faults = 0 => ~LookUpRaises(n, VduAt(n)) /\ copy[VduAt(n)] # "nameless"
  <2>1. VduAt(n) \in ToSet(VdursOf[n])
    BY <1>1, PlaceInside DEF VduAt
  <2>2. faults = 0 => \A u \in Vdu : record[u] = "complete"
    BY <1>2 DEF Records
  <2>3. Before(n, VduAt(n)) \subseteq Vdu
    BY DEF Before
  <2>4. faults = 0 => copy[VduAt(n)] = "complete"
    BY <1>1, <1>2 DEF Records
  <2> QED BY <1>1, <2>1, <2>2, <2>3, <2>4 DEF LookUpRaises
<1>5. MetricAt(n) \notin Names(Backend) => ~Fine(n)
  BY <1>1 DEF Fine, MetricOf, MetricAt, VduAt
<1>6. CASE copy[VduAt(n)] = "nameless"
  <2>1. Advance(n, {})
    BY <1>6 DEF FindResource
  <2>2. ~Owed(n, at[n]) /\ ~Tabled(n, at[n])
    BY <1>6 DEF Owed, Tabled, VduAt
  <2>3. faults = 0 => MetricAt(n) \in Names(Backend)
    BY <1>4, <1>6
  <2>4. value = [m \in Vnf |-> value[m]]
    BY DEF TypeInv, TaskTypes
  <2> QED BY <1>1, <2>1, <2>2, <2>3, <2>4, SampledOn
<1>7. CASE copy[VduAt(n)] # "nameless"
  <2>1. /\ UNCHANGED <<at, value, metrics>>
        /\ \/ Go(n, "raised") /\ (MetricAt(n) \notin Names(Backend) \/ LookUpRaises(n, VduAt(n)))
           \/ Go(n, "ask") /\ MetricAt(n) \in Names(Backend)
    BY <1>3, <1>7 DEF FindResource
  <2>2. CASE Go(n, "ask") /\ MetricAt(n) \in Names(Backend)
    BY <1>1, <1>7, <2>1, <2>2, SampledGo DEF Working, AtTable
  <2>3. CASE Go(n, "raised") /\ (MetricAt(n) \notin Names(Backend) \/ LookUpRaises(n, VduAt(n)))
    <3>1. faults = 0 => ~Fine(n)
      BY <1>4, <1>5, <2>3
    <3> QED BY <1>1, <2>1, <2>3, <3>1, SampledGo DEF Working, AtTable
  <2> QED BY <2>1, <2>2, <2>3
<1> QED BY <1>6, <1>7

\* What backends answer: no value only where none is owed and none goes through the
\* table, and packets only of a VDU that goes through it.
LEMMA AnswersGiven ==
  ASSUME TypeInv, NEW n \in Vnf, pc[n] \in Working, backend[n] = Backend,
         copy[VduAt(n)] # "nameless"
  PROVE  /\ Answers(n) = {} => ~Given(n, at[n]) /\ ~Tabled(n, at[n])
         /\ \A answer \in Answers(n) :
              /\ answer = None => ~Given(n, at[n]) /\ ~Tabled(n, at[n])
              /\ answer # None /\ MetricAt(n) = "packets" =>
                   Tabled(n, at[n]) /\ (answer.form = "number" \/ account = "prometheus")
<1>1. /\ VduAt(n) = VduOf(n, at[n]) /\ MetricAt(n) = MetricOf(n, at[n])
      /\ MetricAt(n) = ParamsOf[VduOf(n, at[n])][at[n][2]]
      /\ \A k : Number(k) # None /\ Number(k).form = "number"
  BY DEF VduAt, MetricAt, MetricOf, Number, None
<1>2. account \in {"prometheus", "rocky", "older", "ceilometer"}
  BY AccountAssumption DEF TypeInv, WorldTypes
<1>3. CASE account = "prometheus"
  <2>1. Answers(n) = {[form |-> "text", is |-> 0]} /\ [form |-> "text", is |-> 0] # None
    BY <1>3 DEF Answers, Backend, PrometheusAnswers, None
  <2>2. MetricAt(n) = "packets" => Tabled(n, at[n])
    BY <1>1, <1>3 DEF Tabled
  <2> QED BY <1>3, <2>1, <2>2
<1>4. CASE account = "ceilometer"
  <2>1. Answers(n) = IF MetricAt(n) \in {"memory", "cpu"} THEN {Number(0)} ELSE {}
    BY <1>4 DEF Answers, Backend, CeilometerAnswers
  <2>2. ~Tabled(n, at[n]) /\ (MetricAt(n) \notin {"memory", "cpu"} => ~Given(n, at[n]))
    BY <1>1, <1>4 DEF Tabled, Given
  <2>3. MetricAt(n) = "packets" => Answers(n) = {}
    BY <2>1
  <2> QED BY <1>1, <2>1, <2>2, <2>3
<1>5. CASE account \in {"rocky", "older"}
  <2>1. Answers(n) = GnocchiAnswers(n)
    BY <1>5 DEF Answers, Backend
  <2>2. CASE MetricAt(n) \in {"packets", "dropped"} /\ InterfacesOf[VduAt(n)] = {}
    <3>1. Answers(n) = {None}
      BY <2>1, <2>2 DEF GnocchiAnswers
    <3>2. ~Given(n, at[n]) /\ ~Tabled(n, at[n])
      BY <1>1, <1>5, <2>2 DEF Given, Tabled
    <3> QED BY <3>1, <3>2
  <2>3. CASE MetricAt(n) = "packets" /\ InterfacesOf[VduAt(n)] # {}
    <3>1. \A answer \in Answers(n) : \E k : answer = Number(k)
      BY <2>1, <2>3 DEF GnocchiAnswers, Packets
    <3>2. Answers(n) # {}
      BY <2>1, <2>3 DEF GnocchiAnswers
    <3>3. Tabled(n, at[n])
      BY <1>1, <1>5, <2>3 DEF Tabled
    <3> QED BY <1>1, <3>1, <3>2, <3>3
  <2>4. CASE MetricAt(n) = "cpu" /\ account = "older"
    <3>1. Answers(n) = {None}
      BY <2>1, <2>4 DEF GnocchiAnswers
    <3>2. ~Given(n, at[n]) /\ ~Tabled(n, at[n])
      BY <1>1, <1>5, <2>4 DEF Given, Tabled
    <3> QED BY <3>1, <3>2
  <2>5. CASE /\ ~(MetricAt(n) \in {"packets", "dropped"} /\ InterfacesOf[VduAt(n)] = {})
             /\ MetricAt(n) # "packets" /\ ~(MetricAt(n) = "cpu" /\ account = "older")
    <3>1. Answers(n) = {Number(0)}
      BY <2>1, <2>5 DEF GnocchiAnswers
    <3> QED BY <1>1, <2>5, <3>1
  <2> QED BY <2>2, <2>3, <2>4, <2>5
<1> QED BY <1>2, <1>3, <1>4, <1>5

LEMMA SampledAsk ==
  ASSUME TypeInv, SampledInv, untroubled, untroubled', NEW n \in Vnf, Ask(n)
  PROVE  SampledInv'
<1>1. /\ UNCHANGED <<account, record, copy, cycle, backend, table, rows, faults, hadTable>>
      /\ pc[n] = "ask" /\ pc[n] \in Working
      /\ Shape /\ value = [m \in Vnf |-> value[m]]
  BY DEF Ask, TypeInv, RawInv, TaskTypes, store, Working, Strike, Calm
<1>2. backend[n] = Backend /\ MetricAt(n) \in Names(Backend) /\ copy[VduAt(n)] # "nameless"
  BY <1>1 DEF SampledInv, AtWork, Working
<1>3. \/ \E answer \in Answers(n) : Got(n, answer)
      \/ Answers(n) = {} /\ Advance(n, {})
  BY DEF Ask, Strike
<1>4. CASE Answers(n) = {} /\ Advance(n, {})
  <2>1. ~Owed(n, at[n]) /\ ~Tabled(n, at[n])
    BY <1>1, <1>2, <1>4, AnswersGiven DEF Owed
  <2> QED BY <1>1, <1>2, <1>4, <2>1, SampledOn
<1>5. ASSUME NEW answer \in Answers(n), Got(n, answer)
      PROVE  SampledInv'
  <2>1. /\ answer = None => ~Owed(n, at[n]) /\ ~Tabled(n, at[n])
        /\ answer # None /\ MetricAt(n) = "packets" =>
             Tabled(n, at[n]) /\ (answer.form = "number" \/ account = "prometheus")
    BY <1>1, <1>2, <1>5, AnswersGiven DEF Owed
  <2>2. CASE answer # None /\ MetricAt(n) = "packets"
    <3>1. Give(n, answer) /\ Go(n, "select") /\ UNCHANGED <<at, row, metrics>>
      BY <1>5, <2>2 DEF Got
    <3>2. value'[n] = answer /\ \A m \in Vnf \ {n} : value'[m] = value[m]
      BY <1>1, <3>1 DEF Give
    <3> QED BY <1>1, <1>2, <2>1, <2>2, <3>1, <3>2, SampledGo DEF Working, AtTable
  <2>3. CASE answer = None
    <3>1. \E S : Advance(n, S)
      BY <1>5, <2>3 DEF Got
    <3> QED BY <1>1, <1>2, <2>1, <2>3, <3>1, SampledOn
  <2>4. CASE answer # None /\ MetricAt(n) # "packets"
    <3> DEFINE s == [vdu |-> VduAt(n), metric |-> MetricAt(n), kind |-> "value", delta |-> 0]
    <3>1. Advance(n, {s})
      <4>1. {s : x \in {answer} \ {None}} = {s}
        BY <2>4
      <4> QED BY <1>5, <2>4, <4>1 DEF Got
    <3>2. s.vdu = VduAt(n) /\ s.metric = MetricAt(n)
      OBVIOUS
    <3>3. ~Tabled(n, at[n])
      BY <2>4 DEF Tabled, MetricOf, MetricAt, VduAt
    <3> HIDE DEF s
    <3> QED BY <1>1, <1>2, <3>1, <3>2, <3>3, SampledOn
  <2> QED BY <2>2, <2>3, <2>4
<1> QED BY <1>3, <1>4, <1>5

\* A task at the table.
LEMMA SampledTable ==
  ASSUME TypeInv, SampledInv, untroubled, untroubled', NEW n \in Vnf,
         Select(n) \/ Create(n) \/ Insert(n)
  PROVE  SampledInv'
<1>1. /\ UNCHANGED <<account, record, copy, cycle, backend, hadTable>> /\ pc[n] \in AtTable
      /\ Shape /\ value = [m \in Vnf |-> value[m]] /\ RowOf(n) /\ pc[n] \in Working
  BY DEF Select, Create, Insert, AtTable, Working, TypeInv, RawInv, TaskTypes, store, history
<1>2. UNCHANGED faults
  BY DEF Select, Create, Insert, Strike, Calm
<1>3. /\ MetricAt(n) \in Names(Backend) /\ Tabled(n, at[n]) /\ copy[VduAt(n)] # "nameless"
      /\ value[n].form = "number" \/ account = "prometheus"
      /\ MetricAt(n) = "packets"
  <2>1. AtWork(n) /\ pc[n] \in Working \ {"find"}
    BY <1>1 DEF SampledInv, AtTable
  <2> QED BY <1>1, <2>1 DEF AtWork, Tabled, MetricOf, MetricAt, VduAt
<1>4. CASE Select(n)
  <2>1. UNCHANGED <<table, rows, at, value, metrics>>
    BY <1>4 DEF Select, store
  <2>2. Go(n, "insert") \/ (Go(n, "create") /\ ~table)
    BY <1>4 DEF Select, Strike
  <2> QED BY <1>1, <1>2, <1>3, <2>1, <2>2, SampledGo DEF Working, AtTable
<1>5. CASE Create(n)
  <2>1. pc[n] = "create" /\ table' /\ UNCHANGED rows
    BY <1>5 DEF Create
  <2>2. CASE table
    <3>1. Advance(n, {})
      BY <1>5, <2>2 DEF Create
    <3> QED BY <1>1, <1>2, <1>3, <2>1, <2>2, <3>1, SampledOn
  <2>3. CASE ~table
    <3>1. Go(n, "insert") /\ UNCHANGED <<at, value, metrics>>
      BY <1>5, <2>3 DEF Create
    <3> QED BY <1>1, <1>2, <1>3, <2>1, <2>3, <3>1, SampledGo DEF Working, AtTable
  <2> QED BY <2>2, <2>3
<1>6. CASE Insert(n)
  <2> DEFINE sample(kind, d) ==
        [vdu |-> VduAt(n), metric |-> "packets", kind |-> kind, delta |-> d]
  <2>1. /\ UNCHANGED table /\ table /\ pc[n] = "insert"
        /\ \A v \in Vdu \ {VduAt(n)} : rows'[v] = rows[v]
    <3>1. UNCHANGED table /\ table /\ pc[n] = "insert"
      BY <1>1, <1>6 DEF Insert, RowOf
    <3>2. UNCHANGED rows \/ \E k : SqlInsert(VduAt(n), k)
      BY <1>6 DEF Insert
    <3>3. \A v \in Vdu \ {VduAt(n)} : rows'[v] = rows[v]
      BY <1>1, <3>2 DEF SqlInsert, Shape
    <3> QED BY <3>1, <3>3
  <2>2. \/ \E kind, d : Advance(n, {sample(kind, d)})
        \/ /\ UNCHANGED rows /\ Advance(n, {})
           /\ value[n].form # "number" /\ row[n] # {}
    BY <1>6 DEF Insert, Strike
  <2>3. CASE \E kind, d : Advance(n, {sample(kind, d)})
    <3>1. PICK kind, d : Advance(n, {sample(kind, d)})
      BY <2>3
    <3>2. \E s \in {sample(kind, d)} : s.vdu = VduAt(n) /\ s.metric = "packets"
      OBVIOUS
    <3> HIDE DEF sample
    <3> QED BY <1>1, <1>2, <1>3, <2>1, <3>1, <3>2, SampledOn
  <2>4. CASE UNCHANGED rows /\ Advance(n, {}) /\ value[n].form # "number" /\ row[n] # {}
    <3>1. account = "prometheus" /\ rows[VduAt(n)] # {}
      BY <1>1, <1>3, <2>1, <2>4 DEF RowOf
    <3>2. ~Owed(n, at[n]) \/ Sampled(n, at[n])
      <4>1. CASE cycle = 1
        <5>1. FirstRows(n) /\ at[n] \in Work(n)
          BY <1>1 DEF SampledInv, Shape
        <5>2. MetricOf(n, at[n]) = "packets" /\ VduOf(n, at[n]) = VduAt(n)
          BY <1>3 DEF MetricOf, MetricAt, VduAt
        <5> QED BY <1>1, <3>1, <4>1, <5>1, <5>2 DEF FirstRows, Working
      <4>2. CASE cycle # 1
        BY <1>3, <3>1, <4>2 DEF Owed, Given, MetricAt, VduAt
      <4> QED BY <4>1, <4>2
    <3> QED BY <1>1, <1>2, <1>3, <2>1, <2>4, <3>2, SampledOn
  <2> QED BY <2>2, <2>3, <2>4
<1> QED BY <1>4, <1>5, <1>6

\* A task that is at no place is done with none.
LEMMA NothingDone ==
  ASSUME NEW n \in Vnf, at[n] = Outside, pc[n] # "returned"
  PROVE  Done(n) = {} /\ Missing(n) = {}
<1>1. \A x \in Work(n) : x[1] \in Nat /\ x[1] > 0
  BY PlacePair
<1>2. Done(n) = {}
  BY <1>1 DEF Done, Precedes, Outside
<1> QED BY <1>2 DEF Missing

LEMMA SampledBegin ==
  ASSUME TypeInv, SampledInv, untroubled, untroubled', Begin
  PROVE  SampledInv'
<1>1. /\ Records /\ NoRowsYet /\ (\A n \in Vnf : AtWork(n) /\ SamplesOf(n))
      /\ table => \E n \in Vnf : Whole(n)
      /\ \A n \in Vnf : pc[n] = "idle"
      /\ UNCHANGED <<account, record, table, rows, value, metrics, faults>> /\ copy' = record
      /\ hadTable' = table
      /\ cycle \in Nat /\ cycle' = cycle + 1
  BY BoundsAssumption DEF SampledInv, Begin, store, TypeInv, WorldTypes, HistoryTypes, Calm,
                          Strike
<1>2. Records' /\ NoRowsYet'
  BY <1>1 DEF Records, NoRowsYet
<1>3. \A n \in Vnf : /\ backend'[n] = Backend'
                     /\ at'[n] = Following(n, Outside) /\ pc'[n] = GoOn(Following(n, Outside))
  <2>1. backend' = [n \in Vnf |-> Backend] /\ pc' = [n \in Vnf |-> GoOn(Following(n, Outside))]
    BY DEF Begin, Strike
  <2>2. Backend' = Backend
    BY <1>1 DEF Backend
  <2> QED BY <2>1, <2>2 DEF Begin
<1>4. ASSUME NEW n \in Vnf PROVE Done(n)' = {} /\ Missing(n)' = {}
  <2>1. \A x \in Work(n) : x # Outside /\ ~Precedes(x, Outside)
    <3>1. \A x \in Work(n) : x[1] \in Nat /\ x[1] > 0
      BY PlacePair
    <3> QED BY <3>1 DEF Precedes, Outside
  <2>2. CASE Following(n, Outside) = Outside
    <3>1. Work(n) = {}
      BY <2>1, <2>2, FollowingNext
    <3> QED BY <3>1 DEF Done, Missing, Work
  <2>3. CASE Following(n, Outside) # Outside
    <3>1. \A z \in Work(n) : ~Precedes(z, Following(n, Outside))
      BY <2>1, <2>3, FollowingNext
    <3>2. Done(n)' = {}
      BY <1>3, <2>3, <3>1 DEF Done, GoOn, Work
    <3> QED BY <3>2 DEF Missing
  <2> QED BY <2>2, <2>3
<1>5. ASSUME NEW n \in Vnf PROVE AtWork(n)'
  BY <1>1, <1>3, GoOnRange DEF AtWork, Working, AtTable
<1>6. \A n \in Vnf : Whole(n)'
  BY <1>3, <1>4, GoOnRange DEF Whole
<1>7. ASSUME NEW n \in Vnf PROVE SamplesOf(n)'
  <2>1. Settled' => cycle > 0
    BY <1>1, <1>3, GoOnRange DEF Settled
  <2>2. Settled' => Settled
    BY <1>1, <2>1 DEF Settled
  <2>3. faults = 0 => copy' = copy
    BY <1>1 DEF Records, TypeInv, WorldTypes
  <2>4. faults = 0 => /\ Fine(n)' <=> Fine(n)
                      /\ Work(n)' = Work(n) /\ \A x : Tabled(n, x)' <=> Tabled(n, x)
    <3>1. Names(Backend)' = Names(Backend)
      BY <1>1 DEF Names, Backend
    <3> QED BY <1>1, <2>3, <3>1 DEF Fine, Tabled, MetricOf, VduOf, Work
  <2>5. faults' = 0 /\ Settled' /\ Fine(n)' =>
          Whole(n)' /\ ((\E x \in Work(n)' : Tabled(n, x)') => table')
    BY <1>1, <1>6, <2>2, <2>4 DEF SamplesOf
  <2> QED BY <1>4, <1>6, <2>5 DEF SamplesOf
<1>8. ASSUME NEW n \in Vnf PROVE FirstRows(n)'
  <2>1. cycle' = 1 => \A v \in Vdu : rows'[v] = {}
    BY <1>1 DEF NoRowsYet
  <2>2. \A x \in Work(n)' : VduOf(n, x)' \in Vdu
    <3>1. \A x \in Work(n) : VduOf(n, x) \in Vdu
      BY PlaceInside, VdusOwn
    <3> QED BY <3>1 DEF Work, VduOf
  <2> QED BY <2>1, <2>2 DEF FirstRows
<1> QED BY <1>1, <1>2, <1>5, <1>6, <1>7, <1>8 DEF SampledInv

\* A cycle that ends with a task that may come to its end leaves a table for it.
LEMMA SampledEnd ==
  ASSUME TypeInv, SampledInv, untroubled, EndCycle
  PROVE  SampledInv'
<1>1. /\ Records /\ NoRowsYet /\ (\A n \in Vnf : AtWork(n) /\ SamplesOf(n))
      /\ (table => \E n \in Vnf : Whole(n)) /\ (hadTable => table)
      /\ \A n \in Vnf : pc[n] \in {"returned", "raised", "killed"}
      /\ UNCHANGED <<account, record, table, rows, copy, cycle, faults, hadTable>> /\ Forget
  BY DEF SampledInv, EndCycle, store
<1>2. Records' /\ NoRowsYet'
  BY <1>1 DEF Records, NoRowsYet
<1>3. \A n \in Vnf : pc'[n] = "idle" /\ at'[n] = Outside /\ metrics'[n] = {}
  BY <1>1 DEF Forget
<1>4. ASSUME NEW n \in Vnf PROVE Done(n)' = {} /\ Missing(n)' = {}
  <2>1. \A x \in Work(n) : x[1] \in Nat /\ x[1] > 0
    BY PlacePair
  <2>2. Done(n)' = {}
    BY <1>3, <2>1 DEF Done, Precedes, Outside, Work
  <2> QED BY <2>2 DEF Missing
<1>5. ASSUME NEW n \in Vnf PROVE AtWork(n)' /\ Whole(n)' /\ FirstRows(n)'
  BY <1>3, <1>4 DEF AtWork, Working, AtTable, Whole, FirstRows
<1>6. ASSUME NEW n \in Vnf PROVE SamplesOf(n)'
  <2>1. /\ Fine(n)' <=> Fine(n)
        /\ \A x : Tabled(n, x)' <=> Tabled(n, x)
        /\ Work(n)' = Work(n)
    BY <1>1, AskedKept
  <2>2. faults = 0 /\ Fine(n) => pc[n] = "returned"
    BY <1>1 DEF AtWork
  <2>3. faults = 0 /\ Fine(n) => ((\E x \in Work(n) : Tabled(n, x)) => table)
    BY <1>1, <2>2 DEF SamplesOf, Done
  <2>4. faults' = 0 /\ Settled' /\ Fine(n)' =>
          Whole(n)' /\ ((\E x \in Work(n)' : Tabled(n, x)') => table')
    BY <1>1, <1>5, <2>1, <2>3
  <2> QED BY <1>4, <1>5, <2>4 DEF SamplesOf
<1> QED BY <1>1, <1>2, <1>5, <1>6 DEF SampledInv

\* OSM, the VIM and time leave the tasks as they are.
LEMMA SampledWorld ==
  ASSUME TypeInv, SampledInv, untroubled, untroubled',
         \/ UNCHANGED vars
         \/ \E v \in Vdu : Complete(v) \/ Delete(v) \/ Restart(v)
         \/ \E V \in SUBSET Busy : Tick(V)
         \/ SetBack
  PROVE  SampledInv'
<1>1. /\ Records /\ NoRowsYet
      /\ \A n \in Vnf : AtWork(n) /\ SamplesOf(n) /\ FirstRows(n)
      /\ (table => \E n \in Vnf : Whole(n)) /\ (hadTable => table)
  BY DEF SampledInv
<1>2. \/ UNCHANGED vars
      \/ \E v \in Vdu : Complete(v)
      \/ \E V \in SUBSET Busy : Tick(V)
  BY DEF Delete, Restart, SetBack, Strike
<1>3. /\ UNCHANGED <<account, copy, cycle, table, rows, at, metrics, pc, value, backend>>
      /\ UNCHANGED <<faults, hadTable>>
  BY <1>2 DEF Tick, Complete, Calm, vars, task, store, history
<1>4. Settled' => Settled
  BY <1>3 DEF Settled
<1>5. \A n \in Vnf : AtWork(n)' /\ SamplesOf(n)' /\ (Whole(n)' <=> Whole(n))
  BY <1>1, <1>3, <1>4, TaskKept
<1>6. \A n \in Vnf : FirstRows(n)'
  BY <1>1, <1>3, FirstRowsKept
<1>7. Records'
  <2>1. CASE UNCHANGED record
    BY <1>1, <1>3, <2>1 DEF Records
  <2>2. ASSUME NEW v \in Vdu, Complete(v) PROVE Records'
    <3>1. /\ record[v] # "complete" /\ record' = [u \in Vdu |-> record'[u]]
          /\ record'[v] # "deleted" /\ \A u \in Vdu \ {v} : record'[u] = record[u]
      BY <2>2 DEF Complete, TypeInv, WorldTypes
    <3> QED BY <1>1, <1>3, <3>1 DEF Records
  <2> QED BY <1>2, <2>1, <2>2 DEF Tick, vars
<1>8. NoRowsYet'
  BY <1>1, <1>3 DEF NoRowsYet
<1> QED BY <1>1, <1>3, <1>5, <1>6, <1>7, <1>8 DEF SampledInv

LEMMA SampledStart == Init => SampledInv
<1> SUFFICES ASSUME Init
             PROVE  /\ Records /\ NoRowsYet
                    /\ \A n \in Vnf : AtWork(n) /\ SamplesOf(n) /\ FirstRows(n)
                    /\ ~table /\ ~hadTable
  BY DEF SampledInv
<1>1. Records
  <2> DEFINE open == {v \in Vdu : record[v] # "complete"}
  <2>1. copy = record /\ record \in [Vdu -> {"nameless", "named", "complete"}]
        /\ faults = Cardinality(open)
    BY DEF Init
  <2>2. IsFiniteSet(open)
    BY FiniteAssumption, FS_Subset
  <2>3. Cardinality(open) = 0 => open = {}
    <3> HIDE DEF open
    <3> QED BY <2>2, FS_EmptySet
  <2> QED BY <2>1, <2>3 DEF Records
<1>2. ASSUME NEW n \in Vnf PROVE AtWork(n) /\ SamplesOf(n) /\ FirstRows(n)
  <2>1. /\ pc[n] = "idle" /\ at[n] = Outside /\ metrics[n] = {} /\ cycle = 0
        /\ ~table /\ ~hadTable
    BY DEF Init
  <2>2. Done(n) = {} /\ Missing(n) = {}
    BY <2>1, NothingDone
  <2> QED BY <2>1, <2>2 DEF AtWork, SamplesOf, FirstRows, Settled, Working, AtTable
<1>3. NoRowsYet /\ ~table /\ ~hadTable
  BY DEF Init, NoRowsYet
<1> QED BY <1>1, <1>2, <1>3

LEMMA SampledStep == TypeInv /\ SampledInv /\ [Next]_vars => SampledInv'
<1> SUFFICES ASSUME TypeInv, SampledInv, [Next]_vars, untroubled' PROVE SampledInv'
  BY DEF SampledInv
<1>1. untroubled
  BY DEF Next, vars, history, Calm, Strike, Complete, Delete, Restart, Tick, SetBack,
         Begin, FindResource, Ask, Select, Create, Insert, Deadline, EndCycle, Crash
<1>2. ~(Deadline \/ Crash)
  BY DEF Deadline, Crash, Strike
<1>3. CASE \/ UNCHANGED vars
           \/ \E v \in Vdu : Complete(v) \/ Delete(v) \/ Restart(v)
           \/ \E V \in SUBSET Busy : Tick(V)
           \/ SetBack
  BY <1>1, <1>3, SampledWorld
<1>4. CASE Begin
  BY <1>1, <1>4, SampledBegin
<1>5. CASE \E n \in Vnf : FindResource(n) \/ Ask(n) \/ Select(n) \/ Create(n) \/ Insert(n)
  BY <1>1, <1>5, SampledFind, SampledAsk, SampledTable
<1>6. CASE EndCycle
  BY <1>1, <1>6, SampledEnd
<1> QED BY <1>2, <1>3, <1>4, <1>5, <1>6 DEF Next

\* While nothing fails, a cycle that is not abandoned has a sample of everything it owes,
\* with whatever VIM and whichever records are incomplete.  Where the table is not there
\* yet each task may be late to create it and lose one sample, but never all tasks are, and
\* with complete records none after the first cycle (OpenstackCollector.collect,
\* sql_work.py).
THEOREM NoSampleLost == Spec => []AllSampled
<1>1. Spec => []TypeInv
  BY TypeStart, TypeStep, PTL DEF Spec
<1>2. Spec => []SampledInv
  BY <1>1, SampledStart, SampledStep, PTL DEF Spec
<1>3. TypeInv /\ SampledInv => AllSampled
  <2> DEFINE lost(n) == {x \in Work(n) : /\ Owed(n, x)
                                         /\ \A s \in metrics[n] :
                                              s.vdu = VduOf(n, x) => s.metric # ParamsOf[s.vdu][x[2]]}
  <2> SUFFICES ASSUME TypeInv, SampledInv, untroubled, \A n \in Vnf : pc[n] = "returned"
               PROVE  /\ \A n \in Vnf : Cardinality(lost(n)) <= IF hadTable THEN 0 ELSE 1
                      /\ (\E n \in Vnf : lost(n) # {}) =>
                           (\E n \in Vnf : lost(n) = {}) /\ (cycle = 1 \/ faults > 0)
    BY DEF AllSampled
  <2>1. \A n \in Vnf : AtWork(n) /\ SamplesOf(n)
    BY DEF SampledInv
  <2>2. \A n \in Vnf : lost(n) = Missing(n)
    <3>1. ASSUME NEW n \in Vnf, NEW x \in Work(n)
          PROVE  ~Sampled(n, x) <=> \A s \in metrics[n] :
                                      s.vdu = VduOf(n, x) => s.metric # ParamsOf[s.vdu][x[2]]
      BY DEF Sampled, MetricOf
    <3> QED BY <3>1 DEF Missing, Done
  <2> HIDE DEF lost
  <2>3. ASSUME NEW n \in Vnf PROVE Cardinality(Missing(n)) <= IF hadTable THEN 0 ELSE 1
    <3>1. CASE Missing(n) = {}
      <4>1. Cardinality(Missing(n)) = 0
        BY <3>1, FS_EmptySet
      <4> QED BY <4>1
    <3>2. CASE Missing(n) # {}
      <4>1. PICK x : Missing(n) = {x}
        BY <2>1, <3>2 DEF SamplesOf
      <4>2. Cardinality(Missing(n)) = 1
        BY <4>1, FS_Singleton
      <4>3. ~hadTable
        BY <2>1, <3>2 DEF SamplesOf, Whole
      <4> QED BY <4>2, <4>3
    <3> QED BY <3>1, <3>2
  <2>4. (\E n \in Vnf : Missing(n) # {}) => \E n \in Vnf : Missing(n) = {}
    BY <2>1 DEF SampledInv, SamplesOf, Whole
  <2>5. ASSUME NEW n \in Vnf, Missing(n) # {} PROVE cycle = 1 \/ faults > 0
    <3>1. cycle \in Nat /\ cycle > 0 /\ faults \in Nat
      BY <2>1, BoundsAssumption DEF AtWork, TypeInv, WorldTypes, HistoryTypes
    <3>2. faults = 0 => Fine(n)
      BY <2>1 DEF SamplesOf, Fine, Done
    <3>3. faults = 0 => ~Settled
      BY <2>1, <2>5, <3>2 DEF SamplesOf, Whole
    <3> QED BY <3>1, <3>3 DEF Settled
  <2> QED BY <2>2, <2>3, <2>4, <2>5
<1> QED BY <1>1, <1>2, <1>3, PTL

=============================================================================

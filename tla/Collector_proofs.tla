-------------------------- MODULE Collector_proofs --------------------------
(***************************************************************************)
(* Proofs about the collection cycle: type correctness, that no process    *)
(* and no result of a cycle reaches the next, that the VNFs of a cycle     *)
(* find the sessions of their VIMs, and that a cycle exports all or        *)
(* nothing.                                                                *)
(***************************************************************************)
EXTENDS Collector, FiniteSetTheorems, TLAPS

USE FinitenessAssumption, VimTypeAssumption, VimOfAssumption, PoolAssumption,
    FaultsAssumption

LEMMA StrikeType ==
  ASSUME TypeOK, NEW k \in FaultKind, Strike(k)
  PROVE  faults' \in [FaultKind -> Nat]
BY DEF TypeOK, Strike

LEMMA NoEndingType == NoEnding \in [Task -> Ending \cup {"no"}]
BY DEF NoEnding

LEMMA EndingType ==
  ASSUME NEW t \in Task
  PROVE  EndingOf(t) \in Ending
BY DEF EndingOf, VimEnding, VcaEnding, InfraEnding, OfHealth, Ending

\* Any order of a finite set is a sequence of its elements.
LEMMA OrderType ==
  ASSUME NEW S, IsFiniteSet(S), NEW s \in SetToSeqs(S)
  PROVE  s \in Seq(S)
<1>1. Cardinality(S) \in Nat
  BY FS_CardinalityType
<1>2. s \in [1..Cardinality(S) -> S]
  BY DEF SetToSeqs
<1> QED
  BY <1>1, <1>2

LEMMA ConcatType ==
  ASSUME NEW S, NEW s \in Seq(S), NEW t \in Seq(S)
  PROVE  s \o t \in Seq(S)
OBVIOUS

-----------------------------------------------------------------------------
(* Type correctness                                                        *)

\* Every variable keeps its type: of the map, that only sessions of OpenStack
\* VIMs are ever put into it.
THEOREM TypeCorrect == Spec => []TypeOK
<1>1. Init => TypeOK
  BY NoEndingType DEF Init, TypeOK, Lifetime, PC
<1>2. TypeOK /\ [Next]_vars => TypeOK'
  <2> SUFFICES ASSUME TypeOK, [Next]_vars PROVE TypeOK'
    OBVIOUS
  <2>1. ASSUME NEW v \in Vim, Register(v) \/ Deregister(v) PROVE TypeOK'
    BY <2>1 DEF Register, Deregister, TypeOK, Lifetime, listed, pool
  <2>2. ASSUME NEW f \in Vnf, Deploy(f) \/ Undeploy(f) PROVE TypeOK'
    BY <2>2 DEF Deploy, Undeploy, TypeOK, Lifetime, listed, pool
  <2>3. ASSUME NEW t \in Target, Ail(t) \/ Recover(t) PROVE TypeOK'
    <3>1. health' \in [Target -> {"ok", "refused", "raises", "hangs"}]
      BY <2>3 DEF Ail, Recover, TypeOK, Ailment
    <3>2. faults' \in [FaultKind -> Nat]
      BY <2>3, StrikeType DEF Ail, Recover, TypeOK, FaultKind
    <3> QED
      BY <2>3, <3>1, <3>2 DEF Ail, Recover, TypeOK, listed, pool
  <2>4. CASE ListVnfs
    BY <2>4, StrikeType DEF ListVnfs, TypeOK, Deployed, PC, world, pool, FaultKind
  <2>5. CASE ListVims
    BY <2>5, StrikeType DEF ListVims, TypeOK, Registered, PC, world, pool, FaultKind
  <2>6. ASSUME NEW v \in Vim, OpenSession(v) PROVE TypeOK'
    BY <2>6, StrikeType DEF OpenSession, TypeOK, PC, world, pool, FaultKind
  <2>7. CASE StartPool
    BY <2>7 DEF StartPool, TypeOK, PC, world, pool
  <2>8. ASSUME NEW f \in Vnf, SubmitVnf(f) PROVE TypeOK'
    <3>1. << <<"vim", f>>, <<"vca", f>> >> \in Seq(Task)
      BY DEF Task
    <3>2. queue' \in Seq(Task)
      <4>1. queue \in Seq(Task)
        BY DEF TypeOK
      <4>2. queue \o << <<"vim", f>>, <<"vca", f>> >> \in Seq(Task)
        BY <3>1, <4>1, ConcatType
      <4>3. queue' \in {queue, queue \o << <<"vim", f>>, <<"vca", f>> >>}
        BY <2>8 DEF SubmitVnf
      <4> QED
        BY <4>1, <4>2, <4>3
    <3>3. faults' \in [FaultKind -> Nat]
      BY <2>8, StrikeType DEF SubmitVnf, TypeOK, FaultKind
    <3>4. pc' \in PC /\ todo' \subseteq Vim \cup Vnf
      BY <2>8 DEF SubmitVnf, TypeOK, PC
    <3> QED
      BY <2>8, <3>2, <3>3, <3>4 DEF SubmitVnf, TypeOK, world
  <2>9. CASE SubmitInfra
    <3>1. IsFiniteSet({"infra"} \X vims) /\ IsFiniteSet({"sdnc"} \X Sdnc)
      <4>1. IsFiniteSet({"infra"}) /\ IsFiniteSet({"sdnc"})
        BY FS_Singleton
      <4>2. IsFiniteSet(vims)
        BY FS_Subset DEF TypeOK
      <4> QED
        BY <4>1, <4>2, FS_Product
    <3>2. \A s \in SetToSeqs({"infra"} \X vims) : s \in Seq(Task)
      <4>1. {"infra"} \X vims \subseteq Task
        BY DEF TypeOK, Task
      <4> QED
        BY <3>1, <4>1, OrderType
    <3>3. \A s \in SetToSeqs({"sdnc"} \X Sdnc) : s \in Seq(Task)
      <4>1. {"sdnc"} \X Sdnc \subseteq Task
        BY DEF Task
      <4> QED
        BY <3>1, <4>1, OrderType
    <3>4. queue' \in Seq(Task)
      <4>1. PICK infra \in SetToSeqs({"infra"} \X vims), sdnc \in SetToSeqs({"sdnc"} \X Sdnc) :
              queue' = (queue \o infra) \o sdnc \/ queue' = queue \o infra
        BY <2>9 DEF SubmitInfra
      <4>2. infra \in Seq(Task) /\ sdnc \in Seq(Task) /\ queue \in Seq(Task)
        BY <3>2, <3>3 DEF TypeOK
      <4>3. queue \o infra \in Seq(Task)
        BY <4>2, ConcatType
      <4>4. (queue \o infra) \o sdnc \in Seq(Task)
        BY <4>2, <4>3, ConcatType
      <4> QED
        BY <4>1, <4>3, <4>4
    <3>5. faults' \in [FaultKind -> Nat]
      BY <2>9, StrikeType DEF SubmitInfra, TypeOK, FaultKind
    <3>6. pc' \in PC
      BY <2>9 DEF SubmitInfra, PC
    <3> QED
      BY <2>9, <3>4, <3>5, <3>6 DEF SubmitInfra, TypeOK, world, listed
  <2>10. ASSUME NEW t \in Task, Take(t) PROVE TypeOK'
    BY <2>10 DEF Take, TypeOK, PC, world, listed
  <2>11. CASE Complete \/ Deadline
    <3>1. Export
      BY <2>11 DEF Complete, Deadline
    <3>2. faults' \in [FaultKind -> Nat]
      BY <2>11, StrikeType DEF Complete, Deadline, TypeOK, FaultKind
    <3> QED
      BY <3>1, <3>2, NoEndingType DEF Export, TypeOK, PC, world, listed
  <2>12. CASE Unwind
    BY <2>12, NoEndingType DEF Unwind, TypeOK, PC, world, listed
  <2>13. CASE Crash
    BY <2>13, NoEndingType, StrikeType, SMTT(30) DEF Crash, TypeOK, PC, world, FaultKind
  <2>14. CASE StartTask
    <3>1. Head(queue) \in Task /\ Tail(queue) \in Seq(Task)
      BY <2>14 DEF StartTask, Startable, TypeOK
    <3> QED
      BY <2>14, <3>1 DEF StartTask, TypeOK, world, listed
  <2>15. ASSUME NEW t \in Task, EndTask(t) PROVE TypeOK'
    <3>1. ended' \in [Task -> Ending \cup {"no"}]
      BY <2>15, EndingType DEF EndTask, TypeOK, Ending
    <3> QED
      BY <2>15, <3>1, StrikeType DEF EndTask, TypeOK, world, listed, FaultKind
  <2>16. CASE KillWorker
    <3>1. ended' \in [Task -> Ending \cup {"no"}]
      BY <2>16 DEF KillWorker, TypeOK, Ending
    <3> QED
      BY <2>16, <3>1, StrikeType, SMTT(30) DEF KillWorker, TypeOK, PC, world, listed, FaultKind
  <2>17. CASE UNCHANGED vars
    BY <2>17 DEF vars, world, listed, pool, TypeOK
  <2> QED
    BY <2>1, <2>2, <2>3, <2>4, <2>5, <2>6, <2>7, <2>8, <2>9, <2>10, <2>11, <2>12,
       <2>13, <2>14, <2>15, <2>16, <2>17 DEF Next
<1> QED
  BY <1>1, <1>2, PTL DEF Spec

-----------------------------------------------------------------------------
(* One cycle leaves nothing to the next                                    *)

LEMMA NothingOver == (ended = NoEnding) => Over = {}
BY DEF NoEnding, Over

\* No process and no result of one cycle is left when the next begins: the three
\* ways out of a cycle stop the pool, or wait for it, or take all it has.
THEOREM CyclesSeparate == Spec => []NoStragglers
<1>1. Init => NoStragglers
  BY NothingOver DEF Init, NoStragglers
<1>2. NoStragglers /\ [Next]_vars => NoStragglers'
  <2> SUFFICES ASSUME NoStragglers, [Next]_vars PROVE NoStragglers'
    OBVIOUS
  <2>1. CASE /\ UNCHANGED <<queue, running, ended>>
             /\ pc' \in {"start", "list_vims", "sessions"}
                  => pc \in {"start", "list_vims", "sessions"}
    BY <2>1 DEF NoStragglers, Over
  <2>2. CASE Complete \/ Deadline \/ Unwind \/ Crash
    <3>1. queue' = <<>> /\ running' = {} /\ ended' = NoEnding
      BY <2>2 DEF Complete, Deadline, Export, Unwind, Crash
    <3> QED
      BY <3>1 DEF NoStragglers, Over, NoEnding
  <2>3. ASSUME NEW f \in Vnf, SubmitVnf(f) PROVE NoStragglers'
    BY <2>3 DEF SubmitVnf, NoStragglers
  <2>4. CASE SubmitInfra
    BY <2>4 DEF SubmitInfra, NoStragglers
  <2>5. ASSUME NEW t \in Task, Take(t) PROVE NoStragglers'
    BY <2>5 DEF Take, NoStragglers
  <2>6. CASE StartTask
    BY <2>6 DEF StartTask, Startable, NoStragglers
  <2>7. ASSUME NEW t \in Task, EndTask(t) PROVE NoStragglers'
    BY <2>7 DEF EndTask, Endable, NoStragglers
  <2>8. CASE KillWorker
    BY <2>8 DEF KillWorker, NoStragglers
  <2> QED
    BY <2>1, <2>2, <2>3, <2>4, <2>5, <2>6, <2>7, <2>8
       DEF Next, vars, Register, Deregister, Deploy, Undeploy, Ail, Recover, ListVnfs,
           ListVims, OpenSession, StartPool, pool
<1> QED
  BY <1>1, <1>2, PTL DEF Spec

-----------------------------------------------------------------------------
(* The sessions of a cycle                                                 *)

\* A VNF is deployed on a VIM that is registered, and is listed when it is; the
\* VIMs are listed later, so that the list misses only VIMs that are gone again.
SessionsInv ==
  /\ \A f \in Deployed : VimOf[f] \in Registered
  /\ \A f \in vnfrs : vimState[VimOf[f]] # "absent"
  /\ pc \notin {"start", "list_vims"} =>
       \A f \in vnfrs : VimOf[f] \in Registered => VimOf[f] \in vims
  /\ pc = "sessions" => vims \cap Openstack \subseteq sessions \cup todo
  /\ pc \in {"submit", "wait", "unwind"} => vims \cap Openstack \subseteq sessions

\* A VNF on an OpenStack VIM finds the session of its VIM in the map, whatever is
\* registered, deployed and removed while the cycle runs.
THEOREM SessionsFound == Spec => []SessionsInPlace
<1>1. Init => SessionsInv
  BY DEF Init, SessionsInv, Deployed
<1>2. TypeOK /\ SessionsInv /\ [Next]_vars => SessionsInv'
  <2> SUFFICES ASSUME TypeOK, SessionsInv, [Next]_vars PROVE SessionsInv'
    OBVIOUS
  <2> USE DEF SessionsInv, Deployed, Registered, TypeOK
  <2>1. ASSUME NEW v \in Vim, Register(v) PROVE SessionsInv'
    BY <2>1 DEF Register, listed
  <2>2. ASSUME NEW v \in Vim, Deregister(v) PROVE SessionsInv'
    BY <2>2 DEF Deregister, listed
  <2>3. ASSUME NEW f \in Vnf, Deploy(f) PROVE SessionsInv'
    BY <2>3 DEF Deploy, listed
  <2>4. ASSUME NEW f \in Vnf, Undeploy(f) PROVE SessionsInv'
    BY <2>4 DEF Undeploy, listed
  <2>5. ASSUME NEW t \in Target, Ail(t) \/ Recover(t) PROVE SessionsInv'
    BY <2>5 DEF Ail, Recover, listed
  <2>6. CASE ListVnfs
    BY <2>6 DEF ListVnfs, world
  <2>7. CASE ListVims
    BY <2>7 DEF ListVims, world
  <2>8. ASSUME NEW v \in Vim, OpenSession(v) PROVE SessionsInv'
    BY <2>8 DEF OpenSession, world
  <2>9. CASE StartPool
    BY <2>9 DEF StartPool, world
  <2>10. ASSUME NEW f \in Vnf, SubmitVnf(f) PROVE SessionsInv'
    BY <2>10 DEF SubmitVnf, world
  <2>11. CASE SubmitInfra
    BY <2>11 DEF SubmitInfra, world, listed
  <2>12. ASSUME NEW t \in Task, Take(t) PROVE SessionsInv'
    BY <2>12 DEF Take, world, listed
  <2>13. CASE Complete \/ Deadline \/ Unwind
    BY <2>13 DEF Complete, Deadline, Unwind, Export, world, listed
  <2>14. CASE Crash
    BY <2>14 DEF Crash, world
  <2>15. CASE StartTask \/ KillWorker \/ \E t \in Task : EndTask(t)
    BY <2>15 DEF StartTask, KillWorker, EndTask, world, listed
  <2>16. CASE UNCHANGED vars
    BY <2>16 DEF vars, world, listed
  <2> QED
    BY <2>1, <2>2, <2>3, <2>4, <2>5, <2>6, <2>7, <2>8, <2>9, <2>10, <2>11, <2>12,
       <2>13, <2>14, <2>15, <2>16 DEF Next
<1>3. TypeOK /\ SessionsInv => SessionsInPlace
  BY DEF SessionsInv, SessionsInPlace, TypeOK
<1> QED
  BY <1>1, <1>2, <1>3, TypeCorrect, PTL DEF Spec

-----------------------------------------------------------------------------
(* The elements of the queue                                               *)

LEMMA ElementsOfConcat ==
  ASSUME NEW s \in Seq(Task), NEW t \in Seq(Task)
  PROVE  ToSet(s \o t) = ToSet(s) \cup ToSet(t)
<1>1. ASSUME NEW x \in ToSet(s \o t)
      PROVE  x \in ToSet(s) \cup ToSet(t)
  <2>1. PICK i \in DOMAIN (s \o t) : (s \o t)[i] = x
    BY DEF ToSet
  <2>2. CASE i \in DOMAIN s
    BY <2>1, <2>2 DEF ToSet
  <2>3. CASE i \notin DOMAIN s
    <3>1. i - Len(s) \in DOMAIN t /\ (s \o t)[i] = t[i - Len(s)]
      BY <2>3
    <3> QED
      BY <2>1, <3>1 DEF ToSet
  <2> QED
    BY <2>2, <2>3
<1>2. ASSUME NEW x \in ToSet(s)
      PROVE  x \in ToSet(s \o t)
  <2>1. PICK i \in DOMAIN s : s[i] = x
    BY DEF ToSet
  <2>2. i \in DOMAIN (s \o t) /\ (s \o t)[i] = x
    BY <2>1
  <2> QED
    BY <2>2 DEF ToSet
<1>3. ASSUME NEW x \in ToSet(t)
      PROVE  x \in ToSet(s \o t)
  <2>1. PICK i \in DOMAIN t : t[i] = x
    BY DEF ToSet
  <2>2. i + Len(s) \in DOMAIN (s \o t) /\ (s \o t)[i + Len(s)] = x
    BY <2>1
  <2> QED
    BY <2>2 DEF ToSet
<1> QED
  BY <1>1, <1>2, <1>3

LEMMA ElementsOfTail ==
  ASSUME NEW S, NEW s \in Seq(S), s # <<>>
  PROVE  ToSet(s) = {Head(s)} \cup ToSet(Tail(s))
<1>1. ASSUME NEW x \in ToSet(s)
      PROVE  x \in {Head(s)} \cup ToSet(Tail(s))
  <2>1. PICK i \in DOMAIN s : s[i] = x
    BY DEF ToSet
  <2>2. CASE i = 1
    BY <2>1, <2>2
  <2>3. CASE i # 1
    <3>1. i - 1 \in DOMAIN Tail(s) /\ Tail(s)[i - 1] = x
      BY <2>1, <2>3
    <3> QED
      BY <3>1 DEF ToSet
  <2> QED
    BY <2>2, <2>3
<1>2. Head(s) \in ToSet(s)
  <2>1. 1 \in DOMAIN s /\ s[1] = Head(s)
    OBVIOUS
  <2> QED
    BY <2>1 DEF ToSet
<1>3. ASSUME NEW x \in ToSet(Tail(s))
      PROVE  x \in ToSet(s)
  <2>1. PICK i \in DOMAIN Tail(s) : Tail(s)[i] = x
    BY DEF ToSet
  <2>2. i + 1 \in DOMAIN s /\ s[i + 1] = x
    BY <2>1
  <2> QED
    BY <2>2 DEF ToSet
<1> QED
  BY <1>1, <1>2, <1>3

\* Any order of a finite set has all its elements.
LEMMA ElementsOfOrder ==
  ASSUME NEW S, IsFiniteSet(S), NEW s \in SetToSeqs(S)
  PROVE  ToSet(s) = S
<1> DEFINE n == Cardinality(S)
<1>1. n \in Nat
  BY FS_CardinalityType
<1>2. s \in [1..n -> S] /\ \A i, j \in 1..n : i # j => s[i] # s[j]
  BY DEF SetToSeqs
<1>3. IsFiniteSet(1..n) /\ Cardinality(1..n) = n
  BY <1>1, FS_Interval
<1>4. s \in Injection(1..n, S)
  BY <1>2 DEF Injection, IsInjective
<1>5. s \in Surjection(1..n, S)
  BY <1>3, <1>4, FS_Injection
<1>6. \A x \in S : \E i \in 1..n : s[i] = x
  BY <1>5 DEF Surjection
<1>7. DOMAIN s = 1..n /\ \A i \in 1..n : s[i] \in S
  BY <1>2
<1> QED
  BY <1>6, <1>7 DEF ToSet

-----------------------------------------------------------------------------
(* A cycle exports all or nothing                                          *)

\* The tasks of a cycle.
Listed == ({"vim", "vca"} \X vnfrs) \cup ({"infra"} \X vims) \cup ({"sdnc"} \X Sdnc)

\* A task that has metrics where nothing fails.
Valued(t) ==
  /\ t[1] = "vim" => VimType[VimOf[t[2]]] # "other"
  /\ t[1] = "infra" => VimType[t[2]] # "other"

Wanted == {t \in Listed : Valued(t)}

\* What was submitted and not taken yet.
Work == ToSet(queue) \cup running \cup Over

\* While no target fails, a task has metrics, has none to have, or raises.
EndingsInv ==
  /\ \A t \in Target : health[t] = "ok"
  /\ \A t \in Task : /\ ended[t] # "refused"
                     /\ ended[t] = "metrics" => Valued(t)
                     /\ ended[t] = "nothing" => ~Valued(t)

\* The cycle starts without metrics, submits the tasks of the VNFs it has visited
\* and then those of the VIMs and of the controllers; what has metrics and is not
\* taken yet is in the pool, unless the cycle is abandoned.
TasksInv ==
  /\ pc \in {"sessions", "submit"} => metrics = {}
  /\ pc = "submit" => /\ todo \subseteq vnfrs
                      /\ {"vim", "vca"} \X (vnfrs \ todo) \subseteq Work
                      /\ Work \subseteq {"vim", "vca"} \X vnfrs
  /\ pc = "wait" => /\ Work \subseteq Listed
                    /\ metrics \subseteq Wanted
                    /\ Wanted \subseteq Work \cup metrics

WholeInv == faults["ail"] = 0 => EndingsInv /\ TasksInv

LEMMA ExpectedWanted == Expected(vnfrs, vims) = Wanted
<1>1. ASSUME NEW t \in Expected(vnfrs, vims)
      PROVE  t \in Wanted
  BY <1>1 DEF Expected, Wanted, Listed, Valued
<1>2. ASSUME NEW t \in Wanted
      PROVE  t \in Expected(vnfrs, vims)
  <2>1. Valued(t)
    BY DEF Wanted
  <2>2. CASE t \in {"vim", "vca"} \X vnfrs
    <3>1. t = <<t[1], t[2]>> /\ t[1] \in {"vim", "vca"} /\ t[2] \in vnfrs
      BY <2>2
    <3> QED
      BY <2>1, <3>1 DEF Expected, Valued
  <2>3. CASE t \in {"infra"} \X vims
    <3>1. t = <<"infra", t[2]>> /\ t[2] \in vims /\ t[1] = "infra"
      BY <2>3
    <3> QED
      BY <2>1, <3>1 DEF Expected, Valued
  <2>4. CASE t \in {"sdnc"} \X Sdnc
    BY <2>4 DEF Expected
  <2> QED
    BY <2>2, <2>3, <2>4 DEF Wanted, Listed
<1> QED
  BY <1>1, <1>2

LEMMA OtherFault ==
  ASSUME TypeOK, NEW k \in FaultKind, Strike(k)
  PROVE  /\ faults'[k] # 0
         /\ \A j \in FaultKind \ {k} : faults'[j] = faults[j]
BY DEF TypeOK, Strike

\* No step takes a fault back.
LEMMA FaultsStay ==
  ASSUME TypeOK, [Next]_vars, faults'["ail"] = 0
  PROVE  faults["ail"] = 0
<1>1. \A k \in FaultKind : Strike(k) => faults["ail"] = 0
  BY OtherFault DEF FaultKind
<1>2. CASE UNCHANGED faults
  BY <1>2
<1>3. CASE \E k \in FaultKind : Strike(k)
  BY <1>1, <1>3
<1>4. UNCHANGED faults \/ \E k \in FaultKind : Strike(k)
  <2>1. \A k \in {"db", "ail", "kill", "deadline", "crash"} : Strike(k) => \E j \in FaultKind : Strike(j)
    BY DEF FaultKind
  <2> QED
    BY <2>1 DEF Next, vars, Register, Deregister, Deploy, Undeploy, Ail, Recover, ListVnfs,
       ListVims, OpenSession, StartPool, SubmitVnf, SubmitInfra, Take, Complete, Deadline,
       Unwind, Crash, StartTask, EndTask, KillWorker
<1> QED
  BY <1>2, <1>3, <1>4

\* How a task ends while no target fails.
LEMMA EndingsOfTask ==
  ASSUME \A x \in Target : health[x] = "ok", NEW t \in Task
  PROVE  \/ EndingOf(t) = "raised"
         \/ EndingOf(t) = "metrics" /\ Valued(t)
         \/ EndingOf(t) = "nothing" /\ ~Valued(t)
<1>1. CASE t \in {"vim", "vca"} \X Vnf
  <2>1. t[1] \in {"vim", "vca"} /\ t[2] \in Vnf /\ t[2] \in Target
    BY <1>1 DEF Target
  <2>2. VimOf[t[2]] \in Target
    BY <2>1 DEF Target
  <2>3. health[t[2]] = "ok" /\ health[VimOf[t[2]]] = "ok"
    BY <2>1, <2>2
  <2> QED
    BY <2>1, <2>3 DEF EndingOf, VimEnding, VcaEnding, OfHealth, Valued
<1>2. CASE t \in {"infra"} \X Vim
  <2>1. t[1] = "infra" /\ t[2] \in Vim /\ health[t[2]] = "ok"
    BY <1>2 DEF Target
  <2> QED
    BY <2>1 DEF EndingOf, InfraEnding, OfHealth, Valued
<1>3. CASE t \in {"sdnc"} \X Sdnc
  <2>1. t[1] = "sdnc"
    BY <1>3
  <2> QED
    BY <2>1 DEF EndingOf, Valued
<1> QED
  BY <1>1, <1>2, <1>3 DEF Task

\* The steps of the workers move tasks through the pool and lose none.
LEMMA WorkMoves ==
  ASSUME TypeOK, StartTask \/ KillWorker \/ \E t \in Task : EndTask(t)
  PROVE  Work' = Work
<1>1. CASE StartTask
  <2>1. queue \in Seq(Task) /\ queue # <<>>
    BY <1>1 DEF StartTask, Startable, TypeOK
  <2>2. ToSet(queue) = {Head(queue)} \cup ToSet(Tail(queue))
    BY <2>1, ElementsOfTail
  <2>3. ToSet(queue') = ToSet(Tail(queue)) /\ running' = running \cup {Head(queue)}
    BY <1>1 DEF StartTask
  <2>4. Over' = Over
    BY <1>1 DEF StartTask, Over
  <2> QED
    BY <2>2, <2>3, <2>4 DEF Work
<1>2. CASE KillWorker
  <2>1. ToSet(queue) \subseteq Task /\ running \subseteq Task
    BY DEF TypeOK, ToSet
  <2>2. Over' = Over \cup running \cup ToSet(queue)
    BY <1>2, <2>1 DEF KillWorker, Over
  <2>3. ToSet(queue') = {} /\ running' = {}
    BY <1>2 DEF KillWorker, ToSet
  <2> QED
    BY <2>2, <2>3 DEF Work
<1>3. ASSUME NEW t \in Task, EndTask(t)
      PROVE  Work' = Work
  <2>1. t \in running /\ running' = running \ {t} /\ queue' = queue
    BY <1>3 DEF EndTask, Endable
  <2>2. EndingOf(t) # "no"
    BY EndingType DEF Ending
  <2>3. ended' = [ended EXCEPT ![t] = EndingOf(t)] \/ ended' = [ended EXCEPT ![t] = "raised"]
    BY <1>3 DEF EndTask
  <2>4. Over' = Over \cup {t}
    BY <2>2, <2>3 DEF Over, TypeOK
  <2>5. ToSet(queue') = ToSet(queue)
    BY <2>1
  <2> QED
    BY <2>1, <2>4, <2>5 DEF Work
<1> QED
  BY <1>1, <1>2, <1>3

LEMMA WorkUnchanged ==
  ASSUME UNCHANGED <<queue, running, ended>>
  PROVE  Work' = Work
BY DEF Work, Over

LEMMA EndingsStep ==
  ASSUME TypeOK, EndingsInv, [Next]_vars, faults["ail"] = 0, faults'["ail"] = 0
  PROVE  EndingsInv'
<1>1. ~ Strike("ail")
  BY OtherFault DEF FaultKind
<1>2. UNCHANGED health
  BY <1>1 DEF EndingsInv, Next, vars, Register, Deregister, Deploy, Undeploy, Ail, Recover,
     ListVnfs, ListVims, OpenSession, StartPool, SubmitVnf, SubmitInfra, Take, Complete,
     Deadline, Export, Unwind, Crash, StartTask, EndTask, KillWorker, world
<1>3. CASE UNCHANGED ended
  BY <1>2, <1>3 DEF EndingsInv, Valued
<1>4. CASE ended' = NoEnding
  BY <1>2, <1>4 DEF EndingsInv, NoEnding
<1>5. ASSUME NEW t \in Task, Take(t) PROVE EndingsInv'
  BY <1>2, <1>5 DEF Take, EndingsInv, Valued, TypeOK
<1>6. ASSUME NEW t \in Task, EndTask(t) PROVE EndingsInv'
  <2>1. \/ EndingOf(t) = "raised"
        \/ EndingOf(t) = "metrics" /\ Valued(t)
        \/ EndingOf(t) = "nothing" /\ ~Valued(t)
    BY EndingsOfTask DEF EndingsInv
  <2> QED
    BY <1>2, <1>6, <2>1 DEF EndTask, EndingsInv, Valued, TypeOK
<1>7. CASE KillWorker
  BY <1>2, <1>7 DEF KillWorker, EndingsInv, Valued
<1> QED
  BY <1>1, <1>3, <1>4, <1>5, <1>6, <1>7 DEF Next, vars, Register, Deregister, Deploy,
     Undeploy, Ail, Recover, ListVnfs, ListVims, OpenSession, StartPool, SubmitVnf,
     SubmitInfra, Complete, Deadline, Export, Unwind, Crash, StartTask, pool

LEMMA TasksStep ==
  ASSUME TypeOK, NoStragglers, EndingsInv, TasksInv, [Next]_vars
  PROVE  TasksInv'
<1>1. CASE UNCHANGED <<pc, listed, pool, metrics>>
  <2>1. Work' = Work
    BY <1>1, WorkUnchanged DEF pool
  <2> QED
    BY <1>1, <2>1 DEF TasksInv, Wanted, Listed, Valued, listed
<1>2. CASE ListVnfs \/ Complete \/ Deadline \/ Unwind \/ Crash
  BY <1>2 DEF ListVnfs, Complete, Deadline, Export, Unwind, Crash, TasksInv
<1>3. CASE ListVims
  BY <1>3 DEF ListVims, TasksInv
<1>4. ASSUME NEW v \in Vim, OpenSession(v) PROVE TasksInv'
  BY <1>4 DEF OpenSession, TasksInv
<1>5. CASE StartPool
  <2>1. pc = "sessions" /\ pc' = "submit" /\ vnfrs' = vnfrs /\ todo' = vnfrs /\ metrics' = metrics
    BY <1>5 DEF StartPool
  <2>2. Work = {}
    BY <2>1 DEF NoStragglers, Work, ToSet
  <2>3. Work' = {}
    BY <1>5, <2>2, WorkUnchanged DEF StartPool, pool
  <2> QED
    BY <2>1, <2>3 DEF TasksInv
<1>6. ASSUME NEW f \in Vnf, SubmitVnf(f) PROVE TasksInv'
  <2>1. CASE pc' = "unwind"
    BY <2>1 DEF TasksInv
  <2>2. CASE pc' # "unwind"
    <3>1. /\ pc = "submit" /\ pc' = "submit" /\ f \in todo
          /\ queue' = queue \o << <<"vim", f>>, <<"vca", f>> >>
          /\ todo' = todo \ {f}
          /\ UNCHANGED <<vnfrs, running, ended, metrics>>
      BY <1>6, <2>2 DEF SubmitVnf
    <3>2. ToSet(queue') = ToSet(queue) \cup {<<"vim", f>>, <<"vca", f>>}
      <4>1. << <<"vim", f>>, <<"vca", f>> >> \in Seq(Task) /\ queue \in Seq(Task)
        BY DEF Task, TypeOK
      <4>2. ToSet(<< <<"vim", f>>, <<"vca", f>> >>) = {<<"vim", f>>, <<"vca", f>>}
        BY DEF ToSet
      <4>3. ToSet(queue \o << <<"vim", f>>, <<"vca", f>> >>)
              = ToSet(queue) \cup ToSet(<< <<"vim", f>>, <<"vca", f>> >>)
        BY <4>1, ElementsOfConcat
      <4> QED
        BY <3>1, <4>2, <4>3
    <3>3. Work' = Work \cup {<<"vim", f>>, <<"vca", f>>}
      BY <3>1, <3>2 DEF Work, Over
    <3>4. Work' \subseteq {"vim", "vca"} \X vnfrs
      BY <3>1, <3>3 DEF TasksInv
    <3>5. {"vim", "vca"} \X (vnfrs \ todo') \subseteq Work'
      BY <3>1, <3>3 DEF TasksInv
    <3> QED
      BY <3>1, <3>4, <3>5 DEF TasksInv
  <2> QED
    BY <2>1, <2>2
<1>7. CASE SubmitInfra
  <2>1. CASE pc' = "unwind"
    BY <2>1 DEF TasksInv
  <2>2. CASE pc' # "unwind"
    <3>1. PICK infra \in SetToSeqs({"infra"} \X vims), sdnc \in SetToSeqs({"sdnc"} \X Sdnc) :
            queue' = (queue \o infra) \o sdnc /\ pc' = "wait"
      BY <1>7, <2>2 DEF SubmitInfra
    <3>2. pc = "submit" /\ todo = {} /\ UNCHANGED <<vnfrs, vims, running, ended, metrics>>
      BY <1>7 DEF SubmitInfra, listed
    <3>3. IsFiniteSet({"infra"} \X vims) /\ IsFiniteSet({"sdnc"} \X Sdnc)
      <4>1. IsFiniteSet({"infra"}) /\ IsFiniteSet({"sdnc"})
        BY FS_Singleton
      <4>2. IsFiniteSet(vims)
        BY FS_Subset DEF TypeOK
      <4> QED
        BY <4>1, <4>2, FS_Product
    <3>4. /\ infra \in Seq({"infra"} \X vims) /\ ToSet(infra) = {"infra"} \X vims
          /\ sdnc \in Seq({"sdnc"} \X Sdnc) /\ ToSet(sdnc) = {"sdnc"} \X Sdnc
      BY <3>3, OrderType, ElementsOfOrder
    <3>5. infra \in Seq(Task) /\ sdnc \in Seq(Task) /\ queue \in Seq(Task)
      <4>1. {"infra"} \X vims \subseteq Task /\ {"sdnc"} \X Sdnc \subseteq Task
        BY DEF TypeOK, Task
      <4>2. infra \in Seq(Task)
        BY <3>3, <4>1, OrderType
      <4>3. sdnc \in Seq(Task)
        BY <3>3, <4>1, OrderType
      <4> QED
        BY <4>2, <4>3 DEF TypeOK
    <3>6. queue \o infra \in Seq(Task) /\ ToSet(queue \o infra) = ToSet(queue) \cup ToSet(infra)
      BY <3>5, ConcatType, ElementsOfConcat
    <3>7. ToSet(queue') = (ToSet(queue) \cup ToSet(infra)) \cup ToSet(sdnc)
      BY <3>1, <3>5, <3>6, ElementsOfConcat
    <3>8. Work' = (Work \cup {"infra"} \X vims) \cup {"sdnc"} \X Sdnc
      BY <3>2, <3>4, <3>7 DEF Work, Over
    <3>9. Work = {"vim", "vca"} \X vnfrs /\ metrics = {}
      BY <3>2 DEF TasksInv
    <3>10. Work' = Listed
      BY <3>8, <3>9 DEF Listed
    <3>11. Listed' = Listed
      BY <3>2 DEF Listed
    <3> QED
      BY <3>1, <3>2, <3>9, <3>10, <3>11 DEF TasksInv, Wanted
  <2> QED
    BY <2>1, <2>2
<1>8. ASSUME NEW t \in Task, Take(t) PROVE TasksInv'
  <2>1. CASE ended[t] = "raised"
    BY <1>8, <2>1 DEF Take, TasksInv
  <2>2. CASE ended[t] # "raised"
    <3>1. /\ pc = "wait" /\ pc' = "wait" /\ t \in Over
          /\ ended' = [ended EXCEPT ![t] = "no"]
          /\ UNCHANGED <<vnfrs, vims, queue, running>>
      BY <1>8, <2>2 DEF Take, listed
    <3>2. Over' = Over \ {t}
      BY <3>1 DEF Over, TypeOK
    <3>3. Work' \subseteq Work /\ Work \ {t} \subseteq Work' /\ t \in Work
      BY <3>1, <3>2 DEF Work
    <3>4. Wanted' = Wanted /\ Listed' = Listed
      BY <3>1 DEF Wanted, Listed, Valued
    <3>5. t \in Listed
      BY <3>1, <3>3 DEF TasksInv
    <3>6. \/ Valued(t) /\ metrics' = metrics \cup {t}
          \/ ~Valued(t) /\ metrics' = metrics
      BY <1>8, <2>2, <3>1 DEF Take, EndingsInv, Over, TypeOK, Ending
    <3> QED
      BY <3>1, <3>3, <3>4, <3>5, <3>6 DEF TasksInv, Wanted
  <2> QED
    BY <2>1, <2>2
<1>9. CASE StartTask \/ KillWorker \/ \E t \in Task : EndTask(t)
  <2>1. Work' = Work
    BY <1>9, WorkMoves
  <2>2. UNCHANGED <<vnfrs, vims, todo, metrics>> /\ (pc' = pc \/ pc' = "unwind")
    BY <1>9 DEF StartTask, KillWorker, EndTask, listed
  <2> QED
    BY <2>1, <2>2 DEF TasksInv, Wanted, Listed, Valued
<1> QED
  BY <1>1, <1>2, <1>3, <1>4, <1>5, <1>6, <1>7, <1>8, <1>9
     DEF Next, vars, Register, Deregister, Deploy, Undeploy, Ail, Recover

\* What the exporter serves changes only at the end of a cycle that has taken the
\* metrics of every target that has any, unless a target fails, the deadline
\* comes, or the container dies: no other failure leaves a part of them there.
THEOREM AllOrNothing == Spec => WholeOrNothing
<1>1. Init => WholeInv
  BY DEF Init, WholeInv, EndingsInv, TasksInv, NoEnding
<1>2. TypeOK /\ NoStragglers /\ WholeInv /\ [Next]_vars => WholeInv'
  BY FaultsStay, EndingsStep, TasksStep DEF WholeInv
<1>3. TypeOK /\ WholeInv /\ [Next]_vars
        => [exported' # exported /\ (\A k \in {"ail", "deadline", "crash"} : faults'[k] = 0)
              => exported' = Expected(vnfrs, vims)]_vars
  <2> SUFFICES ASSUME TypeOK, WholeInv, [Next]_vars, exported' # exported,
                      \A k \in {"ail", "deadline", "crash"} : faults'[k] = 0
               PROVE  exported' = Expected(vnfrs, vims)
    OBVIOUS
  <2>1. EndingsInv /\ TasksInv
    BY FaultsStay DEF WholeInv
  <2>2. ~ Strike("deadline") /\ ~ Strike("crash")
    BY OtherFault DEF FaultKind
  <2>3. Complete \/ Deadline
    BY <2>2 DEF Next, vars, Register, Deregister, Deploy, Undeploy, Ail, Recover, ListVnfs,
       ListVims, OpenSession, StartPool, SubmitVnf, SubmitInfra, Take, Unwind, Crash,
       StartTask, EndTask, KillWorker
  <2>4. ~ Deadline
    <3> SUFFICES ASSUME Deadline PROVE FALSE
      OBVIOUS
    <3>1. /\ queue # <<>> \/ running # {} \/ Over # {}
          /\ ~(Startable \/ Endable # {} \/ Over # {})
      BY <2>2 DEF Deadline
    <3>2. \A t \in Task : t[2] \in Target
      BY DEF Task, Target
    <3>3. Endable = running
      BY <2>1, <3>2 DEF Endable, EndingsInv, TypeOK
    <3>4. Cardinality({}) < PoolSize
      BY FS_EmptySet
    <3> QED
      BY <3>1, <3>3, <3>4 DEF Startable
  <2>5. pc = "wait" /\ Work = {} /\ exported' = metrics
    BY <2>3, <2>4 DEF Complete, Export, Work, ToSet
  <2>6. metrics = Wanted
    BY <2>1, <2>5 DEF TasksInv
  <2> QED
    BY <2>5, <2>6, ExpectedWanted
<1> QED
  BY <1>1, <1>2, <1>3, TypeCorrect, CyclesSeparate, PTL DEF Spec, WholeOrNothing

=============================================================================

-------------------------- MODULE Evaluator_proofs --------------------------
(***************************************************************************)
(* Theorems about MON Evaluator, for any alarms, slots and faults.         *)
(***************************************************************************)
EXTENDS Evaluator, FiniteSetTheorems, TLAPS

USE OperationAssumption, UnreadableAssumption, FaultsAssumption

-----------------------------------------------------------------------------
(* The operators that fork, drain and abandon jobs                         *)

LEMMA FreeJob == Free \in Job /\ Free.stage = "free" /\ Free.muted = FALSE
BY DEF Free, Job, Stage, Verdict

LEMMA ForkedJobs ==
  ASSUME TypeOK, NEW S, NEW awaited \in BOOLEAN
  PROVE  /\ Forked(S, awaited) \in [JobId -> Job]
         /\ \A j \in JobId : \/ Forked(S, awaited)[j] = job[j]
                             \/ Forked(S, awaited)[j].stage = "query"
<1>1. \A a \in Alarm : NewJob(a, awaited) \in Job /\ NewJob(a, awaited).stage = "query"
  BY DEF NewJob, Job, Stage, Verdict
<1> QED
  BY <1>1 DEF Forked, TypeOK, JobId

LEMMA NotifiedJobs ==
  ASSUME TypeOK, NEW S, NEW awaited \in BOOLEAN, S \subseteq Queued
  PROVE  /\ Notified(S, awaited) \in [JobId -> Job]
         /\ \A j \in JobId :
              \/ Notified(S, awaited)[j] = job[j]
              \/ Notified(S, awaited)[j] = Free
              \/ /\ job[j].stage = "queued"
                 /\ Notified(S, awaited)[j].stage = "publish"
                 /\ Notified(S, awaited)[j].muted = job[j].muted
                 /\ Notified(S, awaited)[j].verdict = job[j].verdict
<1> DEFINE told(j) == [job[j] EXCEPT !.stage = "publish", !.awaited = awaited]
<1>1. \A j \in JobId :
        \/ Notified(S, awaited)[j] = job[j]
        \/ Notified(S, awaited)[j] = Free
        \/ job[j].stage = "queued" /\ Notified(S, awaited)[j] = told(j)
  BY DEF Notified, Queued
<1>0. \A j \in JobId : job[j] \in Job
  BY DEF TypeOK
<1>2. \A j \in JobId : /\ told(j) \in Job
                        /\ told(j).stage = "publish"
                        /\ told(j).muted = job[j].muted
                        /\ told(j).verdict = job[j].verdict
                        /\ told(j).awaited = awaited
  BY <1>0 DEF Job, Stage
<1>3. Notified(S, awaited) = [j \in JobId |-> Notified(S, awaited)[j]]
  BY DEF Notified
<1> HIDE DEF told
<1>4. \A j \in JobId : Notified(S, awaited)[j] \in Job
  BY <1>0, <1>1, <1>2, FreeJob
<1> QED
  BY <1>1, <1>2, <1>3, <1>4

LEMMA AbandonedJobs ==
  ASSUME TypeOK
  PROVE  /\ Abandoned \in [JobId -> Job]
         /\ \A j \in JobId : /\ Abandoned[j].stage = job[j].stage
                             /\ Abandoned[j].muted = job[j].muted
                             /\ Abandoned[j].verdict = job[j].verdict
                             /\ Abandoned[j].awaited = FALSE
<1>1. \A j \in JobId : job[j] \in Job
  BY DEF TypeOK
<1> QED
  BY <1>1 DEF Abandoned, Job

LEMMA StrikeType ==
  ASSUME TypeOK, NEW k \in FaultKind, Strike(k)
  PROVE  /\ faults' \in [FaultKind -> Nat]
         /\ faults'[k] # 0
BY DEF TypeOK, Strike

-----------------------------------------------------------------------------
(* Type correctness, and what the processes of an alarm may do             *)

\* A notifier that is about to store a verdict has published it.
WriterPublished ==
  \A j \in JobId : job[j].stage \in {"read", "write"} => job[j].verdict \in published[j[1]]

IInv ==
  /\ TypeOK
  /\ PublishedBeforeStored
  /\ WriterPublished

LEMMA SafetyInit == Init => IInv
<1> SUFFICES ASSUME Init PROVE IInv
  OBVIOUS
<1>1. TypeOK
  BY FreeJob DEF Init, TypeOK, AlarmStatus, Verdict, FaultKind
<1> QED
  BY <1>1, FreeJob DEF Init, IInv, PublishedBeforeStored,
     WriterPublished, Free

LEMMA EnvironmentStep ==
  ASSUME IInv, NEW a \in Alarm,
         Create(a) \/ Delete(a) \/ Disable(a) \/ Enable(a) \/ Sample(a)
  PROVE  IInv'
<1>1. TypeOK'
  BY DEF IInv, TypeOK, Create, Delete, Disable, Enable, Sample, bus, AlarmStatus, Verdict,
     Reading
<1>2. PublishedBeforeStored'
  BY DEF IInv, TypeOK, PublishedBeforeStored, Create, Delete, Disable, Enable, Sample, bus
<1>3. WriterPublished'
  BY DEF IInv, WriterPublished, Create, Delete, Disable, Enable,
     Sample, bus
<1> QED
  BY <1>1, <1>2, <1>3 DEF IInv

LEMMA LoopStep ==
  ASSUME IInv, Snapshot \/ JoinWorkers \/ Drain \/ JoinNotifiers \/ Crash
  PROVE  IInv'
<1>0. TypeOK /\ UNCHANGED <<alarms, metric, published, lastPublished, late, toggled>>
  BY DEF IInv, Snapshot, JoinWorkers, Drain, JoinNotifiers, Crash, bus
<1>1. faults' \in [FaultKind -> Nat]
  BY <1>0, StrikeType DEF Snapshot, JoinWorkers, Drain, JoinNotifiers, Crash, Join,
     FaultKind, TypeOK
<1>2. pc' \in {"start", "join_workers", "drain", "join_notifiers"}
  BY <1>0 DEF Snapshot, JoinWorkers, Drain, JoinNotifiers, Crash, TypeOK
<1>3. \/ job' = job
      \/ \E S, w : w \in BOOLEAN /\ job' = Forked(S, w)
      \/ job' = Abandoned
      \/ \E S, w : w \in BOOLEAN /\ S \subseteq Queued /\ job' = Notified(S, w)
      \/ job' = [j \in JobId |-> Free]
  BY DEF Snapshot, JoinWorkers, Drain, JoinNotifiers, Crash
<1>4. /\ job' \in [JobId -> Job]
      /\ \A j \in JobId :
           \/ job'[j] = Free
           \/ job'[j].stage = "query"
           \/ job'[j].stage = "publish" /\ job[j].stage = "queued"
              /\ job'[j].muted = job[j].muted
           \/ /\ job'[j].stage = job[j].stage
              /\ job'[j].muted = job[j].muted
              /\ job'[j].verdict = job[j].verdict
  <2>1. CASE job' = job
    BY <1>0, <2>1 DEF TypeOK
  <2>2. CASE \E S, w : w \in BOOLEAN /\ job' = Forked(S, w)
    BY <1>0, <2>2, ForkedJobs
  <2>3. CASE job' = Abandoned
    BY <1>0, <2>3, AbandonedJobs
  <2>4. CASE \E S, w : w \in BOOLEAN /\ S \subseteq Queued /\ job' = Notified(S, w)
    BY <1>0, <2>4, NotifiedJobs
  <2>5. CASE job' = [j \in JobId |-> Free]
    BY <2>5, FreeJob
  <2> QED
    BY <1>3, <2>1, <2>2, <2>3, <2>4, <2>5
<1>5. TypeOK'
  BY <1>0, <1>1, <1>2, <1>4 DEF TypeOK
<1>6. PublishedBeforeStored'
  BY <1>0 DEF IInv, PublishedBeforeStored
<1>7. WriterPublished'
  BY <1>0, <1>4, FreeJob DEF IInv, WriterPublished
<1> QED
  BY <1>5, <1>6, <1>7 DEF IInv

LEMMA VerdictType == \A op, r : VerdictOf(op, r) \in Verdict
BY DEF VerdictOf, Verdict

LEMMA ProcessStep ==
  ASSUME IInv, NEW j \in JobId, Run(j)
  PROVE  IInv'
<1>0. /\ TypeOK
      /\ j[1] \in Alarm
      /\ job[j] \in Job
  BY DEF IInv, TypeOK, JobId
<1>1. CASE Query(j)
  <2>1. UNCHANGED <<alarms, metric, pc, published, lastPublished, late, toggled>>
    BY <1>1 DEF Query, bus
  <2>2. faults' \in [FaultKind -> Nat]
    BY <1>0, <1>1, StrikeType DEF Query, FaultKind, TypeOK
  <2>3. \/ job' = [job EXCEPT ![j] = Free]
        \/ /\ ~job[j].muted
           /\ \E v \in Verdict : job' = [job EXCEPT ![j].stage = "put", ![j].verdict = v]
    BY <1>1, VerdictType DEF Query, Judge, Exit
  <2>4. /\ job' \in [JobId -> Job]
        /\ \A k \in JobId \ {j} : job'[k] = job[k]
        /\ job'[j] = Free \/ (job'[j].stage = "put" /\ ~job'[j].muted)
    <3>1. CASE job' = [job EXCEPT ![j] = Free]
      BY <1>0, <3>1, FreeJob DEF TypeOK
    <3>2. ASSUME NEW v \in Verdict, ~job[j].muted,
                 job' = [job EXCEPT ![j].stage = "put", ![j].verdict = v]
          PROVE  /\ job' \in [JobId -> Job]
                 /\ \A k \in JobId \ {j} : job'[k] = job[k]
                 /\ job'[j].stage = "put" /\ ~job'[j].muted
      BY <1>0, <3>2 DEF TypeOK, Job, Stage
    <3> QED
      BY <2>3, <3>1, <3>2
  <2> QED
    BY <1>0, <2>1, <2>2, <2>4, FreeJob DEF IInv, TypeOK, PublishedBeforeStored,
       WriterPublished
<1>2. CASE Put(j)
  <2>1. UNCHANGED <<alarms, metric, pc, published, lastPublished, late, toggled, faults>>
    BY <1>2 DEF Put, bus
  <2>2. job[j].stage = "put" /\ job' = [job EXCEPT ![j].stage = "queued"]
    BY <1>2 DEF Put, Advance
  <2>3. /\ job' \in [JobId -> Job]
        /\ \A k \in JobId \ {j} : job'[k] = job[k]
        /\ job'[j].stage = "queued" /\ job'[j].muted = job[j].muted
    BY <1>0, <2>2 DEF TypeOK, Job, Stage
  <2> QED
    BY <1>0, <2>1, <2>2, <2>3 DEF IInv, TypeOK, PublishedBeforeStored,
       WriterPublished
<1>3. CASE Publish(j)
  <2>1. UNCHANGED <<alarms, metric, pc, toggled>> /\ job[j].stage = "publish"
    BY <1>3 DEF Publish
  <2>2. faults' \in [FaultKind -> Nat]
    BY <1>0, <1>3, StrikeType DEF Publish, FaultKind, TypeOK
  <2>3. Notify(j[1], job[j].verdict) \/ (UNCHANGED bus /\ job' = [job EXCEPT ![j] = Free])
    BY <1>3 DEF Publish, Exit
  <2>4. /\ published' \in [Alarm -> SUBSET Verdict]
        /\ lastPublished' \in [Alarm -> Verdict \cup {"none"}]
        /\ late' \in [Alarm -> Nat]
        /\ \A a \in Alarm : published[a] \subseteq published'[a]
        /\ \/ job[j].verdict \in published'[j[1]]
           \/ job' = [job EXCEPT ![j] = Free]
    BY <1>0, <2>3 DEF TypeOK, Notify, bus, Job
  <2>5. \/ job' = [job EXCEPT ![j] = Free]
        \/ job' = [job EXCEPT ![j].stage = "read"]
    BY <1>3 DEF Publish, Exit, Advance
  <2>6. /\ job' \in [JobId -> Job]
        /\ \A k \in JobId \ {j} : job'[k] = job[k]
        /\ \/ job'[j] = Free
           \/ /\ job'[j].stage = "read"
              /\ job'[j].muted = job[j].muted
              /\ job'[j].verdict = job[j].verdict
              /\ job'[j].verdict \in published'[j[1]]
    <3>1. CASE job' = [job EXCEPT ![j] = Free]
      BY <1>0, <3>1, FreeJob DEF TypeOK
    <3>2. CASE job' # [job EXCEPT ![j] = Free]
      BY <1>0, <2>4, <2>5, <3>2 DEF TypeOK, Job, Stage
    <3> QED
      BY <3>1, <3>2
  <2>7. TypeOK'
    BY <1>0, <2>1, <2>2, <2>4, <2>6 DEF TypeOK
  <2>8. PublishedBeforeStored'
    BY <2>1, <2>4 DEF IInv, PublishedBeforeStored
  <2>9. WriterPublished'
    BY <2>4, <2>6, FreeJob DEF IInv, WriterPublished, JobId
  <2> QED
    BY <2>7, <2>8, <2>9 DEF IInv
<1>4. CASE Read(j)
  <2>1. UNCHANGED <<alarms, metric, pc, published, lastPublished, late, toggled>> /\ job[j].stage = "read"
    BY <1>4 DEF Read, bus
  <2>2. faults' \in [FaultKind -> Nat]
    BY <1>0, <1>4, StrikeType DEF Read, FaultKind, TypeOK
  <2>3. \/ job' = [job EXCEPT ![j] = Free]
        \/ job' = [job EXCEPT ![j].stage = "write"]
    BY <1>4 DEF Read, Exit, Advance
  <2>4. /\ job' \in [JobId -> Job]
        /\ \A k \in JobId \ {j} : job'[k] = job[k]
        /\ \/ job'[j] = Free
           \/ /\ job'[j].stage = "write"
              /\ job'[j].muted = job[j].muted
              /\ job'[j].verdict = job[j].verdict
    <3>1. CASE job' = [job EXCEPT ![j] = Free]
      BY <1>0, <3>1, FreeJob DEF TypeOK
    <3>2. CASE job' = [job EXCEPT ![j].stage = "write"]
      BY <1>0, <3>2 DEF TypeOK, Job, Stage
    <3> QED
      BY <2>3, <3>1, <3>2
  <2> QED
    BY <1>0, <2>1, <2>2, <2>4, FreeJob DEF IInv, TypeOK, PublishedBeforeStored,
       WriterPublished
<1>5. CASE Write(j)
  <2>1. /\ UNCHANGED <<metric, pc, published, lastPublished, late, toggled>>
        /\ job[j].stage = "write"
        /\ job' = [job EXCEPT ![j] = Free]
    BY <1>5 DEF Write, bus, Exit
  <2>2. faults' \in [FaultKind -> Nat]
    BY <1>0, <1>5, StrikeType DEF Write, FaultKind, TypeOK
  <2>3. alarms' = alarms \/ alarms' = [alarms EXCEPT ![j[1]] = job[j].verdict]
    BY <1>5 DEF Write, SetStatus
  <2>4. job[j].verdict \in published[j[1]] /\ job[j].verdict \in Verdict
    BY <1>0, <2>1 DEF IInv, WriterPublished, Job
  <2>5. /\ job' \in [JobId -> Job]
        /\ \A k \in JobId \ {j} : job'[k] = job[k]
        /\ job'[j] = Free
    BY <1>0, <2>1, FreeJob DEF TypeOK
  <2>6. TypeOK' /\ PublishedBeforeStored'
    BY <1>0, <2>1, <2>2, <2>3, <2>4, <2>5 DEF IInv, TypeOK, PublishedBeforeStored, AlarmStatus
  <2>7. WriterPublished'
    BY <2>1, <2>5, FreeJob DEF IInv, WriterPublished
  <2> QED
    BY <2>6, <2>7 DEF IInv
<1> QED
  BY <1>1, <1>2, <1>3, <1>4, <1>5 DEF Run

LEMMA SafetyStep == IInv /\ [Next]_vars => IInv'
<1> SUFFICES ASSUME IInv, [Next]_vars
             PROVE  IInv'
  OBVIOUS
<1>1. CASE UNCHANGED vars
  BY <1>1 DEF vars, bus, IInv, TypeOK, PublishedBeforeStored, WriterPublished
<1>2. CASE Next
  BY <1>2, EnvironmentStep, LoopStep, ProcessStep DEF Next, Run
<1> QED
  BY <1>1, <1>2

LEMMA Safety == Spec => []IInv
<1>1. Init => IInv
  BY SafetyInit
<1>2. IInv /\ [Next]_vars => IInv'
  BY SafetyStep
<1> QED
  BY <1>1, <1>2, PTL DEF Spec

\* Every variable of the evaluator stays in its type: in particular the status
\* stored for an alarm is always one of the documented ones.
THEOREM TypeCorrect == Spec => []TypeOK
<1>1. IInv => TypeOK
  BY DEF IInv
<1> QED
  BY <1>1, Safety, PTL

\* A status found in the database was on the bus before, whatever processes are
\* late, fail or die.
THEOREM NotifiedBeforeStored == Spec => []PublishedBeforeStored
<1>1. IInv => PublishedBeforeStored
  BY DEF IInv
<1> QED
  BY <1>1, Safety, PTL

\* No process writes a deleted alarm back.
THEOREM DeletedStayDeleted == Spec => NeverResurrected
<1>1. TypeOK /\ [Next]_vars => [\A a \in Alarm : alarms[a] = "gone" => alarms'[a] = "gone"]_vars
  <2> SUFFICES ASSUME TypeOK, Next, NEW a \in Alarm, alarms[a] = "gone"
               PROVE  alarms'[a] = "gone"
    OBVIOUS
  <2>1. ASSUME NEW b \in Alarm,
               Create(b) \/ Delete(b) \/ Disable(b) \/ Enable(b) \/ Sample(b)
        PROVE  alarms'[a] = "gone"
    BY <2>1 DEF TypeOK, Create, Delete, Disable, Enable, Sample, Stored, AlarmStatus,
       Verdict
  <2>2. CASE Snapshot \/ JoinWorkers \/ Drain \/ JoinNotifiers \/ Crash
    BY <2>2 DEF Snapshot, JoinWorkers, Drain, JoinNotifiers, Crash
  <2>3. ASSUME NEW j \in JobId, Query(j) \/ Put(j) \/ Publish(j) \/ Read(j) \/ Write(j)
        PROVE  alarms'[a] = "gone"
    BY <2>3 DEF TypeOK, Query, Put, Publish, Read, Write, SetStatus, Stored, AlarmStatus,
       Verdict
  <2> QED
    BY <2>1, <2>2, <2>3 DEF Next
<1> QED
  BY <1>1, TypeCorrect, PTL DEF Spec, NeverResurrected

-----------------------------------------------------------------------------
(* Passes without faults.  The invariant follows the one job each alarm    *)
(* then has at most, from the worker to the end of the notifier: the       *)
(* status of an alarm differs from the last notification only while that   *)
(* job stands between publishing and updating.                             *)

Quiet == \A k \in FaultKind : faults[k] = 0

\* Where the jobs are, by the place of the loop.
PassShape ==
  /\ pc = "start" => \A j \in JobId : job[j].stage = "free"
  /\ pc = "join_workers" =>
       \A j \in JobId : /\ job[j].stage \in {"free", "query", "put", "queued"}
                        /\ job[j].stage \in {"query", "put"} => job[j].awaited
  /\ pc = "drain" => \A j \in JobId : job[j].stage \in {"free", "queued"}
  /\ pc = "join_notifiers" =>
       \A j \in JobId : /\ job[j].stage \in {"free", "publish", "read", "write"}
                        /\ job[j].stage # "free" => job[j].awaited

OneJobEach ==
  \A j, k \in JobId :
    j[1] = k[1] /\ job[j].stage # "free" /\ job[k].stage # "free" => j = k

\* Nothing is known of an alarm before it is created.
Unborn ==
  \A a \in Alarm : alarms[a] = "none" =>
    /\ lastPublished[a] = "none"
    /\ \A j \in JobId : j[1] = a => job[j].stage = "free"

NeverDisabled == \A a \in Alarm \ toggled : alarms[a] # "disabled"

WriterLast ==
  \A j \in JobId : job[j].stage \in {"read", "write"} => job[j].verdict = lastPublished[j[1]]

Writing(a) == \E j \in JobId : j[1] = a /\ job[j].stage \in {"read", "write"}

Settled(a) == alarms[a] = IF lastPublished[a] = "none" THEN "ok" ELSE lastPublished[a]

SettledOrWriting == \A a \in Stored \ toggled : Writing(a) \/ Settled(a)

PassInv ==
  Quiet => /\ PassShape
           /\ OneJobEach
           /\ Unborn
           /\ NeverDisabled
           /\ WriterLast
           /\ SettledOrWriting

LEMMA PassInit == Init => PassInv
BY DEF Init, PassInv, PassShape, OneJobEach, Unborn, NeverDisabled, WriterLast,
   SettledOrWriting, Stored, AlarmStatus, Verdict, Free

LEMMA QuietBefore ==
  ASSUME TypeOK, [Next]_vars, Quiet'
  PROVE  Quiet /\ \A k \in FaultKind : ~Strike(k)
<1>1. \A k \in FaultKind : ~Strike(k)
  BY StrikeType DEF Quiet
<1>2. UNCHANGED faults \/ \E k \in FaultKind : Strike(k)
  BY DEF Next, Create, Delete, Disable, Enable, Sample, Snapshot, JoinWorkers, Drain,
     JoinNotifiers, Crash, Query, Put, Publish, Read, Write, Join, FaultKind, vars
<1> QED
  BY <1>1, <1>2 DEF Quiet

LEMMA PassEnvironment ==
  ASSUME TypeOK, Quiet, PassInv, NEW a \in Alarm,
         Create(a) \/ Delete(a) \/ Disable(a) \/ Enable(a) \/ Sample(a)
  PROVE  PassInv'
<1>1. /\ UNCHANGED <<pc, job, lastPublished>>
      /\ \A b \in Alarm \ {a} : alarms'[b] = alarms[b]
      /\ toggled \subseteq toggled'
  BY DEF Create, Delete, Disable, Enable, Sample, bus, TypeOK
<1>2. PassShape' /\ OneJobEach' /\ WriterLast'
  BY <1>1 DEF PassInv, PassShape, OneJobEach, WriterLast
<1>3. \/ UNCHANGED <<alarms, toggled>>
      \/ alarms[a] = "none" /\ alarms'[a] = "ok"
      \/ alarms'[a] = "gone"
      \/ alarms'[a] = "disabled" /\ a \in toggled'
      \/ alarms[a] = "disabled" /\ alarms'[a] = "ok"
  BY DEF Create, Delete, Disable, Enable, Sample, TypeOK
<1>4. Unborn' /\ NeverDisabled'
  BY <1>1, <1>3 DEF PassInv, Unborn, NeverDisabled
<1>5. SettledOrWriting'
  <2> SUFFICES ASSUME NEW b \in Alarm, b \in Stored', b \notin toggled'
               PROVE  Writing(b)' \/ Settled(b)'
    BY DEF SettledOrWriting, Stored
  <2>1. Writing(b)' <=> Writing(b)
    BY <1>1 DEF Writing
  <2>2. CASE alarms'[b] = alarms[b]
    BY <1>1, <2>1, <2>2 DEF PassInv, SettledOrWriting, Settled, Stored
  <2>3. CASE b = a /\ alarms[a] = "none" /\ alarms'[a] = "ok"
    BY <1>1, <2>3 DEF PassInv, Unborn, Settled
  <2>4. CASE b = a /\ alarms[a] = "disabled"
    BY <1>1, <2>4 DEF PassInv, NeverDisabled
  <2> QED
    BY <1>1, <1>3, <2>2, <2>3, <2>4 DEF Stored, AlarmStatus, Verdict
<1> QED
  BY <1>2, <1>4, <1>5 DEF PassInv

LEMMA PassLoop ==
  ASSUME TypeOK, Quiet, PassInv, \A k \in FaultKind : ~Strike(k),
         Snapshot \/ JoinWorkers \/ Drain \/ JoinNotifiers
  PROVE  PassInv'
<1>0. UNCHANGED <<alarms, lastPublished, toggled>>
  BY DEF Snapshot, JoinWorkers, Drain, JoinNotifiers, bus
<1>1. /\ PassShape'
      /\ \A j \in JobId : job'[j].stage \in {"read", "write"} =>
           /\ job[j].stage = job'[j].stage
           /\ job[j].verdict = job'[j].verdict
      /\ \A j \in JobId : job[j].stage \in {"read", "write"} =>
           job'[j].stage = job[j].stage
      /\ OneJobEach'
      /\ Unborn'
  <2>1. CASE Snapshot
    <3>1. /\ pc = "start" /\ pc' = "join_workers"
          /\ job' = Forked(Stored, TRUE)
      BY <2>1 DEF Snapshot, FaultKind
    <3>2. \A j \in JobId : job[j].stage = "free"
      BY <3>1 DEF PassInv, PassShape
    <3>3. \A j \in JobId :
            \/ /\ job'[j].stage = "query" /\ job'[j].awaited
               /\ j[1] \in Stored
               /\ j[2] = CHOOSE s \in FreeSlots(j[1]) : TRUE
            \/ job'[j].stage = "free"
      BY <3>1, <3>2 DEF Forked, NewJob
    <3>4. OneJobEach'
      <4>1. \A j \in JobId : j = <<j[1], j[2]>>
        BY DEF JobId
      <4>2. ASSUME NEW j \in JobId, NEW k \in JobId, j[1] = k[1],
                   job'[j].stage # "free", job'[k].stage # "free"
            PROVE  j = k
        <5>1. j[2] = CHOOSE s \in FreeSlots(j[1]) : TRUE
          BY <3>3, <4>2
        <5>2. k[2] = CHOOSE s \in FreeSlots(k[1]) : TRUE
          BY <3>3, <4>2
        <5>3. j[2] = k[2]
          BY <4>2, <5>1, <5>2
        <5> QED
          BY <4>1, <4>2, <5>3
      <4> QED
        BY <4>2 DEF OneJobEach
    <3>5. Unborn'
      BY <1>0, <3>3 DEF PassInv, Unborn, Stored, AlarmStatus, Verdict
    <3>6. PassShape'
      BY <3>1, <3>3 DEF PassShape
    <3> QED
      BY <3>2, <3>3, <3>4, <3>5, <3>6
  <2>2. CASE JoinWorkers \/ JoinNotifiers
    <3>1. job' = Abandoned
      BY <2>2 DEF JoinWorkers, JoinNotifiers
    <3>2. \A j \in JobId : job'[j].stage = job[j].stage /\ job'[j].verdict = job[j].verdict
      BY <3>1, AbandonedJobs
    <3>3. OneJobEach' /\ Unborn'
      BY <1>0, <3>2 DEF PassInv, OneJobEach, Unborn
    <3>4. ASSUME JoinWorkers PROVE PassShape'
      <4>1. pc = "join_workers" /\ pc' = "drain" /\ Awaited({"query", "put"}) = {}
        BY <3>4 DEF JoinWorkers, Join, FaultKind
      <4>2. \A j \in JobId : ~ (job[j].awaited /\ job[j].stage \in {"query", "put"})
        BY <4>1, Zenon DEF Awaited
      <4>3. \A j \in JobId : job[j].stage \in {"free", "queued"}
        <5>1. PassShape
          BY DEF PassInv
        <5>2. \A j \in JobId : /\ job[j].stage \in {"free", "query", "put", "queued"}
                               /\ job[j].stage \in {"query", "put"} => job[j].awaited
          BY <4>1, <5>1, Zenon DEF PassShape
        <5>3. \A j \in JobId : job[j].stage \notin {"query", "put"}
          BY <4>2, <5>2, Zenon
        <5> QED
          BY <5>2, <5>3
      <4> QED
        BY <3>2, <4>1, <4>3 DEF PassShape
    <3>5. ASSUME JoinNotifiers PROVE PassShape'
      <4>1. /\ pc = "join_notifiers" /\ pc' = "start"
            /\ Awaited({"publish", "read", "write"}) = {}
        BY <3>5 DEF JoinNotifiers, Join, FaultKind
      <4>2. \A j \in JobId : ~ (job[j].awaited /\ job[j].stage \in {"publish", "read", "write"})
        BY <4>1, Zenon DEF Awaited
      <4>3. \A j \in JobId : job[j].stage \in {"free"}
        <5>1. PassShape
          BY DEF PassInv
        <5>2. \A j \in JobId : /\ job[j].stage \in {"free", "publish", "read", "write"}
                               /\ job[j].stage # "free" => job[j].awaited
          BY <4>1, <5>1, Zenon DEF PassShape
        <5>3. \A j \in JobId : job[j].stage # "free" => job[j].stage \in {"publish", "read", "write"}
          BY <5>2
        <5>4. \A j \in JobId : job[j].stage # "free" => FALSE
          BY <4>2, <5>2, <5>3, Zenon
        <5> QED
          BY <5>4
      <4> QED
        BY <3>2, <4>1, <4>3 DEF PassShape
    <3>6. PassShape'
      BY <2>2, <3>4, <3>5
    <3> QED
      BY <3>2, <3>3, <3>6
  <2>3. CASE Drain
    <3>1. /\ pc = "drain" /\ pc' = "join_notifiers"
          /\ job' = Notified(Queued, TRUE)
      BY <2>3 DEF Drain, FaultKind
    <3>2. \A j \in JobId : job[j].stage \in {"free", "queued"}
      BY <3>1 DEF PassInv, PassShape
    <3>3. \A j \in JobId :
            \/ job[j].stage = "queued" /\ job'[j].stage = "publish" /\ job'[j].awaited
            \/ job[j].stage = "free" /\ job'[j].stage = "free"
      <4> SUFFICES ASSUME NEW j \in JobId
                   PROVE  \/ /\ job[j].stage = "queued"
                             /\ job'[j].stage = "publish"
                             /\ job'[j].awaited
                          \/ job[j].stage = "free" /\ job'[j].stage = "free"
        OBVIOUS
      <4>1. job[j] \in Job
        BY DEF TypeOK
      <4>2. CASE job[j].stage = "queued"
        <5>1. job'[j] = [job[j] EXCEPT !.stage = "publish", !.awaited = TRUE]
          BY <3>1, <4>2 DEF Notified, Queued
        <5>2. job'[j].stage = "publish" /\ job'[j].awaited = TRUE
          BY <4>1, <5>1 DEF Job
        <5> QED
          BY <4>2, <5>2
      <4>3. CASE job[j].stage = "free"
        <5>1. job'[j] = job[j]
          BY <3>1, <4>3 DEF Notified, Queued
        <5> QED
          BY <4>3, <5>1
      <4> QED
        BY <3>2, <4>2, <4>3
    <3>4. OneJobEach' /\ Unborn'
      BY <1>0, <3>3 DEF PassInv, OneJobEach, Unborn
    <3>5. PassShape'
      BY <3>1, <3>3 DEF PassShape
    <3> QED
      BY <3>2, <3>3, <3>4, <3>5
  <2> QED
    BY <2>1, <2>2, <2>3
<1>2. NeverDisabled' /\ WriterLast'
  BY <1>0, <1>1 DEF PassInv, NeverDisabled, WriterLast
<1>3. SettledOrWriting'
  BY <1>0, <1>1 DEF PassInv, SettledOrWriting, Settled, Writing, Stored
<1> QED
  BY <1>1, <1>2, <1>3 DEF PassInv

\* A process ends its job or moves it on within the process.
Advanced(j) ==
  /\ job[j].stage # "free"
  /\ \A k \in JobId \ {j} : job'[k] = job[k]
  /\ \/ job'[j].stage = "free" /\ job'[j].awaited = FALSE
     \/ /\ job'[j].awaited = job[j].awaited
        /\ <<job[j].stage, job'[j].stage>> \in
             {<<"query", "put">>, <<"put", "queued">>, <<"publish", "read">>,
              <<"read", "write">>}

LEMMA JobAdvances ==
  ASSUME TypeOK, NEW j \in JobId, Run(j)
  PROVE  Advanced(j)
<1>1. \/ job' = [job EXCEPT ![j] = Free]
      \/ job[j].stage = "query" /\
         \E v \in Verdict : job' = [job EXCEPT ![j].stage = "put", ![j].verdict = v]
      \/ job[j].stage = "put" /\ job' = [job EXCEPT ![j].stage = "queued"]
      \/ job[j].stage = "publish" /\ job' = [job EXCEPT ![j].stage = "read"]
      \/ job[j].stage = "read" /\ job' = [job EXCEPT ![j].stage = "write"]
  BY VerdictType DEF Run, Query, Judge, Put, Publish, Read, Write, Exit, Advance
<1>2. job[j].stage # "free"
  BY DEF Run, Query, Put, Publish, Read, Write
<1>3. CASE job' = [job EXCEPT ![j] = Free]
  BY <1>2, <1>3 DEF Advanced, TypeOK, Free
<1>4. CASE job' # [job EXCEPT ![j] = Free]
  BY <1>1, <1>2, <1>4 DEF Advanced, TypeOK, Job
<1> QED
  BY <1>3, <1>4
LEMMA PassProcess ==
  ASSUME TypeOK, Quiet, PassInv, \A k \in FaultKind : ~Strike(k),
         NEW j \in JobId, Run(j)
  PROVE  PassInv'
<1>0. /\ j[1] \in Alarm
      /\ job[j] \in Job
      /\ UNCHANGED <<pc, toggled>>
  BY DEF TypeOK, JobId, Run, Query, Put, Publish, Read, Write
<1>1. /\ job[j].stage # "free"
      /\ \A k \in JobId \ {j} : job'[k] = job[k]
      /\ \/ job'[j].stage = "free"
         \/ /\ job'[j].awaited = job[j].awaited
            /\ <<job[j].stage, job'[j].stage>> \in
                 {<<"query", "put">>, <<"put", "queued">>, <<"publish", "read">>,
                  <<"read", "write">>}
  BY JobAdvances, Zenon DEF Advanced
<1>2. PassShape'
  BY <1>0, <1>1 DEF PassInv, PassShape
<1>3. OneJobEach'
  BY <1>1 DEF PassInv, OneJobEach
\* What it does to the bus and to the alarm.
<1>4. /\ \A a \in Alarm \ {j[1]} : alarms'[a] = alarms[a] /\ lastPublished'[a] = lastPublished[a]
      /\ alarms[j[1]] # "none"
      /\ alarms'[j[1]] # "none"
      /\ alarms'[j[1]] = "disabled" => alarms[j[1]] = "disabled"
  <2>1. alarms[j[1]] # "none"
    BY <1>0, <1>1 DEF PassInv, Unborn
  <2>2. \/ UNCHANGED alarms
        \/ alarms' = [alarms EXCEPT ![j[1]] = job[j].verdict]
    BY DEF Run, Query, Put, Publish, Read, Write, SetStatus
  <2>3. \/ UNCHANGED lastPublished
        \/ lastPublished' = [lastPublished EXCEPT ![j[1]] = job[j].verdict]
    BY DEF Run, Query, Put, Publish, Read, Write, Notify, bus
  <2> QED
    BY <1>0, <2>1, <2>2, <2>3 DEF TypeOK, Job, Verdict
<1>5. Unborn' /\ NeverDisabled'
  BY <1>0, <1>1, <1>4 DEF PassInv, Unborn, NeverDisabled
\* The job's own alarm; the others keep their jobs, status and notification.
<1>6. /\ job'[j].stage \in {"read", "write"} => job'[j].verdict = lastPublished'[j[1]]
      /\ (\E k \in JobId : k # j /\ k[1] = j[1] /\ job[k].stage # "free") => FALSE
      /\ j[1] \in Stored' \ toggled' => Writing(j[1])' \/ Settled(j[1])'
  <2>1. \A k \in JobId : k[1] = j[1] /\ job[k].stage # "free" => k = j
    BY <1>1 DEF PassInv, OneJobEach
  <2>2. CASE Query(j) \/ Put(j)
    <3>1. UNCHANGED <<alarms, lastPublished>> /\ job[j].stage \in {"query", "put"}
      BY <2>2 DEF Query, Put, bus
    <3>2. ~Writing(j[1])
      BY <2>1, <3>1 DEF Writing
    <3> QED
      BY <1>0, <1>1, <2>1, <3>1, <3>2 DEF PassInv, SettledOrWriting, Settled, Stored
  <2>3. CASE Publish(j)
    <3>1. /\ lastPublished' = [lastPublished EXCEPT ![j[1]] = job[j].verdict]
          /\ job' = [job EXCEPT ![j].stage = "read"]
      BY <2>3 DEF Publish, Notify, Advance, FaultKind
    <3>2. job'[j].stage = "read" /\ job'[j].verdict = lastPublished'[j[1]]
      BY <1>0, <3>1 DEF TypeOK, Job
    <3> QED
      BY <2>1, <3>2 DEF Writing
  <2>4. CASE Read(j)
    <3>1. /\ UNCHANGED <<alarms, lastPublished>>
          /\ job[j].stage = "read"
          /\ \/ job' = [job EXCEPT ![j].stage = "write"]
             \/ /\ ~(j[1] \in Stored /\ alarms[j[1]] # "disabled")
                /\ job' = [job EXCEPT ![j] = Free]
      BY <2>4 DEF Read, Advance, Exit, FaultKind, bus
    <3>2. CASE job' = [job EXCEPT ![j].stage = "write"]
      <4>1. job'[j].stage = "write" /\ job'[j].verdict = lastPublished'[j[1]]
        BY <1>0, <3>1, <3>2 DEF TypeOK, Job, PassInv, WriterLast
      <4> QED
        BY <2>1, <4>1 DEF Writing
    <3>3. CASE job' = [job EXCEPT ![j] = Free] /\ ~(j[1] \in Stored /\ alarms[j[1]] # "disabled")
      <4>1. job'[j].stage = "free"
        BY <3>3 DEF TypeOK, Free
      <4>2. j[1] \notin Stored' \ toggled'
        BY <1>0, <3>1, <3>3 DEF PassInv, NeverDisabled, Stored
      <4> QED
        BY <2>1, <4>1, <4>2
    <3> QED
      BY <3>1, <3>2, <3>3
  <2>5. CASE Write(j)
    <3>1. /\ alarms' = IF j[1] \in Stored THEN [alarms EXCEPT ![j[1]] = job[j].verdict] ELSE alarms
          /\ UNCHANGED lastPublished
          /\ job[j].stage = "write"
          /\ job' = [job EXCEPT ![j] = Free]
      BY <2>5 DEF Write, SetStatus, Exit, FaultKind, bus
    <3>2. job'[j].stage = "free"
      BY <3>1 DEF TypeOK, Free
    <3>3. job[j].verdict = lastPublished[j[1]] /\ lastPublished[j[1]] # "none"
      BY <1>0, <3>1 DEF PassInv, WriterLast, Job, Verdict
    <3>4. j[1] \in Stored' => Settled(j[1])'
      BY <1>0, <3>1, <3>3 DEF Settled, Stored, TypeOK
    <3> QED
      BY <2>1, <3>2, <3>4
  <2> QED
    BY <2>2, <2>3, <2>4, <2>5 DEF Run
<1>7. WriterLast'
  BY <1>1, <1>4, <1>6 DEF PassInv, WriterLast, JobId
<1>8. SettledOrWriting'
  <2> SUFFICES ASSUME NEW a \in Alarm \ {j[1]}, a \in Stored' \ toggled'
               PROVE  Writing(a)' \/ Settled(a)'
    BY <1>6 DEF SettledOrWriting, Stored
  <2>1. a \in Stored \ toggled
    BY <1>0, <1>4 DEF Stored
  <2>2. Writing(a) => Writing(a)'
    BY <1>1 DEF Writing
  <2> QED
    BY <1>4, <2>1, <2>2 DEF PassInv, SettledOrWriting, Settled
<1> QED
  BY <1>2, <1>3, <1>5, <1>7, <1>8 DEF PassInv

LEMMA PassStep == TypeOK /\ PassInv /\ [Next]_vars => PassInv'
<1> SUFFICES ASSUME TypeOK, PassInv, [Next]_vars, Quiet'
             PROVE  PassInv'
  BY DEF PassInv
<1>1. Quiet /\ \A k \in FaultKind : ~Strike(k)
  BY QuietBefore
<1>2. ASSUME NEW a \in Alarm,
             Create(a) \/ Delete(a) \/ Disable(a) \/ Enable(a) \/ Sample(a)
      PROVE  PassInv'
  BY <1>1, <1>2, PassEnvironment
<1>3. CASE Snapshot \/ JoinWorkers \/ Drain \/ JoinNotifiers
  BY <1>1, <1>3, PassLoop
<1>4. ~Crash
  BY <1>1 DEF Crash, FaultKind
<1>5. ASSUME NEW j \in JobId, Run(j)
      PROVE  PassInv'
  BY <1>1, <1>5, PassProcess
<1>6. CASE UNCHANGED vars
  BY <1>6 DEF vars, bus, PassInv, Quiet, PassShape, OneJobEach, Unborn, NeverDisabled,
     WriterLast, SettledOrWriting, Writing, Settled, Stored
<1> QED
  BY <1>2, <1>3, <1>4, <1>5, <1>6 DEF Next, Run

\* As long as nothing fails, the database and the bus agree on every alarm whenever
\* the loop is between two passes, for any number of alarms.
THEOREM PassesAgree == Spec => []Agreement
<1>1. Init => PassInv
  BY PassInit
<1>2. TypeOK /\ PassInv /\ [Next]_vars => PassInv'
  BY PassStep
<1>3. PassInv => Agreement
  <2> SUFFICES ASSUME PassInv, Quiet, NEW a \in Stored \ toggled, pc = "start"
               PROVE  Settled(a)
    BY DEF Agreement, Quiet, Settled
  <2>1. ~Writing(a)
    BY DEF PassInv, PassShape, Writing
  <2> QED
    BY <2>1 DEF PassInv, SettledOrWriting
<1> QED
  BY <1>1, <1>2, <1>3, TypeCorrect, PTL DEF Spec

-----------------------------------------------------------------------------
(* Processes that pile up.  Between two passes every live process of an    *)
(* alarm was left behind by a join that timed out or by a fork that        *)
(* failed.  During a pass the processes the loop still waits for, and the  *)
(* verdicts it is about to take from the queue, are not left behind yet.   *)

OfPass(j) ==
  \/ pc \in {"join_workers", "join_notifiers"} /\ job[j].awaited
  \/ pc = "drain" /\ job[j].stage = "queued"

Behind(a) == {s \in Live(a) : ~OfPass(<<a, s>>)}

Lost == faults["timeout"] + faults["fork"]

AwaitedShape ==
  \A j \in JobId : job[j].awaited =>
    \/ pc = "join_workers" /\ job[j].stage \in {"query", "put", "queued"}
    \/ pc = "join_notifiers" /\ job[j].stage \in {"publish", "read", "write"}

FewLive == \A a \in Alarm : IsFiniteSet(Live(a)) /\ Cardinality(Live(a)) <= 1 + Lost

FewBehind == \A a \in Alarm : Cardinality(Behind(a)) <= Lost

PileInv == AwaitedShape /\ FewLive /\ FewBehind

LEMMA LostCounts == TypeOK => Lost \in Nat
BY DEF TypeOK, Lost, FaultKind

\* A part of a finite set is no larger, and one more element adds one at most.
LEMMA NoMore ==
  ASSUME NEW S, NEW T, IsFiniteSet(S), T \subseteq S
  PROVE  /\ IsFiniteSet(T)
         /\ Cardinality(T) \in Nat /\ Cardinality(S) \in Nat
         /\ Cardinality(T) <= Cardinality(S)
BY FS_Subset, FS_CardinalityType

LEMMA OneMore ==
  ASSUME NEW S, NEW T, NEW x, IsFiniteSet(S), T \subseteq S \cup {x}
  PROVE  /\ IsFiniteSet(T)
         /\ Cardinality(T) \in Nat /\ Cardinality(S) \in Nat
         /\ Cardinality(T) <= Cardinality(S) + 1
<1>1. /\ IsFiniteSet(S \cup {x})
      /\ Cardinality(S \cup {x}) \in {Cardinality(S), Cardinality(S) + 1}
  BY FS_AddElement
<1>2. Cardinality(S) \in Nat
  BY FS_CardinalityType
<1> QED
  BY <1>1, <1>2, NoMore

\* The three ways a step keeps the two counts: nothing is added; a fault pays
\* for whatever the pass leaves behind or adds; a pass begins.
LEMMA PileKept ==
  ASSUME TypeOK, TypeOK', FewLive, FewBehind, Lost' = Lost,
         \A a \in Alarm : Live(a)' \subseteq Live(a) /\ Behind(a)' \subseteq Behind(a)
  PROVE  FewLive' /\ FewBehind'
<1> SUFFICES ASSUME NEW a \in Alarm
             PROVE  /\ IsFiniteSet(Live(a)') /\ Cardinality(Live(a)') <= 1 + Lost'
                    /\ Cardinality(Behind(a)') <= Lost'
  BY DEF FewLive, FewBehind
<1>1. /\ IsFiniteSet(Live(a)') /\ Cardinality(Live(a)') \in Nat
      /\ Cardinality(Live(a)) \in Nat
      /\ Cardinality(Live(a)') <= Cardinality(Live(a))
  BY NoMore DEF FewLive
<1>2. Behind(a) \subseteq Live(a)
  BY DEF Behind
<1>3. /\ Cardinality(Behind(a)') \in Nat /\ Cardinality(Behind(a)) \in Nat
      /\ Cardinality(Behind(a)') <= Cardinality(Behind(a))
  BY <1>2, NoMore DEF FewLive
<1> QED
  BY <1>1, <1>3, LostCounts DEF FewLive, FewBehind

LEMMA PilePaid ==
  ASSUME TypeOK, TypeOK', FewLive, Lost' = Lost + 1,
         \A a \in Alarm : Live(a)' \subseteq Live(a)
  PROVE  FewLive' /\ FewBehind'
<1> SUFFICES ASSUME NEW a \in Alarm
             PROVE  /\ IsFiniteSet(Live(a)') /\ Cardinality(Live(a)') <= 1 + Lost'
                    /\ Cardinality(Behind(a)') <= Lost'
  BY DEF FewLive, FewBehind
<1>1. /\ IsFiniteSet(Live(a)') /\ Cardinality(Live(a)') \in Nat
      /\ Cardinality(Live(a)) \in Nat
      /\ Cardinality(Live(a)') <= Cardinality(Live(a))
  BY NoMore DEF FewLive
<1>2. Behind(a)' \subseteq Live(a)'
  BY DEF Behind
<1>3. /\ Cardinality(Behind(a)') \in Nat
      /\ Cardinality(Behind(a)') <= Cardinality(Live(a)')
  BY <1>1, <1>2, NoMore
<1> QED
  BY <1>1, <1>3, LostCounts DEF FewLive

LEMMA PileBegun ==
  ASSUME TypeOK, TypeOK', FewLive, FewBehind,
         \A a \in Alarm : /\ Behind(a) = Live(a)
                          /\ \E s : Live(a)' \subseteq Live(a) \cup {s},
         \/ Lost' = Lost /\ \A a \in Alarm : Behind(a)' \subseteq Live(a)
         \/ Lost' = Lost + 1
  PROVE  FewLive' /\ FewBehind'
<1> SUFFICES ASSUME NEW a \in Alarm
             PROVE  /\ IsFiniteSet(Live(a)') /\ Cardinality(Live(a)') <= 1 + Lost'
                    /\ Cardinality(Behind(a)') <= Lost'
  BY DEF FewLive, FewBehind
<1>0. IsFiniteSet(Live(a)) /\ Cardinality(Live(a)) <= Lost
  BY DEF FewLive, FewBehind
<1>1. PICK s : Live(a)' \subseteq Live(a) \cup {s}
  OBVIOUS
<1>2. /\ IsFiniteSet(Live(a)') /\ Cardinality(Live(a)') \in Nat
      /\ Cardinality(Live(a)) \in Nat
      /\ Cardinality(Live(a)') <= Cardinality(Live(a)) + 1
  BY <1>0, <1>1, OneMore
<1>3. Behind(a)' \subseteq Live(a)'
  BY DEF Behind
<1>4. /\ Cardinality(Behind(a)') \in Nat
      /\ Cardinality(Behind(a)') <= Cardinality(Live(a)')
  BY <1>2, <1>3, NoMore
<1>5. CASE Lost' = Lost /\ Behind(a)' \subseteq Live(a)
  <2>1. Cardinality(Behind(a)') <= Cardinality(Live(a))
    BY <1>0, <1>5, NoMore
  <2> QED
    BY <1>0, <1>2, <1>4, <1>5, <2>1, LostCounts
<1>6. CASE Lost' = Lost + 1
  BY <1>0, <1>2, <1>4, <1>6, LostCounts
<1> QED
  BY <1>5, <1>6

LEMMA LostStrikes ==
  ASSUME TypeOK, NEW k \in FaultKind, Strike(k)
  PROVE  Lost' = IF k \in {"timeout", "fork"} THEN Lost + 1 ELSE Lost
BY DEF TypeOK, Strike, Lost, FaultKind

LEMMA JobOfSlot == \A a \in Alarm, s \in Slot : <<a, s>> \in JobId /\ <<a, s>>[1] = a
BY DEF JobId

\* What the forks of a pass do to the processes of one alarm.
LEMMA ForkedLive ==
  ASSUME TypeOK, NEW S, NEW w \in BOOLEAN, job' = Forked(S, w), NEW a \in Alarm
  PROVE  /\ \E s : Live(a)' \subseteq Live(a) \cup {s}
         /\ \A s \in Live(a)' \ Live(a) : job'[<<a, s>>].awaited = w
<1> DEFINE new == CHOOSE s \in FreeSlots(a) : TRUE
<1>1. \A s \in Slot : s # new => job'[<<a, s>>] = job[<<a, s>>]
  BY JobOfSlot DEF Forked
<1>2. \A s \in Slot : \/ job'[<<a, s>>] = job[<<a, s>>]
                      \/ job'[<<a, s>>].awaited = w
  BY JobOfSlot DEF Forked, NewJob
<1> HIDE DEF new
<1>3. Live(a)' \subseteq Live(a) \cup {new}
  BY <1>1 DEF Live
<1>4. \A s \in Live(a)' \ Live(a) : job'[<<a, s>>].awaited = w
  BY <1>2 DEF Live
<1> QED
  BY <1>3, <1>4

LEMMA ForkedAwaited ==
  ASSUME TypeOK, NEW S, NEW w \in BOOLEAN, job' = Forked(S, w)
  PROVE  \A j \in JobId : job'[j] = job[j] \/ (job'[j].stage = "query" /\ job'[j].awaited = w)
BY DEF Forked, NewJob

LEMMA PileSnapshot ==
  ASSUME TypeOK, TypeOK', PileInv, Snapshot
  PROVE  PileInv'
<1>0. pc = "start" /\ \A j \in JobId : ~job[j].awaited
  BY DEF Snapshot, PileInv, AwaitedShape
<1>1. \A a \in Alarm : Behind(a) = Live(a)
  BY <1>0 DEF Behind, OfPass
<1>2. CASE job' = Forked(Stored, TRUE) /\ pc' = "join_workers" /\ UNCHANGED faults
  <2>1. Lost' = Lost
    BY <1>2 DEF Lost
  <2>2. \A a \in Alarm : \E s : Live(a)' \subseteq Live(a) \cup {s}
    BY <1>2, ForkedLive
  <2>3. \A a \in Alarm : Behind(a)' \subseteq Live(a)
    <3> SUFFICES ASSUME NEW a \in Alarm, NEW s \in Live(a)', ~OfPass(<<a, s>>)', s \notin Live(a)
                 PROVE  FALSE
      BY DEF Behind
    <3>1. job'[<<a, s>>].awaited = TRUE
      BY <1>2, ForkedLive
    <3> QED
      BY <1>2, <3>1 DEF OfPass
  <2>4. FewLive' /\ FewBehind'
    BY <1>1, <2>1, <2>2, <2>3, PileBegun DEF PileInv
  <2>5. AwaitedShape'
    BY <1>0, <1>2, ForkedAwaited DEF AwaitedShape
  <2> QED
    BY <2>4, <2>5 DEF PileInv
<1>3. CASE Strike("db") /\ UNCHANGED <<pc, job>>
  <2>1. Lost' = Lost
    BY <1>3, LostStrikes DEF FaultKind
  <2>2. \A a \in Alarm : Live(a)' = Live(a) /\ Behind(a)' = Behind(a)
    BY <1>3 DEF Live, Behind, OfPass
  <2>3. FewLive' /\ FewBehind'
    BY <2>1, <2>2, PileKept DEF PileInv
  <2>4. AwaitedShape'
    BY <1>3 DEF PileInv, AwaitedShape
  <2> QED
    BY <2>3, <2>4 DEF PileInv
<1>4. ASSUME Strike("fork"), NEW S, job' = Forked(S, FALSE), UNCHANGED pc
      PROVE  PileInv'
  <2>1. Lost' = Lost + 1
    BY <1>4, LostStrikes DEF FaultKind
  <2>2. \A a \in Alarm : \E s : Live(a)' \subseteq Live(a) \cup {s}
    BY <1>4, ForkedLive
  <2>3. FewLive' /\ FewBehind'
    BY <1>1, <2>1, <2>2, PileBegun DEF PileInv
  <2>4. AwaitedShape'
    BY <1>0, <1>4, ForkedAwaited DEF AwaitedShape
  <2> QED
    BY <2>3, <2>4 DEF PileInv
<1> QED
  BY <1>2, <1>3, <1>4 DEF Snapshot

LEMMA PileJoin ==
  ASSUME TypeOK, TypeOK', PileInv, JoinWorkers \/ JoinNotifiers
  PROVE  PileInv'
<1>0. job' = Abandoned
  BY DEF JoinWorkers, JoinNotifiers
<1>1. \A j \in JobId : job'[j].stage = job[j].stage /\ ~job'[j].awaited
  BY <1>0, AbandonedJobs
<1>2. AwaitedShape'
  BY <1>1 DEF AwaitedShape
<1>3. \A a \in Alarm : Live(a)' = Live(a)
  BY <1>1, JobOfSlot DEF Live
<1>4. CASE Strike("timeout")
  <2>1. Lost' = Lost + 1
    BY <1>4, LostStrikes DEF FaultKind
  <2> QED
    BY <1>2, <1>3, <2>1, PilePaid DEF PileInv
<1>5. CASE UNCHANGED faults
  <2>1. Lost' = Lost
    BY <1>5 DEF Lost
  <2>2. \A a \in Alarm : \A s \in Live(a) : OfPass(<<a, s>>) => OfPass(<<a, s>>)'
    <3> SUFFICES ASSUME NEW a \in Alarm, NEW s \in Live(a), OfPass(<<a, s>>)
                 PROVE  OfPass(<<a, s>>)'
      OBVIOUS
    <3>1. <<a, s>> \in JobId /\ job[<<a, s>>].stage # "free"
      BY JobOfSlot DEF Live
    <3>2. CASE JoinWorkers
      <4>1. pc = "join_workers" /\ pc' = "drain" /\ Awaited({"query", "put"}) = {}
        BY <1>5, <3>2, StrikeType DEF JoinWorkers, Join, Strike, TypeOK, FaultKind
      <4>2. \A j \in JobId : ~ (job[j].awaited /\ job[j].stage \in {"query", "put"})
        BY <4>1, Zenon DEF Awaited
      <4>3. job[<<a, s>>].awaited
        BY <4>1 DEF OfPass
      <4>4. job[<<a, s>>].stage = "queued"
        BY <3>1, <4>1, <4>2, <4>3 DEF PileInv, AwaitedShape
      <4> QED
        BY <1>1, <3>1, <4>1, <4>4 DEF OfPass
    <3>3. CASE JoinNotifiers
      <4>1. pc = "join_notifiers" /\ Awaited({"publish", "read", "write"}) = {}
        BY <1>5, <3>3, StrikeType DEF JoinNotifiers, Join, Strike, TypeOK, FaultKind
      <4>2. \A j \in JobId : ~ (job[j].awaited /\ job[j].stage \in {"publish", "read", "write"})
        BY <4>1, Zenon DEF Awaited
      <4>3. job[<<a, s>>].awaited
        BY <4>1 DEF OfPass
      <4> QED
        BY <3>1, <4>1, <4>2, <4>3 DEF PileInv, AwaitedShape
    <3> QED
      BY <3>2, <3>3
  <2>3. \A a \in Alarm : Behind(a)' \subseteq Behind(a)
    BY <1>3, <2>2 DEF Behind
  <2> QED
    BY <1>2, <1>3, <2>1, <2>3, PileKept DEF PileInv
<1> QED
  BY <1>4, <1>5 DEF JoinWorkers, JoinNotifiers, Join

LEMMA PileDrain ==
  ASSUME TypeOK, TypeOK', PileInv, Drain
  PROVE  PileInv'
<1>0. pc = "drain" /\ \A j \in JobId : ~job[j].awaited
  BY DEF Drain, PileInv, AwaitedShape
<1>1. ASSUME NEW S \in SUBSET Queued, NEW w \in BOOLEAN, job' = Notified(S, w)
      PROVE  /\ \A j \in JobId : \/ job[j].stage # "queued" /\ job'[j] = job[j]
                                 \/ /\ job[j].stage = "queued"
                                    /\ job'[j] = Free
                                 \/ /\ job[j].stage = "queued"
                                    /\ job'[j].stage = "publish" /\ job'[j].awaited = w
             /\ \A a \in Alarm : Live(a)' \subseteq Live(a)
  <2>1. \A j \in JobId : job[j] \in Job
    BY DEF TypeOK
  <2>2. \A j \in JobId :
          /\ job[j].stage # "queued" => job'[j] = job[j]
          /\ job[j].stage = "queued" =>
               \/ job'[j] = Free
               \/ job'[j] = [job[j] EXCEPT !.stage = "publish", !.awaited = w]
    BY <1>1 DEF Notified, Queued
  <2>3. \A j \in JobId :
          [job[j] EXCEPT !.stage = "publish", !.awaited = w].stage = "publish" /\
          [job[j] EXCEPT !.stage = "publish", !.awaited = w].awaited = w
    BY <2>1 DEF Job
  <2>4. \A j \in JobId : \/ job[j].stage # "queued" /\ job'[j] = job[j]
                         \/ job[j].stage = "queued" /\ job'[j] = Free
                         \/ /\ job[j].stage = "queued"
                            /\ job'[j].stage = "publish" /\ job'[j].awaited = w
    BY <2>2, <2>3
  <2>5. \A a \in Alarm : Live(a)' \subseteq Live(a)
    BY <2>4, JobOfSlot, FreeJob DEF Live
  <2> QED
    BY <2>4, <2>5
<1>2. CASE job' = Notified(Queued, TRUE) /\ pc' = "join_notifiers" /\ UNCHANGED faults
  <2>1. Lost' = Lost
    BY <1>2 DEF Lost
  <2>2. \A j \in JobId : \/ job[j].stage # "queued" /\ job'[j] = job[j]
                         \/ /\ job[j].stage = "queued"
                            /\ job'[j].stage = "publish" /\ job'[j].awaited = TRUE
    <3>1. \A j \in JobId : job[j].stage = "queued" =>
            job'[j] = [job[j] EXCEPT !.stage = "publish", !.awaited = TRUE]
      BY <1>2 DEF Notified, Queued
    <3>2. \A j \in JobId : job[j] \in Job
      BY DEF TypeOK
    <3>3. \A j \in JobId : job[j].stage = "queued" =>
            job'[j].stage = "publish" /\ job'[j].awaited = TRUE
      BY <3>1, <3>2, ZenonT(30) DEF Job
    <3>4. \A j \in JobId : job[j].stage # "queued" => job'[j] = job[j]
      BY <1>2 DEF Notified, Queued
    <3> QED
      BY <3>3, <3>4
  <2>3. \A a \in Alarm : Live(a)' \subseteq Live(a)
    BY <1>1, <1>2
  <2>4. \A a \in Alarm : Behind(a)' \subseteq Behind(a)
    <3> SUFFICES ASSUME NEW a \in Alarm, NEW s \in Live(a), ~OfPass(<<a, s>>)'
                 PROVE  ~OfPass(<<a, s>>)
      BY <2>3 DEF Behind
    <3>1. <<a, s>> \in JobId
      BY JobOfSlot DEF Live
    <3> QED
      BY <1>0, <1>2, <2>2, <3>1 DEF OfPass
  <2>5. FewLive' /\ FewBehind'
    BY <2>1, <2>3, <2>4, PileKept DEF PileInv
  <2>6. AwaitedShape'
    BY <1>0, <1>2, <2>2 DEF AwaitedShape
  <2> QED
    BY <2>5, <2>6 DEF PileInv
<1>3. ASSUME Strike("fork"), NEW S \in SUBSET Queued, job' = Notified(S, FALSE)
      PROVE  PileInv'
  <2>1. Lost' = Lost + 1
    BY <1>3, LostStrikes DEF FaultKind
  <2>2. \A a \in Alarm : Live(a)' \subseteq Live(a)
    BY <1>1, <1>3
  <2>3. \A j \in JobId : ~job'[j].awaited
    <3>1. \A j \in JobId : \/ job'[j] = job[j]
                           \/ job'[j] = Free
                           \/ job'[j].awaited = FALSE
      BY <1>1, <1>3
    <3>2. Free.awaited = FALSE
      BY DEF Free
    <3> QED
      BY <1>0, <3>1, <3>2
  <2>4. AwaitedShape'
    BY <2>3 DEF AwaitedShape
  <2> QED
    BY <2>1, <2>2, <2>4, PilePaid DEF PileInv
<1> QED
  BY <1>2, <1>3 DEF Drain

LEMMA PileCrash ==
  ASSUME TypeOK, TypeOK', PileInv, Crash
  PROVE  PileInv'
<1>1. Lost' = Lost
  BY LostStrikes DEF Crash, FaultKind
<1>2. \A j \in JobId : job'[j] = Free
  BY DEF Crash
<1>3. \A a \in Alarm : Live(a)' = {}
  BY <1>2, JobOfSlot, FreeJob DEF Live
<1>4. \A a \in Alarm : Behind(a)' = {}
  BY <1>3 DEF Behind
<1>5. FewLive' /\ FewBehind'
  BY <1>1, <1>3, <1>4, PileKept DEF PileInv
<1>6. AwaitedShape'
  BY <1>2 DEF AwaitedShape, Free
<1> QED
  BY <1>5, <1>6 DEF PileInv

LEMMA PileProcess ==
  ASSUME TypeOK, TypeOK', PileInv, NEW j \in JobId, Run(j)
  PROVE  PileInv'
<1>1. /\ job[j].stage # "free"
      /\ \A k \in JobId \ {j} : job'[k] = job[k]
      /\ \/ job'[j].stage = "free" /\ job'[j].awaited = FALSE
         \/ /\ job'[j].awaited = job[j].awaited
            /\ <<job[j].stage, job'[j].stage>> \in
                 {<<"query", "put">>, <<"put", "queued">>, <<"publish", "read">>,
                  <<"read", "write">>}
  BY JobAdvances, Zenon DEF Advanced
<1>2. pc' = pc
  BY DEF Run, Query, Put, Publish, Read, Write
<1>3. Lost' = Lost
  <2>1. \/ UNCHANGED faults
        \/ Strike("query") \/ Strike("db") \/ Strike("bus")
    BY DEF Run, Query, Put, Publish, Read, Write
  <2>2. UNCHANGED faults => Lost' = Lost
    BY DEF Lost
  <2> QED
    BY <2>1, <2>2, LostStrikes DEF FaultKind
<1>4. \A k \in JobId : job'[k].stage # "free" =>
        /\ job[k].stage # "free"
        /\ job'[k].awaited = job[k].awaited
        /\ job[k].stage = "queued" => job'[k].stage = "queued"
  BY <1>1
<1>5. \A a \in Alarm : Live(a)' \subseteq Live(a)
  BY <1>4, JobOfSlot DEF Live
<1>6. \A a \in Alarm : Behind(a)' \subseteq Behind(a)
  <2> SUFFICES ASSUME NEW a \in Alarm, NEW s \in Live(a)', OfPass(<<a, s>>)
               PROVE  OfPass(<<a, s>>)'
    BY <1>5 DEF Behind
  <2>1. <<a, s>> \in JobId /\ job'[<<a, s>>].stage # "free"
    BY JobOfSlot DEF Live
  <2> QED
    BY <1>2, <1>4, <2>1 DEF OfPass
<1>7. FewLive' /\ FewBehind'
  BY <1>3, <1>5, <1>6, PileKept DEF PileInv
<1>8. AwaitedShape'
  BY <1>1, <1>2 DEF PileInv, AwaitedShape
<1> QED
  BY <1>7, <1>8 DEF PileInv

LEMMA PileInit == Init => PileInv
<1> SUFFICES ASSUME Init PROVE PileInv
  OBVIOUS
<1>1. \A a \in Alarm : Live(a) = {}
  BY JobOfSlot, FreeJob DEF Init, Live
<1>2. \A a \in Alarm : Behind(a) = {}
  BY <1>1 DEF Behind
<1>3. Lost = 0
  BY DEF Init, Lost, FaultKind
<1>4. FewLive /\ FewBehind
  BY <1>1, <1>2, <1>3, FS_EmptySet DEF FewLive, FewBehind
<1> QED
  BY <1>4 DEF Init, PileInv, AwaitedShape, Free

LEMMA PileStep ==
  ASSUME TypeOK, TypeOK', PileInv, [Next]_vars
  PROVE  PileInv'
<1>1. CASE UNCHANGED <<pc, job, faults>>
  <2>1. UNCHANGED <<AwaitedShape, Lost>>
    BY <1>1 DEF AwaitedShape, Lost
  <2>2. \A a \in Alarm : Live(a)' = Live(a) /\ Behind(a)' = Behind(a)
    BY <1>1 DEF Live, Behind, OfPass
  <2> QED
    BY <2>1, <2>2, PileKept DEF PileInv
<1>2. ASSUME NEW a \in Alarm,
             Create(a) \/ Delete(a) \/ Disable(a) \/ Enable(a) \/ Sample(a)
      PROVE  UNCHANGED <<pc, job, faults>>
  BY <1>2 DEF Create, Delete, Disable, Enable, Sample
<1>3. CASE UNCHANGED vars
  BY <1>1, <1>3 DEF vars
<1> QED
  BY <1>1, <1>2, <1>3, PileSnapshot, PileJoin, PileDrain, PileCrash, PileProcess DEF Next, Run

LEMMA Piles == Spec => []PileInv
<1>1. Init => PileInv
  BY PileInit
<1>2. TypeOK /\ TypeOK' /\ PileInv /\ [Next]_vars => PileInv'
  BY PileStep
<1> QED
  BY <1>1, <1>2, TypeCorrect, PTL DEF Spec

\* The processes of an alarm never outnumber the joins that timed out and the
\* forks that failed by more than one, for any number of alarms and faults.
THEOREM ProcessesBounded == Spec => []OutstandingBounded
<1>1. TypeOK /\ PileInv => OutstandingBounded
  <2> SUFFICES ASSUME TypeOK, FewLive, NEW a \in Alarm
               PROVE  Cardinality(Live(a)) <= 1 + faults["timeout"] + faults["fork"]
    BY DEF PileInv, OutstandingBounded
  <2>1. faults["timeout"] \in Nat /\ faults["fork"] \in Nat
    BY DEF TypeOK, FaultKind
  <2>2. Cardinality(Live(a)) \in Nat /\ Cardinality(Live(a)) <= 1 + Lost
    BY FS_CardinalityType DEF FewLive
  <2> QED
    BY <2>1, <2>2 DEF Lost
<1> QED
  BY <1>1, TypeCorrect, Piles, PTL

-----------------------------------------------------------------------------
(* Stale verdicts.  While an alarm is disabled no evaluation of it turns   *)
(* loud: those that were not muted when it was disabled are all that can   *)
(* still notify it, each once.                                             *)

\* The evaluations that may yet publish a verdict.
Loud(a) == {s \in Slot : \/ job[<<a, s>>].stage \in {"put", "queued", "publish"}
                         \/ job[<<a, s>>].stage = "query" /\ ~job[<<a, s>>].muted}

LateInv ==
  \A a \in Alarm : alarms[a] = "disabled" => late[a] + Cardinality(Loud(a)) <= 1 + Lost

LEMMA LoudAmongLive ==
  ASSUME FewLive, NEW a \in Alarm
  PROVE  /\ IsFiniteSet(Loud(a)) /\ Cardinality(Loud(a)) \in Nat
         /\ Cardinality(Loud(a)) <= Cardinality(Live(a))
         /\ Cardinality(Live(a)) \in Nat
<1>1. Loud(a) \subseteq Live(a)
  BY DEF Loud, Live
<1> QED
  BY <1>1, NoMore DEF FewLive

\* What it takes to keep the count of an alarm that stays disabled.
LEMMA LateKept ==
  ASSUME TypeOK, TypeOK', FewLive, LateInv, Lost' \in Nat, Lost <= Lost',
         NEW a \in Alarm, alarms[a] = "disabled", late'[a] = late[a],
         Loud(a)' \subseteq Loud(a)
  PROVE  late'[a] + Cardinality(Loud(a)') <= 1 + Lost'
<1>1. /\ Cardinality(Loud(a)') \in Nat /\ Cardinality(Loud(a)) \in Nat
      /\ Cardinality(Loud(a)') <= Cardinality(Loud(a))
  BY LoudAmongLive, NoMore
<1>2. late[a] \in Nat /\ Lost \in Nat
  BY LostCounts DEF TypeOK
<1> QED
  BY <1>1, <1>2 DEF LateInv

LEMMA LostGrows ==
  ASSUME TypeOK, [Next]_vars
  PROVE  Lost' \in Nat /\ Lost <= Lost'
<1>1. Lost \in Nat
  BY LostCounts
<1>2. UNCHANGED faults \/ \E k \in FaultKind : Strike(k)
  BY DEF Next, Create, Delete, Disable, Enable, Sample, Snapshot, JoinWorkers, Drain,
     JoinNotifiers, Crash, Query, Put, Publish, Read, Write, Join, FaultKind, vars
<1>3. CASE UNCHANGED faults
  BY <1>1, <1>3 DEF Lost
<1> QED
  BY <1>1, <1>2, <1>3, LostStrikes

LEMMA LateEnvironment ==
  ASSUME TypeOK, TypeOK', FewLive, LateInv, Lost' \in Nat, Lost <= Lost', NEW b \in Alarm,
         Create(b) \/ Delete(b) \/ Disable(b) \/ Enable(b) \/ Sample(b)
  PROVE  LateInv'
<1> SUFFICES ASSUME NEW a \in Alarm, alarms'[a] = "disabled"
             PROVE  late'[a] + Cardinality(Loud(a)') <= 1 + Lost'
  BY DEF LateInv
<1>1. Loud(a)' = Loud(a)
  BY DEF Loud, Create, Delete, Disable, Enable, Sample
<1>2. \/ alarms[a] = "disabled" /\ late'[a] = late[a]
      \/ late'[a] = 0
  BY DEF TypeOK, Create, Delete, Disable, Enable, Sample, bus
<1>3. CASE alarms[a] = "disabled" /\ late'[a] = late[a]
  BY <1>1, <1>3, LateKept
<1>4. CASE late'[a] = 0
  <2>1. /\ Cardinality(Loud(a)) \in Nat /\ Cardinality(Live(a)) \in Nat
        /\ Cardinality(Loud(a)) <= Cardinality(Live(a))
        /\ Cardinality(Live(a)) <= 1 + Lost
    BY LoudAmongLive DEF FewLive
  <2> QED
    BY <1>1, <1>4, <2>1, LostCounts
<1> QED
  BY <1>2, <1>3, <1>4

LEMMA LateLoop ==
  ASSUME TypeOK, TypeOK', FewLive, LateInv, Lost' \in Nat, Lost <= Lost',
         Snapshot \/ JoinWorkers \/ Drain \/ JoinNotifiers \/ Crash
  PROVE  LateInv'
<1> SUFFICES ASSUME NEW a \in Alarm, alarms'[a] = "disabled"
             PROVE  late'[a] + Cardinality(Loud(a)') <= 1 + Lost'
  BY DEF LateInv
<1>1. alarms[a] = "disabled" /\ late'[a] = late[a]
  BY DEF Snapshot, JoinWorkers, Drain, JoinNotifiers, Crash, bus
<1>2. \/ job' = job
      \/ \E S, w : w \in BOOLEAN /\ job' = Forked(S, w)
      \/ job' = Abandoned
      \/ \E S, w : w \in BOOLEAN /\ S \subseteq Queued /\ job' = Notified(S, w)
      \/ job' = [j \in JobId |-> Free]
  BY DEF Snapshot, JoinWorkers, Drain, JoinNotifiers, Crash
<1>3. Loud(a)' \subseteq Loud(a)
  <2>1. CASE job' = job
    BY <2>1 DEF Loud
  <2>2. ASSUME NEW S, NEW w \in BOOLEAN, job' = Forked(S, w)
        PROVE  Loud(a)' \subseteq Loud(a)
    <3>1. NewJob(a, w).stage = "query" /\ NewJob(a, w).muted
      BY <1>1 DEF NewJob
    <3>2. \A s \in Slot : job'[<<a, s>>] = job[<<a, s>>] \/ job'[<<a, s>>] = NewJob(a, w)
      BY <2>2, JobOfSlot DEF Forked
    <3> QED
      BY <3>1, <3>2 DEF Loud
  <2>3. CASE job' = Abandoned
    BY <2>3, AbandonedJobs, JobOfSlot DEF Loud
  <2>4. ASSUME NEW S, NEW w \in BOOLEAN, S \subseteq Queued, job' = Notified(S, w)
        PROVE  Loud(a)' \subseteq Loud(a)
    <3>1. \A s \in Slot : \/ job'[<<a, s>>] = job[<<a, s>>]
                          \/ job'[<<a, s>>] = Free
                          \/ job[<<a, s>>].stage = "queued"
      BY <2>4, NotifiedJobs, JobOfSlot
    <3> QED
      BY <3>1, FreeJob DEF Loud
  <2>5. CASE job' = [j \in JobId |-> Free]
    BY <2>5, FreeJob, JobOfSlot DEF Loud
  <2> QED
    BY <1>2, <2>1, <2>2, <2>3, <2>4, <2>5
<1> QED
  BY <1>1, <1>3, LateKept

LEMMA LateProcess ==
  ASSUME TypeOK, TypeOK', FewLive, LateInv, Lost' \in Nat, Lost <= Lost',
         NEW j \in JobId, Run(j)
  PROVE  LateInv'
<1> SUFFICES ASSUME NEW a \in Alarm, alarms'[a] = "disabled"
             PROVE  late'[a] + Cardinality(Loud(a)') <= 1 + Lost'
  BY DEF LateInv
<1>0. j[1] \in Alarm /\ j[2] \in Slot /\ j = <<j[1], j[2]>> /\ job[j] \in Job
  BY DEF JobId, TypeOK
<1>1. alarms[a] = "disabled"
  <2>1. \/ UNCHANGED alarms
        \/ alarms' = [alarms EXCEPT ![j[1]] = job[j].verdict]
    BY DEF Run, Query, Put, Publish, Read, Write, SetStatus
  <2>2. job[j].verdict # "disabled"
    BY <1>0 DEF Job, Verdict
  <2> QED
    BY <1>0, <2>1, <2>2 DEF TypeOK
<1>2. /\ \A k \in JobId \ {j} : job'[k] = job[k]
      /\ \/ job'[j].stage = "free"
         \/ <<job[j].stage, job'[j].stage>> \in
              {<<"query", "put">>, <<"put", "queued">>, <<"publish", "read">>,
               <<"read", "write">>}
  BY JobAdvances, Zenon DEF Advanced
<1>3. job'[j].stage = "put" => job[j].stage = "query" /\ ~job[j].muted
  <2>1. \/ job' = [job EXCEPT ![j] = Free]
        \/ job[j].stage = "query" /\ ~job[j].muted
        \/ \E stage \in {"queued", "read", "write"} : job' = [job EXCEPT ![j].stage = stage]
    BY DEF Run, Query, Judge, Put, Publish, Read, Write, Exit, Advance
  <2>2. CASE job' = [job EXCEPT ![j] = Free]
    BY <2>2, FreeJob DEF TypeOK
  <2>3. ASSUME NEW stage \in {"queued", "read", "write"},
               job' = [job EXCEPT ![j].stage = stage]
        PROVE  job'[j].stage # "put"
    BY <1>0, <2>3 DEF TypeOK, Job
  <2> QED
    BY <2>1, <2>2, <2>3
<1>4. \A s \in Slot : <<a, s>> # j => job'[<<a, s>>] = job[<<a, s>>]
  BY <1>2, JobOfSlot
<1>5. Loud(a)' \subseteq Loud(a)
  BY <1>2, <1>3, <1>4 DEF Loud
<1>6. CASE late'[a] = late[a]
  BY <1>1, <1>5, <1>6, LateKept
<1>7. CASE late'[a] # late[a]
  <2>1. Notify(j[1], job[j].verdict) /\ Publish(j)
    BY <1>7 DEF Run, Query, Put, Publish, Read, Write, bus
  <2>2. a = j[1] /\ late'[a] = late[a] + 1
    BY <1>0, <1>1, <1>7, <2>1 DEF Notify, TypeOK
  <2>3. job[j].stage = "publish" /\ job'[j].stage \in {"free", "read"}
    BY <1>2, <2>1 DEF Publish
  <2>4. j[2] \in Loud(a) /\ j[2] \notin Loud(a)'
    BY <1>0, <2>2, <2>3 DEF Loud
  <2>5. Loud(a)' \subseteq Loud(a) \ {j[2]}
    BY <1>5, <2>4
  <2>6. /\ IsFiniteSet(Loud(a)) /\ Cardinality(Loud(a)) \in Nat
        /\ IsFiniteSet(Loud(a) \ {j[2]})
        /\ Cardinality(Loud(a) \ {j[2]}) = Cardinality(Loud(a)) - 1
    BY <2>4, LoudAmongLive, FS_RemoveElement
  <2>7. /\ Cardinality(Loud(a)') \in Nat
        /\ Cardinality(Loud(a)') <= Cardinality(Loud(a)) - 1
    BY <2>5, <2>6, NoMore
  <2>8. late[a] \in Nat /\ Lost \in Nat
    BY LostCounts DEF TypeOK
  <2> QED
    BY <1>1, <2>2, <2>6, <2>7, <2>8 DEF LateInv
<1> QED
  BY <1>6, <1>7

LEMMA LateStep ==
  ASSUME TypeOK, TypeOK', PileInv, LateInv, [Next]_vars
  PROVE  LateInv'
<1>0. FewLive /\ Lost' \in Nat /\ Lost <= Lost'
  BY LostGrows DEF PileInv
<1>1. CASE UNCHANGED vars
  BY <1>1 DEF vars, bus, LateInv, Loud, Lost
<1>2. CASE Next
  BY <1>0, <1>2, LateEnvironment, LateLoop, LateProcess DEF Next, Run
<1> QED
  BY <1>1, <1>2

\* However stale the status a pass has read, an alarm is notified after it was
\* disabled only by the evaluations that were under way then, for any number of
\* alarms, faults and changes of its status.
THEOREM DisabledSoonQuiet == Spec => []StaleVerdictsBounded
<1>1. Init => LateInv
  BY DEF Init, LateInv
<1>2. TypeOK /\ TypeOK' /\ PileInv /\ LateInv /\ [Next]_vars => LateInv'
  BY LateStep
<1>3. TypeOK /\ PileInv /\ LateInv => StaleVerdictsBounded
  <2> SUFFICES ASSUME TypeOK, FewLive, LateInv, NEW a \in Alarm, alarms[a] = "disabled"
               PROVE  late[a] <= 1 + faults["timeout"] + faults["fork"]
    BY DEF PileInv, StaleVerdictsBounded
  <2>1. /\ faults["timeout"] \in Nat /\ faults["fork"] \in Nat /\ late[a] \in Nat
        /\ Cardinality(Loud(a)) \in Nat
    BY LoudAmongLive DEF TypeOK, FaultKind
  <2>2. late[a] + Cardinality(Loud(a)) <= 1 + Lost
    BY DEF LateInv
  <2> QED
    BY <2>1, <2>2 DEF Lost
<1> QED
  BY <1>1, <1>2, <1>3, TypeCorrect, Piles, PTL DEF Spec

=============================================================================

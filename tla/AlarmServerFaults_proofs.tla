---------------------- MODULE AlarmServerFaults_proofs ----------------------
(***************************************************************************)
(* What faults cost the clients of MON Server, for any number of requests, *)
(* identifiers and faults: how many alarms nobody was told of, and how     *)
(* often and in which order requests are executed and answered.            *)
(***************************************************************************)
EXTENDS AlarmServer_proofs, FiniteSetTheorems

-----------------------------------------------------------------------------
(* Counting.                                                               *)

\* Each kind of fault has been counted, and a fault that strikes adds one.
LEMMA StrikeCounts ==
  ASSUME TypeOK, NEW k \in FaultKind, Strike(k)
  PROVE  /\ faults'[k] = faults[k] + 1
         /\ \A l \in FaultKind \ {k} : faults'[l] = faults[l]
BY DEF TypeOK, Strike

LEMMA FaultCounts ==
  ASSUME TypeOK
  PROVE  \A k \in FaultKind : faults[k] \in Nat
BY DEF TypeOK

\* One more element makes a finite set larger by one at most.
LEMMA OneMore ==
  ASSUME NEW S, NEW T, NEW x, IsFiniteSet(S), T \subseteq S \cup {x}
  PROVE  /\ IsFiniteSet(T)
         /\ Cardinality(T) \in Nat /\ Cardinality(S) \in Nat
         /\ Cardinality(T) <= Cardinality(S) + 1
<1>1. /\ IsFiniteSet(S \cup {x})
      /\ Cardinality(S \cup {x}) \in {Cardinality(S), Cardinality(S) + 1}
  BY FS_AddElement
<1>2. Cardinality(S) \in Nat
  BY FS_CardinalityType
<1>3. /\ IsFiniteSet(T)
      /\ Cardinality(T) <= Cardinality(S \cup {x})
  BY <1>1, FS_Subset
<1>4. Cardinality(T) \in Nat
  BY <1>3, FS_CardinalityType
<1> QED BY <1>1, <1>2, <1>3, <1>4

\* A part of a finite set is no larger.
LEMMA NoMore ==
  ASSUME NEW S, NEW T, IsFiniteSet(S), T \subseteq S
  PROVE  /\ IsFiniteSet(T)
         /\ Cardinality(T) \in Nat /\ Cardinality(S) \in Nat
         /\ Cardinality(T) <= Cardinality(S)
BY FS_Subset, FS_CardinalityType

-----------------------------------------------------------------------------
(* Ghosts.  While a response is on its way, Ghosts leaves out whatever     *)
(* alarm it is about.  What has to be counted is stricter: it leaves out   *)
(* the one alarm that a positive response is about to name.                *)

Naming(u) ==
  pc = "publish" /\ response.key = "create" /\ response.status /\ response.uuid = u

Unknown == {u \in alarms : ~Acknowledged(u) /\ ~Naming(u)}

Struck == faults["db"] + faults["bus"] + faults["crash"]

\* A response is about the alarm in hand, or about none.
ResponseOwn == pc = "publish" => response.uuid \in {uuid, NoUuid}

GhostInv ==
  /\ ResponseOwn
  /\ IsFiniteSet(Unknown)
  /\ Cardinality(Unknown) <= Struck

LEMMA ResponseOwnStep ==
  ASSUME ResponseOwn, [Next]_vars
  PROVE  ResponseOwn'
BY DEF ResponseOwn, Next, Handle, Send, Commit, Start, LoseSubscription, Resubscribe, Crash,
       ReadCreate, ReadIncompleteCreate, ReadDelete, ReadIgnored, Read, CreateAction,
       CreateAlarm, DeleteAction, DeleteAlarm, Publish, Refuse, Respond, vars, handler

\* What was acknowledged once stays so.
LEMMA AcknowledgedStays ==
  ASSUME TypeOK, NEW u, Acknowledged(u),
         \/ UNCHANGED replies
         \/ replies' = Append(replies, response)
  PROVE  Acknowledged(u)'
<1>1. PICK i \in DOMAIN replies :
        replies[i].key = "create" /\ replies[i].status /\ replies[i].uuid = u
  BY DEF Acknowledged
<1>2. CASE UNCHANGED replies
  BY <1>1, <1>2 DEF Acknowledged
<1>3. CASE replies' = Append(replies, response)
  <2>1. i \in DOMAIN replies' /\ replies'[i] = replies[i]
    BY <1>3, AppendFacts DEF TypeOK
  <2> QED BY <1>1, <2>1 DEF Acknowledged
<1> QED BY <1>2, <1>3

\* A published response that names a created alarm acknowledges it.
LEMMA NamedIsAcknowledged ==
  ASSUME TypeOK, NEW u, Naming(u), replies' = Append(replies, response)
  PROVE  Acknowledged(u)'
<1>1. /\ Len(replies) + 1 \in DOMAIN replies'
      /\ replies'[Len(replies) + 1] = response
  BY AppendFacts DEF TypeOK
<1> QED BY <1>1 DEF Acknowledged, Naming

\* Without a response only what is stored can change what is unknown.
LEMMA UnknownKept ==
  ASSUME alarms' \subseteq alarms, UNCHANGED replies, \A u : Naming(u) => Naming(u)'
  PROVE  Unknown' \subseteq Unknown
<1>1. \A u : Acknowledged(u)' <=> Acknowledged(u)
  BY DEF Acknowledged
<1> QED BY <1>1 DEF Unknown

LEMMA UnknownGains ==
  ASSUME NEW x, alarms' \subseteq alarms \cup {x}, UNCHANGED replies,
         \A u : Naming(u) => Naming(u)' \/ u = x
  PROVE  Unknown' \subseteq Unknown \cup {x}
<1>1. \A u : Acknowledged(u)' <=> Acknowledged(u)
  BY DEF Acknowledged
<1> QED BY <1>1 DEF Unknown

LEMMA StruckGrows ==
  ASSUME TypeOK
  PROVE  /\ Struck \in Nat
         /\ UNCHANGED faults \/ Strike("subscription") => Struck' = Struck
         /\ Strike("db") \/ Strike("bus") \/ Strike("crash") => Struck' = Struck + 1
BY FaultCounts, StrikeCounts DEF Struck, FaultKind

\* Each step makes at most one alarm unknown, and none without a fault.
LEMMA UnknownStep ==
  ASSUME IInv, [Next]_vars
  PROVE  \/ Unknown' \subseteq Unknown /\ Struck <= Struck'
         \/ \E u : Unknown' \subseteq Unknown \cup {u} /\ Struck' = Struck + 1
<1>0. TypeOK
  BY DEF IInv, TypeInv
<1> DEFINE Steady == Struck' = Struck \/ Struck' = Struck + 1
<1>s. Struck \in Nat /\ (Steady => Struck <= Struck')
  BY <1>0, StruckGrows
<1>1. CASE \/ Send \/ Commit \/ Resubscribe \/ ReadCreate \/ ReadIncompleteCreate
           \/ ReadDelete \/ ReadIgnored \/ UNCHANGED vars
  <2>1. UNCHANGED <<alarms, replies, faults>>
    BY <1>1 DEF Send, Commit, Resubscribe, ReadCreate, ReadIncompleteCreate, ReadDelete,
                ReadIgnored, Read, vars, store
  <2>2. \A u : Naming(u) => Naming(u)'
    BY <1>1 DEF Naming, Send, Commit, Resubscribe, ReadCreate, ReadIncompleteCreate,
                ReadDelete, ReadIgnored, Read, vars, handler
  <2>3. Unknown' \subseteq Unknown
    BY <2>1, <2>2, UnknownKept
  <2> QED BY <1>0, <1>s, <2>1, <2>3, StruckGrows
<1>2. CASE Start \/ LoseSubscription
  <2>1. UNCHANGED <<alarms, replies>> /\ \A u : ~Naming(u)
    BY <1>2 DEF Start, LoseSubscription, store, Naming
  <2>2. UNCHANGED faults \/ Strike("db") \/ Strike("subscription")
    BY <1>2 DEF Start, LoseSubscription
  <2>3. Unknown' \subseteq Unknown
    BY <2>1, UnknownKept
  <2> QED BY <1>0, <1>s, <2>2, <2>3, StruckGrows
<1>3. CASE Crash
  <2>1. UNCHANGED <<alarms, replies>> /\ Strike("crash")
    BY <1>3 DEF Crash, store
  <2>2. Unknown' \subseteq Unknown \cup {response.uuid}
    BY <2>1, UnknownGains DEF Naming
  <2> QED BY <1>0, <2>1, <2>2, StruckGrows
<1>4. CASE CreateAction \/ DeleteAction \/ DeleteAlarm
  <2>1. alarms' \subseteq alarms /\ UNCHANGED replies /\ \A u : ~Naming(u)
    BY <1>4 DEF CreateAction, DeleteAction, DeleteAlarm, Naming
  <2>2. UNCHANGED faults \/ Strike("db")
    BY <1>4 DEF CreateAction, DeleteAction, DeleteAlarm
  <2>3. Unknown' \subseteq Unknown
    BY <2>1, UnknownKept
  <2> QED BY <1>0, <1>s, <2>2, <2>3, StruckGrows
<1>5. CASE CreateAlarm
  <2>1. UNCHANGED replies /\ \A u : ~Naming(u)
    BY <1>5 DEF CreateAlarm, Naming
  <2>2. CASE /\ alarms' = alarms \cup {uuid}
             /\ Respond(position, "create", TRUE, uuid)
             /\ UNCHANGED faults
    <3>1. Naming(uuid)' /\ UNCHANGED uuid
      BY <1>5, <2>2 DEF CreateAlarm, Respond, Naming
    <3>2. Unknown' \subseteq Unknown \cup {uuid}
      BY <2>1, <2>2, UnknownGains
    <3>3. uuid \notin Unknown'
      BY <3>1 DEF Unknown, Naming
    <3> QED BY <1>0, <1>s, <2>2, <3>2, <3>3, StruckGrows
  <2>3. CASE Strike("db") /\ alarms' \in {alarms, alarms \cup {uuid}}
    <3>1. Unknown' \subseteq Unknown \cup {uuid}
      BY <2>1, <2>3, UnknownGains
    <3> QED BY <1>0, <2>3, <3>1, StruckGrows
  <2> QED BY <1>5, <2>2, <2>3 DEF CreateAlarm
<1>6. CASE Publish
  <2>1. UNCHANGED alarms /\ replies' \in {replies, Append(replies, response)}
    BY <1>6 DEF Publish, store
  <2>2. CASE replies' = Append(replies, response)
    <3>1. \A u : Acknowledged(u) \/ Naming(u) => Acknowledged(u)'
      BY <1>0, <2>2, AcknowledgedStays, NamedIsAcknowledged
    <3>2. UNCHANGED faults \/ Strike("bus")
      BY <1>6 DEF Publish
    <3>3. Unknown' \subseteq Unknown
      BY <2>1, <3>1 DEF Unknown
    <3> QED BY <1>0, <1>s, <3>2, <3>3, StruckGrows
  <2>3. CASE replies' = replies /\ Strike("bus")
    <3>1. Unknown' \subseteq Unknown \cup {response.uuid}
      BY <2>1, <2>3, UnknownGains DEF Naming
    <3> QED BY <1>0, <2>3, <3>1, StruckGrows
  <2> QED BY <1>6, <2>1, <2>2, <2>3 DEF Publish
<1> QED BY <1>1, <1>2, <1>3, <1>4, <1>5, <1>6 DEF Next, Handle

LEMMA GhostStep ==
  ASSUME IInv, GhostInv, [Next]_vars
  PROVE  GhostInv'
<1>1. TypeOK /\ TypeOK'
  BY SafetyStep DEF IInv, TypeInv
<1>2. Struck \in Nat /\ Struck' \in Nat
  <2>1. \A k \in FaultKind : faults[k] \in Nat /\ faults'[k] \in Nat
    BY <1>1 DEF TypeOK
  <2> QED BY <2>1 DEF Struck, FaultKind
<1>3. ResponseOwn'
  BY ResponseOwnStep DEF GhostInv
<1>4. CASE Unknown' \subseteq Unknown /\ Struck <= Struck'
  <2>1. /\ IsFiniteSet(Unknown')
        /\ Cardinality(Unknown') \in Nat /\ Cardinality(Unknown) \in Nat
        /\ Cardinality(Unknown') <= Cardinality(Unknown)
    BY <1>4, NoMore DEF GhostInv
  <2> QED BY <1>2, <1>3, <1>4, <2>1 DEF GhostInv
<1>5. CASE \E u : Unknown' \subseteq Unknown \cup {u} /\ Struck' = Struck + 1
  <2>1. PICK u : Unknown' \subseteq Unknown \cup {u} /\ Struck' = Struck + 1
    BY <1>5
  <2>2. /\ IsFiniteSet(Unknown')
        /\ Cardinality(Unknown') \in Nat /\ Cardinality(Unknown) \in Nat
        /\ Cardinality(Unknown') <= Cardinality(Unknown) + 1
    BY <2>1, OneMore DEF GhostInv
  <2> QED BY <1>2, <1>3, <2>1, <2>2 DEF GhostInv
<1> QED BY <1>4, <1>5, UnknownStep

\* Alarms that are stored though no response ever named them come from faults of the
\* database, the bus or the process, and no fault leaves more than one (server.py
\* _cod_request_handler answers alarm_id=None whether or not the document was written).
THEOREM GhostsFromFaults == Spec => []GhostsBounded
<1>1. Init => GhostInv
  BY FS_EmptySet DEF Init, GhostInv, ResponseOwn, Unknown, Struck, FaultKind
<1>2. IInv /\ GhostInv /\ [Next]_vars => GhostInv'
  BY GhostStep
<1>3. IInv /\ GhostInv => GhostsBounded
  <2> SUFFICES ASSUME IInv, GhostInv PROVE GhostsBounded
    OBVIOUS
  <2>1. TypeOK
    BY DEF IInv, TypeInv
  <2>2. Ghosts \subseteq Unknown
    BY <2>1 DEF Ghosts, Unknown, Naming, GhostInv, ResponseOwn, TypeOK, Uuid, NoUuid
  <2>3. /\ Cardinality(Ghosts) \in Nat /\ Cardinality(Unknown) \in Nat
        /\ Cardinality(Ghosts) <= Cardinality(Unknown)
    BY <2>2, NoMore DEF GhostInv
  <2>4. Struck \in Nat
    BY <2>1, StruckGrows
  <2> QED BY <2>3, <2>4 DEF GhostInv, GhostsBounded, Struck
<1> QED BY <1>1, <1>2, <1>3, Safety, PTL DEF Spec

-----------------------------------------------------------------------------
(* Once per start.  A consumer reads forward, and goes back only when it   *)
(* starts again; so a request can be read again, or is about to be         *)
(* answered, only as often as there were starts.                           *)

Executing ==
  pc \in {"create_action", "create_alarm", "delete_action", "delete_alarm", "publish"}

\* The requests that may be read yet by this consumer or by the next one.
MayRead(n) == pc \in {"down", "retry"} \/ n > position

\* Those that may be answered yet, without another restart.
MayAnswer(n) == MayRead(n) \/ (Executing /\ n = position)

DrawnFor(n) == {u \in DOMAIN owner : owner[u] = n}
AnswersTo(n) == {i \in DOMAIN replies : replies[i].req = n}

\* What was done so far, and once more if that is still possible, is within the bound.
Within(S, possible) ==
  /\ IsFiniteSet(S)
  /\ Cardinality(S) + (IF possible THEN 1 ELSE 0) <= 1 + Restarts

\* A response is about the request that was read last.
ResponseCurrent == pc = "publish" => response.req = position

OnceInv ==
  /\ ResponseCurrent
  /\ \A n \in Nat : Within(DrawnFor(n), MayRead(n)) /\ Within(AnswersTo(n), MayAnswer(n))

LEMMA RestartsGrow ==
  ASSUME TypeOK
  PROVE  /\ Restarts \in Nat
         /\ UNCHANGED faults \/ Strike("db") \/ Strike("bus") => Restarts' = Restarts
         /\ Strike("crash") \/ Strike("subscription") => Restarts' = Restarts + 1
BY FaultCounts, StrikeCounts DEF Restarts, FaultKind

\* A set that is kept stays within the bound, unless something becomes possible again
\* without a restart; and so does one that grows by what was possible and is no more.
LEMMA WithinStep ==
  ASSUME TypeOK, Restarts' = Restarts \/ Restarts' = Restarts + 1,
         NEW S, NEW before \in BOOLEAN, NEW T, NEW after \in BOOLEAN,
         Within(S, before),
         \/ T = S /\ (after => before \/ Restarts' = Restarts + 1)
         \/ (\E x : T \subseteq S \cup {x}) /\ before /\ ~after
  PROVE  /\ IsFiniteSet(T)
         /\ Cardinality(T) + (IF after THEN 1 ELSE 0) <= 1 + Restarts'
<1>1. Restarts \in Nat /\ IsFiniteSet(S) /\ Cardinality(S) \in Nat
  BY RestartsGrow, FS_CardinalityType DEF Within
<1>2. CASE T = S /\ (after => before \/ Restarts' = Restarts + 1)
  BY <1>1, <1>2 DEF Within
<1>3. CASE (\E x : T \subseteq S \cup {x}) /\ before /\ ~after
  <2>1. /\ IsFiniteSet(T) /\ Cardinality(T) \in Nat
        /\ Cardinality(T) <= Cardinality(S) + 1
    BY <1>1, <1>3, OneMore
  <2> QED BY <1>1, <1>3, <2>1 DEF Within
<1> QED BY <1>2, <1>3

\* What a step can do to the requests that may be read or answered yet.
LEMMA PossibleStep ==
  ASSUME TypeOK, [Next]_vars, NEW n \in Nat
  PROVE  /\ Restarts' = Restarts \/ Restarts' = Restarts + 1
         /\ MayRead(n)' => MayRead(n) \/ Restarts' = Restarts + 1
         /\ MayAnswer(n)' => MayAnswer(n) \/ Restarts' = Restarts + 1
<1> USE DEF MayAnswer, MayRead, Executing
<1>0. position \in Nat
  BY DEF TypeOK
<1>1. CASE Send \/ Commit \/ UNCHANGED vars
  BY <1>1, RestartsGrow DEF Send, Commit, vars, consumer, handler
<1>2. CASE Start \/ Resubscribe
  BY <1>2, RestartsGrow DEF Start, Resubscribe
<1>3. CASE LoseSubscription \/ Crash
  BY <1>3, RestartsGrow DEF LoseSubscription, Crash
<1>4. CASE ReadCreate \/ ReadIncompleteCreate \/ ReadDelete \/ ReadIgnored
  <2>1. /\ pc = "idle" /\ position' = position + 1 /\ UNCHANGED faults
        /\ pc' \notin {"down", "retry"}
    BY <1>4 DEF ReadCreate, ReadIncompleteCreate, ReadDelete, ReadIgnored, Read, Respond,
                handler
  <2> QED BY <1>0, <2>1, RestartsGrow
<1>5. CASE CreateAction \/ CreateAlarm \/ DeleteAction \/ DeleteAlarm \/ Publish
  <2>1. /\ Executing /\ UNCHANGED position /\ pc' \notin {"down", "retry"}
        /\ UNCHANGED faults \/ Strike("db") \/ Strike("bus")
    BY <1>5 DEF CreateAction, CreateAlarm, DeleteAction, DeleteAlarm, Publish, Refuse,
                Respond, consumer
  <2> QED BY <1>0, <2>1, RestartsGrow
<1> QED BY <1>1, <1>2, <1>3, <1>4, <1>5 DEF Next, Handle

\* The identifiers drawn for a request, and what is still possible.
LEMMA DrawnStep ==
  ASSUME TypeOK, [Next]_vars, NEW n \in Nat
  PROVE  \/ DrawnFor(n)' = DrawnFor(n)
         \/ (\E u : DrawnFor(n)' \subseteq DrawnFor(n) \cup {u}) /\ MayRead(n) /\ ~MayRead(n)'
<1>1. CASE ReadCreate
  <2>1. /\ pc = "idle" /\ pc' = "create_action" /\ position' = position + 1
        /\ owner' = Append(owner, position + 1) /\ position + 1 \in Nat
    BY <1>1 DEF ReadCreate, Read, TypeOK
  <2>2. /\ DOMAIN owner' = DOMAIN owner \cup {Len(owner) + 1}
        /\ Len(owner) + 1 \notin DOMAIN owner
        /\ \A u \in DOMAIN owner : owner'[u] = owner[u]
        /\ owner'[Len(owner) + 1] = position + 1
    BY <2>1, AppendFacts DEF TypeOK
  <2>3. DrawnFor(n)' \subseteq DrawnFor(n) \cup {Len(owner) + 1}
    BY <2>2 DEF DrawnFor
  <2>4. n # position + 1 => DrawnFor(n)' = DrawnFor(n)
    BY <2>2 DEF DrawnFor
  <2>5. n = position + 1 => MayRead(n) /\ ~MayRead(n)'
    BY <2>1 DEF MayRead, TypeOK
  <2> QED BY <2>3, <2>4, <2>5
<1>2. CASE ~ReadCreate
  <2>1. UNCHANGED owner
    BY <1>2 DEF Next, Handle, Send, Commit, Start, LoseSubscription, Resubscribe, Crash,
       ReadIncompleteCreate, ReadDelete, ReadIgnored, CreateAction, CreateAlarm,
       DeleteAction, DeleteAlarm, Publish, vars
  <2> QED BY <2>1 DEF DrawnFor
<1> QED BY <1>1, <1>2

\* The responses to a request, and what is still possible.
LEMMA AnswersStep ==
  ASSUME TypeOK, ResponseCurrent, [Next]_vars, NEW n \in Nat
  PROVE  \/ AnswersTo(n)' = AnswersTo(n)
         \/ /\ \E i : AnswersTo(n)' \subseteq AnswersTo(n) \cup {i}
            /\ MayAnswer(n) /\ ~MayAnswer(n)'
<1>1. CASE Publish /\ replies' = Append(replies, response)
  <2>1. /\ pc = "publish" /\ pc' = "idle" /\ UNCHANGED position
        /\ response.req = position /\ position \in Nat
    BY <1>1 DEF Publish, consumer, ResponseCurrent, TypeOK
  <2>2. /\ DOMAIN replies' = DOMAIN replies \cup {Len(replies) + 1}
        /\ Len(replies) + 1 \notin DOMAIN replies
        /\ \A i \in DOMAIN replies : replies'[i] = replies[i]
        /\ replies'[Len(replies) + 1] = response
    BY <1>1, AppendFacts DEF TypeOK
  <2>3. AnswersTo(n)' \subseteq AnswersTo(n) \cup {Len(replies) + 1}
    BY <2>2 DEF AnswersTo
  <2>4. n # position => AnswersTo(n)' = AnswersTo(n)
    BY <2>1, <2>2 DEF AnswersTo
  <2>5. n = position => MayAnswer(n) /\ ~MayAnswer(n)'
    BY <2>1 DEF MayAnswer, MayRead, Executing
  <2> QED BY <2>3, <2>4, <2>5
<1>2. CASE ~(Publish /\ replies' = Append(replies, response))
  <2>1. UNCHANGED replies
    BY <1>2 DEF Next, Handle, Send, Commit, Start, LoseSubscription, Resubscribe, Crash,
       ReadCreate, ReadIncompleteCreate, ReadDelete, ReadIgnored, Read, CreateAction,
       CreateAlarm, DeleteAction, DeleteAlarm, Publish, vars
  <2> QED BY <2>1 DEF AnswersTo
<1> QED BY <1>1, <1>2

LEMMA ResponseCurrentStep ==
  ASSUME ResponseCurrent, [Next]_vars
  PROVE  ResponseCurrent'
BY DEF ResponseCurrent, Next, Handle, Send, Commit, Start, LoseSubscription, Resubscribe,
       Crash, ReadCreate, ReadIncompleteCreate, ReadDelete, ReadIgnored, Read, CreateAction,
       CreateAlarm, DeleteAction, DeleteAlarm, Publish, Refuse, Respond, vars, handler,
       consumer

LEMMA OnceStep ==
  ASSUME TypeOK, OnceInv, [Next]_vars
  PROVE  OnceInv'
<1>1. ResponseCurrent'
  BY ResponseCurrentStep DEF OnceInv
<1>2. ASSUME NEW n \in Nat
      PROVE  Within(DrawnFor(n), MayRead(n))'
  <2>1. /\ IsFiniteSet(DrawnFor(n)')
        /\ Cardinality(DrawnFor(n)') + (IF MayRead(n)' THEN 1 ELSE 0) <= 1 + Restarts'
    BY PossibleStep, DrawnStep, WithinStep DEF OnceInv, MayRead
  <2> QED BY <2>1 DEF Within
<1>3. ASSUME NEW n \in Nat
      PROVE  Within(AnswersTo(n), MayAnswer(n))'
  <2>1. /\ IsFiniteSet(AnswersTo(n)')
        /\ Cardinality(AnswersTo(n)') + (IF MayAnswer(n)' THEN 1 ELSE 0) <= 1 + Restarts'
    BY PossibleStep, AnswersStep, WithinStep DEF OnceInv, MayAnswer, MayRead
  <2> QED BY <2>1 DEF Within
<1> QED BY <1>1, <1>2, <1>3 DEF OnceInv

LEMMA OnceStart == Init => OnceInv
<1> SUFFICES ASSUME Init, NEW n \in Nat
             PROVE  ResponseCurrent /\ Within(DrawnFor(n), MayRead(n))
                                    /\ Within(AnswersTo(n), MayAnswer(n))
  BY DEF OnceInv
<1>1. DrawnFor(n) = {} /\ AnswersTo(n) = {} /\ Restarts = 0
  BY DEF Init, DrawnFor, AnswersTo, Restarts, FaultKind
<1>2. IsFiniteSet({}) /\ Cardinality({}) = 0
  BY FS_EmptySet
<1> QED BY <1>1, <1>2 DEF Init, ResponseCurrent, Within

\* A request is executed, and answered, at most once by each consumer that starts,
\* however often requests are delivered again (server.py run, and the committed offset
\* of its consumer group).
THEOREM ExecutedOncePerStart == Spec => []OncePerStart
<1>1. TypeOK /\ OnceInv => OncePerStart
  <2> SUFFICES ASSUME TypeOK, OnceInv, NEW n \in 1..Len(requests)
               PROVE  /\ Cardinality(DrawnFor(n)) <= 1 + Restarts
                      /\ Cardinality(AnswersTo(n)) <= 1 + Restarts
    BY DEF OncePerStart, DrawnFor, AnswersTo
  <2>1. n \in Nat /\ Restarts \in Nat
    BY RestartsGrow
  <2>2. Within(DrawnFor(n), MayRead(n)) /\ Within(AnswersTo(n), MayAnswer(n))
    BY <2>1 DEF OnceInv
  <2>3. Cardinality(DrawnFor(n)) \in Nat /\ Cardinality(AnswersTo(n)) \in Nat
    BY <2>2, FS_CardinalityType DEF Within
  <2> QED BY <2>1, <2>2, <2>3 DEF Within
<1>2. TypeOK /\ OnceInv /\ [Next]_vars => OnceInv'
  BY OnceStep
<1> QED BY <1>1, <1>2, OnceStart, TypeCorrect, PTL DEF Spec

-----------------------------------------------------------------------------
(* Order.  Until something makes the consumer go back, what was answered   *)
(* lies behind its position, and the request in hand is at it.             *)

OrderInv ==
  /\ ResponseCurrent
  /\ Restarts = 0 =>
       /\ pc # "retry"
       /\ pc = "down" => replies = <<>>
       /\ \A i \in DOMAIN replies : /\ replies[i].req <= position
                                    /\ Executing => replies[i].req < position
       /\ \A i, j \in DOMAIN replies : i < j => replies[i].req < replies[j].req

LEMMA OrderStep ==
  ASSUME TypeOK, OrderInv, [Next]_vars
  PROVE  OrderInv'
<1>1. ResponseCurrent'
  BY ResponseCurrentStep DEF OrderInv
<1>2. SUFFICES ASSUME Restarts' = 0
               PROVE  /\ pc' # "retry"
                      /\ pc' = "down" => replies' = <<>>
                      /\ \A i \in DOMAIN replies' :
                           /\ replies'[i].req <= position'
                           /\ Executing' => replies'[i].req < position'
                      /\ \A i, j \in DOMAIN replies' :
                           i < j => replies'[i].req < replies'[j].req
  BY <1>1 DEF OrderInv
<1>3. Restarts = 0 /\ ~Strike("crash") /\ ~Strike("subscription")
  BY <1>2, PossibleStep, RestartsGrow
<1>4. /\ position \in Nat
      /\ \A i \in DOMAIN replies : replies[i].req \in Nat
  <2>1. position \in Nat /\ \A i \in DOMAIN replies : replies[i] \in Reply
    BY DEF TypeOK
  <2> QED BY <2>1 DEF Reply
<1> USE DEF Executing
<1>5. CASE Send \/ Commit \/ UNCHANGED vars
  BY <1>3, <1>5 DEF OrderInv, Send, Commit, vars, consumer, handler
<1>6. CASE Start
  BY <1>3, <1>6 DEF OrderInv, Start
<1>7. CASE LoseSubscription \/ Resubscribe \/ Crash
  BY <1>3, <1>7 DEF OrderInv, LoseSubscription, Resubscribe, Crash
<1>8. CASE ReadCreate \/ ReadIncompleteCreate \/ ReadDelete \/ ReadIgnored
  <2>1. /\ pc = "idle" /\ position' = position + 1 /\ UNCHANGED replies
        /\ pc' \notin {"down", "retry"}
    BY <1>8 DEF ReadCreate, ReadIncompleteCreate, ReadDelete, ReadIgnored, Read, Respond,
                handler
  <2> QED BY <1>3, <1>4, <2>1 DEF OrderInv
<1>9. CASE CreateAction \/ CreateAlarm \/ DeleteAction \/ DeleteAlarm
  <2>1. /\ Executing /\ UNCHANGED <<position, replies>> /\ pc' \notin {"down", "retry"}
    BY <1>9 DEF CreateAction, CreateAlarm, DeleteAction, DeleteAlarm, Refuse, Respond,
                consumer
  <2> QED BY <1>3, <2>1 DEF OrderInv
<1>10. CASE Publish
  <2>1. /\ pc = "publish" /\ pc' = "idle" /\ UNCHANGED position
        /\ response.req = position
        /\ replies' \in {replies, Append(replies, response)}
    BY <1>10 DEF Publish, consumer, OrderInv, ResponseCurrent
  <2>2. CASE replies' = replies
    BY <1>3, <2>1, <2>2 DEF OrderInv
  <2>3. CASE replies' = Append(replies, response)
    <3>1. /\ DOMAIN replies = 1..Len(replies) /\ Len(replies) \in Nat
          /\ DOMAIN replies' = 1..(Len(replies) + 1)
          /\ \A i \in DOMAIN replies : replies'[i] = replies[i]
          /\ replies'[Len(replies) + 1] = response
      BY <2>3, AppendFacts DEF TypeOK
    <3>2. \A i \in DOMAIN replies : replies[i].req < position
      BY <1>3, <2>1 DEF OrderInv
    <3> QED BY <1>3, <1>4, <2>1, <3>1, <3>2 DEF OrderInv
  <2> QED BY <2>1, <2>2, <2>3
<1> QED BY <1>5, <1>6, <1>7, <1>8, <1>9, <1>10 DEF Next, Handle

\* As long as the consumer does not start again, responses leave in the order of the
\* requests, whatever fails in the database or the bus (server.py run).
THEOREM AnsweredInOrder == Spec => []RepliesInOrder
<1>1. Init => OrderInv
  BY DEF Init, OrderInv, ResponseCurrent, Executing
<1>2. TypeOK /\ OrderInv /\ [Next]_vars => OrderInv'
  BY OrderStep
<1>3. OrderInv => RepliesInOrder
  BY DEF OrderInv, RepliesInOrder
<1> QED BY <1>1, <1>2, <1>3, TypeCorrect, PTL DEF Spec

=============================================================================

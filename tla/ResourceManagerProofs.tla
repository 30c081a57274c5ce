----------------------- MODULE ResourceManagerProofs -----------------------
(***************************************************************************)
(* Proofs that the job pipeline keeps its invariants and implements        *)
(* JobService, for any number of request ids and gRPC threads and any      *)
(* positive capacities.                                                    *)
(***************************************************************************)
EXTENDS ResourceManager, FiniteSetTheorems, TLAPS

USE CapacityAssumption, RequestAssumption

(* Every step keeps every variable in its type. *)
LEMMA TypeStep == TypeOK /\ [Next]_vars => TypeOK'
<1> SUFFICES ASSUME TypeOK, [Next]_vars PROVE TypeOK'
  OBVIOUS
<1> USE DEF TypeOK, JobStates, MgrPoints, HandlerPoints, queueVars, mgrVars, handlerVars
<1>1. CASE UNCHANGED vars
  BY <1>1 DEF vars
<1>2. CASE MgrLoop
  BY <1>2 DEF MgrLoop, GoTo, GetCompletedJobIds
<1>3. ASSUME NEW id \in RequestIds, MgrRetrieve(id) PROVE TypeOK'
  BY <1>3 DEF MgrRetrieve
<1>4. CASE MgrEmpty
  BY <1>4 DEF MgrEmpty, GoTo
<1>5. CASE MgrSize
  BY <1>5 DEF MgrSize, GoTo
<1>6. CASE MgrPop
  <2>1. CASE PopNextRequest /\ GoTo("HasQueued")
    <3>1. popped' \in RequestIds /\ queuedRequests' \in Seq(RequestIds)
      BY <2>1 DEF PopNextRequest
    <3> QED
      BY <1>6, <2>1, <3>1 DEF MgrPop, PopNextRequest, GoTo
  <2>2. CASE UNCHANGED <<queueVars, popped>> /\ GoTo("Loop")
    BY <1>6, <2>2 DEF MgrPop, GoTo
  <2> QED
    BY <1>6, <2>1, <2>2 DEF MgrPop
<1>7. CASE MgrHasQueued
  BY <1>7 DEF MgrHasQueued, EndRunOnce, GoTo
<1>8. CASE MgrHasActive
  BY <1>8 DEF MgrHasActive, EndRunOnce, GoTo
<1>9. CASE MgrStartSize
  BY <1>9 DEF MgrStartSize, EndRunOnce, GoTo
<1>10. CASE MgrStartImpl
  <2>1. activeJobs' \in [RequestIds -> JobStates]
    BY <1>10 DEF MgrStartImpl, InsertNewJob
  <2> QED
    BY <1>10, <2>1 DEF MgrStartImpl, EndRunOnce, GoTo
<1>11. ASSUME NEW h \in Handlers, HandlerStep(h) PROVE TypeOK'
  <2>1. CASE HandlerHasQueued(h)
    BY <2>1 DEF HandlerHasQueued, Return, Continue
  <2>2. CASE HandlerHasActive(h)
    BY <2>2 DEF HandlerHasActive, Return, Continue
  <2>3. CASE HandlerSize(h)
    BY <2>3 DEF HandlerSize, Return, Continue
  <2>4. CASE HandlerEnqueue(h)
    <3>1. Return(h) /\ UNCHANGED <<activeJobs, stopTriggered, mgrVars>>
      BY <2>4 DEF HandlerEnqueue
    <3>2. /\ handlerAt' \in [Handlers -> HandlerPoints]
          /\ request' \in [Handlers -> RequestIds \cup {None}]
          /\ \A k \in Handlers : handlerAt'[k] # "Idle" => request'[k] \in RequestIds
      BY <3>1 DEF Return, HandlerPoints
    <3>3. request[h] \in RequestIds
      BY <2>4 DEF HandlerEnqueue
    <3>4. queuedRequests' \in Seq(RequestIds) /\ queuedIds' \subseteq RequestIds
      BY <2>4, <3>3 DEF HandlerEnqueue, Enqueue
    <3> QED
      BY <3>1, <3>2, <3>4
  <2> QED
    BY <1>11, <2>1, <2>2, <2>3, <2>4 DEF HandlerStep
<1>12. ASSUME NEW h \in Handlers, NEW id \in RequestIds, HandleStartBuildRequest(h, id)
       PROVE  TypeOK'
  BY <1>12 DEF HandleStartBuildRequest
<1>13. ASSUME NEW id \in RequestIds, JobFinish(id) PROVE TypeOK'
  BY <1>13 DEF JobFinish
<1>14. CASE Stop
  BY <1>14 DEF Stop
<1>15. CASE ClearQueue
  BY <1>15 DEF ClearQueue
<1> QED
  BY <1>1, <1>2, <1>3, <1>4, <1>5, <1>6, <1>7, <1>8, <1>9, <1>10, <1>11, <1>12,
     <1>13, <1>14, <1>15 DEF Next, MgrStep

LEMMA InitType == Init => TypeOK
<1> SUFFICES ASSUME Init PROVE TypeOK
  OBVIOUS
<1>1. queuedRequests \in Seq(RequestIds)
  BY DEF Init
<1>2. /\ activeJobs \in [RequestIds -> JobStates]
      /\ handlerAt \in [Handlers -> HandlerPoints]
      /\ request \in [Handlers -> RequestIds \cup {None}]
      /\ \A h \in Handlers : handlerAt[h] = "Idle"
  BY DEF Init, JobStates, HandlerPoints
<1> QED
  BY <1>1, <1>2 DEF Init, TypeOK, MgrPoints

(* The type invariant of ResourceManager. *)
THEOREM TypeCorrect == Spec => []TypeOK
  BY InitType, TypeStep, PTL DEF Spec

-----------------------------------------------------------------------------
(* Safety.  Run's test Size() == Capacity() means "full" only because the    *)
(* runner never holds more than its capacity; and the id in hand stays       *)
(* startable because only the manager thread adds to the runner.             *)

RunnerBounded == Cardinality(ActiveIds) =< JobCapacity

Startable == mgrAt \in {"StartSize", "StartImpl"} => popped \notin ActiveIds

Inv ==
    /\ TypeOK
    /\ QueuedIdsSound
    /\ QueueBounded
    /\ RunnerBounded
    /\ RoomForPopped
    /\ RetrieveCannotThrow
    /\ Startable

LEMMA ActiveFinite == IsFiniteSet(ActiveIds) /\ Cardinality(ActiveIds) \in Nat
  BY FS_Subset, FS_CardinalityType DEF ActiveIds

(* What the queue's critical sections do to the set of queued ids. *)
LEMMA QueueStep ==
  ASSUME TypeOK, QueuedIdsSound, QueueBounded,
         \/ \E id \in RequestIds : Enqueue(id)
         \/ PopNextRequest
         \/ UNCHANGED queueVars
         \/ queuedRequests' = <<>> /\ queuedIds' = {}
  PROVE  QueuedIdsSound' /\ QueueBounded'
<1> USE DEF QueuedIdsSound, QueueBounded, InQueue
<1>1. ASSUME NEW id \in RequestIds, Enqueue(id) PROVE QueuedIdsSound' /\ QueueBounded'
  <2>1. /\ Len(queuedRequests') = Len(queuedRequests) + 1
        /\ queuedRequests'[Len(queuedRequests) + 1] = id
        /\ \A i \in 1 .. Len(queuedRequests) : queuedRequests'[i] = queuedRequests[i]
    BY <1>1 DEF Enqueue, TypeOK
  <2>2. QueueBounded'
    BY <1>1, <2>1 DEF Enqueue, QueueFull, TypeOK
  <2>3. ASSUME NEW x \in queuedIds' PROVE InQueue(x)'
    <3>1. CASE x = id
      BY <2>1, <3>1 DEF TypeOK
    <3>2. CASE x \in queuedIds
      BY <2>1, <3>2 DEF TypeOK
    <3> QED
      BY <1>1, <2>3, <3>1, <3>2 DEF Enqueue
  <2> QED
    BY <2>2, <2>3
<1>2. CASE PopNextRequest
  <2>1. /\ Len(queuedRequests') = Len(queuedRequests) - 1
        /\ \A i \in 1 .. Len(queuedRequests') : queuedRequests'[i] = queuedRequests[i + 1]
        /\ Head(queuedRequests) = queuedRequests[1]
    BY <1>2 DEF PopNextRequest, TypeOK
  <2>2. QueueBounded'
    BY <2>1 DEF TypeOK
  <2>3. ASSUME NEW x \in queuedIds' PROVE InQueue(x)'
    <3>1. x \in queuedIds /\ x # queuedRequests[1]
      BY <1>2, <2>1 DEF PopNextRequest
    <3>2. PICK i \in 1 .. Len(queuedRequests) : queuedRequests[i] = x
      BY <3>1
    <3>3. i - 1 \in 1 .. Len(queuedRequests') /\ queuedRequests'[i - 1] = x
      BY <2>1, <3>1, <3>2 DEF TypeOK
    <3> QED
      BY <3>3
  <2> QED
    BY <2>2, <2>3
<1>3. CASE UNCHANGED queueVars
  BY <1>3 DEF queueVars
<1>4. CASE queuedRequests' = <<>> /\ queuedIds' = {}
  BY <1>4
<1> QED
  BY <1>1, <1>2, <1>3, <1>4

(* A step that adds nothing to the runner leaves the room there was. *)
LEMMA RunnerShrinks ==
  ASSUME ActiveIds' \subseteq ActiveIds
  PROVE  /\ RunnerBounded => RunnerBounded'
         /\ ~RunnerFull => ~RunnerFull'
<1>1. Cardinality(ActiveIds') =< Cardinality(ActiveIds) /\ Cardinality(ActiveIds') \in Nat
  BY ActiveFinite, FS_Subset, FS_CardinalityType
<1> QED
  BY <1>1, ActiveFinite DEF RunnerBounded, RunnerFull

LEMMA RunnerUnchanged ==
  ASSUME UNCHANGED activeJobs
  PROVE  ActiveIds' = ActiveIds /\ (RunnerFull' <=> RunnerFull) /\ (RunnerBounded => RunnerBounded')
  BY DEF ActiveIds, RunnerFull, RunnerBounded

(* Every step preserves the invariant. *)
LEMMA InvStep == Inv /\ [Next]_vars => Inv'
<1> SUFFICES ASSUME Inv, [Next]_vars PROVE Inv'
  OBVIOUS
<1>t. TypeOK /\ TypeOK'
  BY TypeStep DEF Inv
<1> DEFINE RunnerInv == RunnerBounded /\ RoomForPopped /\ RetrieveCannotThrow /\ Startable
<1> SUFFICES QueuedIdsSound' /\ QueueBounded' /\ RunnerInv'
  BY <1>t DEF Inv
<1> USE DEF RoomForPopped, RetrieveCannotThrow, Startable
<1>1. CASE UNCHANGED vars
  <2>1. QueuedIdsSound' /\ QueueBounded'
    BY <1>1, QueueStep DEF Inv, vars
  <2> QED
    BY <1>1, <2>1, RunnerUnchanged DEF Inv, vars, mgrVars
<1>2. CASE MgrLoop
  <2>1. QueuedIdsSound' /\ QueueBounded'
    BY <1>2, QueueStep DEF Inv, MgrLoop
  <2>2. \A id \in completed' : mgrAt' = "Cleanup" /\ activeJobs'[id] = "ready"
    BY <1>2 DEF Inv, MgrLoop, GoTo, GetCompletedJobIds
  <2> QED
    BY <1>2, <2>1, <2>2, RunnerUnchanged DEF Inv, MgrLoop, GoTo
<1>3. ASSUME NEW id \in RequestIds, MgrRetrieve(id)
      PROVE  QueuedIdsSound' /\ QueueBounded' /\ RunnerInv'
  <2>1. QueuedIdsSound' /\ QueueBounded'
    BY <1>3, QueueStep DEF Inv, MgrRetrieve
  <2>2. ActiveIds' \subseteq ActiveIds
    BY <1>3, <1>t DEF MgrRetrieve, ActiveIds, TypeOK
  <2>3. \A x \in completed' : mgrAt' = "Cleanup" /\ activeJobs'[x] = "ready"
    BY <1>3, <1>t DEF Inv, MgrRetrieve, TypeOK
  <2> QED
    BY <1>3, <2>1, <2>2, <2>3, RunnerShrinks DEF Inv, MgrRetrieve
<1>4. CASE MgrEmpty
  <2>1. QueuedIdsSound' /\ QueueBounded'
    BY <1>4, QueueStep DEF Inv, MgrEmpty
  <2> QED
    BY <1>4, <2>1, RunnerUnchanged DEF Inv, MgrEmpty, GoTo
<1>5. CASE MgrSize
  <2>1. QueuedIdsSound' /\ QueueBounded'
    BY <1>5, QueueStep DEF Inv, MgrSize
  <2>2. Cardinality(ActiveIds) # JobCapacity => ~RunnerFull
    BY ActiveFinite DEF Inv, RunnerBounded, RunnerFull
  <2> QED
    BY <1>5, <2>1, <2>2, RunnerUnchanged DEF Inv, MgrSize, GoTo
<1>6. CASE MgrPop
  <2>1. QueuedIdsSound' /\ QueueBounded'
    BY <1>6, QueueStep DEF Inv, MgrPop
  <2> QED
    BY <1>6, <2>1, RunnerUnchanged DEF Inv, MgrPop, GoTo
<1>7. CASE MgrHasQueued
  <2>1. QueuedIdsSound' /\ QueueBounded'
    BY <1>7, QueueStep DEF Inv, MgrHasQueued
  <2> QED
    BY <1>7, <2>1, RunnerUnchanged DEF Inv, MgrHasQueued, EndRunOnce, GoTo
<1>8. CASE MgrHasActive
  <2>1. QueuedIdsSound' /\ QueueBounded'
    BY <1>8, QueueStep DEF Inv, MgrHasActive
  <2> QED
    BY <1>8, <2>1, RunnerUnchanged DEF Inv, MgrHasActive, EndRunOnce, GoTo
<1>9. CASE MgrStartSize
  <2>1. QueuedIdsSound' /\ QueueBounded'
    BY <1>9, QueueStep DEF Inv, MgrStartSize
  <2> QED
    BY <1>9, <2>1, RunnerUnchanged DEF Inv, MgrStartSize, EndRunOnce, GoTo
<1>10. CASE MgrStartImpl
  <2>1. QueuedIdsSound' /\ QueueBounded'
    BY <1>10, QueueStep DEF Inv, MgrStartImpl
  <2>2. completed = {} /\ completed' = {} /\ mgrAt' = "Loop"
    BY <1>10 DEF Inv, MgrStartImpl, EndRunOnce, GoTo
  <2>3. RunnerBounded'
    <3>1. CASE UNCHANGED activeJobs
      BY <3>1, RunnerUnchanged DEF Inv
    <3>2. CASE InsertNewJob(popped)
      <4>1. ActiveIds' = ActiveIds \cup {popped}
        BY <1>10, <1>t, <3>2 DEF InsertNewJob, ActiveIds, TypeOK, MgrStartImpl
      <4>2. Cardinality(ActiveIds') = Cardinality(ActiveIds) + 1
        BY <3>2, <4>1, ActiveFinite, FS_AddElement DEF InsertNewJob
      <4> QED
        BY <3>2, <4>2, ActiveFinite DEF InsertNewJob, RunnerBounded, RunnerFull
    <3> QED
      BY <1>10, <3>1, <3>2 DEF MgrStartImpl
  <2> QED
    BY <2>1, <2>2, <2>3
<1>11. ASSUME NEW h \in Handlers, HandlerStep(h)
       PROVE  QueuedIdsSound' /\ QueueBounded' /\ RunnerInv'
  <2>1. UNCHANGED <<activeJobs, mgrVars>>
    BY <1>11 DEF HandlerStep, HandlerHasQueued, HandlerHasActive, HandlerSize, HandlerEnqueue
  <2>2. UNCHANGED queueVars \/ (Enqueue(request[h]) /\ request[h] \in RequestIds)
    BY <1>11, <1>t DEF HandlerStep, HandlerHasQueued, HandlerHasActive, HandlerSize,
                       HandlerEnqueue, TypeOK
  <2>3. QueuedIdsSound' /\ QueueBounded'
    BY <2>2, QueueStep DEF Inv
  <2> QED
    BY <2>1, <2>3, RunnerUnchanged DEF Inv, mgrVars
<1>12. ASSUME NEW h \in Handlers, NEW id \in RequestIds, HandleStartBuildRequest(h, id)
       PROVE  QueuedIdsSound' /\ QueueBounded' /\ RunnerInv'
  <2>1. QueuedIdsSound' /\ QueueBounded'
    BY <1>12, QueueStep DEF Inv, HandleStartBuildRequest
  <2> QED
    BY <1>12, <2>1, RunnerUnchanged DEF Inv, HandleStartBuildRequest, mgrVars
<1>13. ASSUME NEW id \in RequestIds, JobFinish(id)
       PROVE  QueuedIdsSound' /\ QueueBounded' /\ RunnerInv'
  <2>1. QueuedIdsSound' /\ QueueBounded'
    BY <1>13, QueueStep DEF Inv, JobFinish
  <2>2. ActiveIds' = ActiveIds
    BY <1>13, <1>t DEF JobFinish, ActiveIds, TypeOK
  <2>3. \A x \in completed : activeJobs'[x] = "ready"
    BY <1>13, <1>t DEF Inv, JobFinish, TypeOK
  <2> QED
    BY <1>13, <2>1, <2>2, <2>3, RunnerShrinks DEF Inv, JobFinish, mgrVars
<1>14. CASE Stop
  <2>1. QueuedIdsSound' /\ QueueBounded'
    BY <1>14, QueueStep DEF Inv, Stop
  <2> QED
    BY <1>14, <2>1, RunnerUnchanged DEF Inv, Stop, mgrVars
<1>15. CASE ClearQueue
  <2>1. QueuedIdsSound' /\ QueueBounded'
    BY <1>15, QueueStep DEF Inv, ClearQueue
  <2> QED
    BY <1>15, <2>1, RunnerUnchanged DEF Inv, ClearQueue, mgrVars
<1> QED
  BY <1>1, <1>2, <1>3, <1>4, <1>5, <1>6, <1>7, <1>8, <1>9, <1>10, <1>11, <1>12,
     <1>13, <1>14, <1>15 DEF Next, MgrStep

LEMMA InitInv == Init => Inv
<1> SUFFICES ASSUME Init PROVE Inv
  OBVIOUS
<1>1. TypeOK
  BY InitType
<1>2. ActiveIds = {}
  BY DEF Init, ActiveIds
<1>3. RunnerBounded
  BY <1>2, FS_EmptySet DEF RunnerBounded
<1> QED
  BY <1>1, <1>3 DEF Init, Inv, QueuedIdsSound, QueueBounded, RoomForPopped,
                    RetrieveCannotThrow, Startable

(* The pipeline's safety: the queue never claims an id it does not hold and  *)
(* keeps to its capacity, a popped request always finds room, and neither    *)
(* RetrieveResult nor InsertNewJob ever throws in the manager thread.        *)
THEOREM Safety ==
  Spec => []( /\ QueuedIdsSound
              /\ QueueBounded
              /\ ServiceNeverThrows )
<1>1. Inv => InsertCannotThrow
  BY DEF Inv, InsertCannotThrow, RoomForPopped, Startable
<1>2. Spec => []Inv
  BY InitInv, InvStep, PTL DEF Spec
<1>3. Inv => /\ QueuedIdsSound
             /\ QueueBounded
             /\ ServiceNeverThrows
  BY <1>1 DEF Inv, ServiceNeverThrows
<1> QED
  BY <1>2, <1>3, PTL

(* Of the two containers of RequestQueue, however the handlers interleave:    *)
(* an id that the set holds waits in the deque, so that no request is         *)
(* answered OK on account of one that is gone (request_queue.h, Enqueue and   *)
(* PopNextRequest).                                                           *)
THEOREM QueueStaysSound == Spec => []QueuedIdsSound
BY Safety, PTL

-----------------------------------------------------------------------------
(* Refinement.                                                               *)

(* tlapm keeps one copy of Cardinality per instance. *)
LEMMA SameCardinality == Abstract!Cardinality(ActiveIds) = Cardinality(ActiveIds)
  BY DEF Cardinality, Abstract!Cardinality, Abstract!IsFiniteSet, IsFiniteSet

(* Each step of the pipeline is a step of the abstract service, or none.     *)
LEMMA RefinesStep == Inv /\ Inv' /\ [Next]_vars => [Abstract!Next]_(Abstract!vars)
<1> SUFFICES ASSUME Inv, Inv', [Next]_vars PROVE [Abstract!Next]_(Abstract!vars)
  OBVIOUS
<1> DEFINE AbsNext == [Abstract!Next]_(Abstract!vars)
<1>t. TypeOK /\ TypeOK'
  BY DEF Inv
<1>s. UNCHANGED <<queuedRequests, popped, activeJobs>> => AbsNext
  BY DEF Abstract!vars, ActiveIds
<1>1. CASE UNCHANGED vars
  BY <1>1, <1>s DEF vars, queueVars, mgrVars
<1>2. CASE MgrLoop \/ MgrEmpty \/ MgrSize
  BY <1>2, <1>s DEF MgrLoop, MgrEmpty, MgrSize, queueVars
<1>3. ASSUME NEW id \in RequestIds, MgrRetrieve(id) PROVE AbsNext
  <2>1. id \in ActiveIds /\ ActiveIds' = ActiveIds \ {id}
    BY <1>3, <1>t DEF Inv, MgrRetrieve, RetrieveCannotThrow, ActiveIds, TypeOK
  <2>2. Abstract!Collect(id)
    BY <1>3, <2>1 DEF MgrRetrieve, queueVars, Abstract!Collect
  <2> QED
    BY <2>2 DEF Abstract!Next
<1>4. CASE MgrPop
  <2>1. CASE PopNextRequest
    <3>1. popped = None /\ UNCHANGED ActiveIds
      BY <1>4, <1>t DEF MgrPop, TypeOK, ActiveIds
    <3>2. Cardinality(ActiveIds) < JobCapacity
      BY <1>4, ActiveFinite DEF Inv, MgrPop, RoomForPopped, RunnerFull
    <3>3. Abstract!Take
      BY <2>1, <3>1, <3>2, SameCardinality DEF PopNextRequest, Abstract!Take
    <3> QED
      BY <3>3 DEF Abstract!Next
  <2> QED
    BY <1>4, <1>s, <2>1 DEF MgrPop, queueVars
<1>5. CASE MgrHasQueued
  <2>1. CASE popped \in queuedIds
    <3>1. popped # None /\ UNCHANGED ActiveIds
      BY <1>5, <1>t DEF MgrHasQueued, TypeOK, ActiveIds
    <3>2. Abstract!WaitingAgain(popped)
      BY <2>1 DEF Inv, QueuedIdsSound, InQueue, Abstract!WaitingAgain
    <3>3. Abstract!Refuse
      BY <1>5, <2>1, <3>1, <3>2
      DEF MgrHasQueued, EndRunOnce, queueVars, Abstract!Refuse
    <3> QED
      BY <3>3 DEF Abstract!Next
  <2> QED
    BY <1>5, <1>s, <2>1 DEF MgrHasQueued, queueVars
<1>6. CASE MgrHasActive
  <2>1. CASE popped \in ActiveIds
    <3>1. popped # None /\ UNCHANGED ActiveIds
      BY <1>6, <1>t DEF MgrHasActive, TypeOK, ActiveIds
    <3>2. Abstract!Refuse
      BY <1>6, <2>1, <3>1 DEF MgrHasActive, EndRunOnce, queueVars, Abstract!Refuse
    <3> QED
      BY <3>2 DEF Abstract!Next
  <2> QED
    BY <1>6, <1>s, <2>1 DEF MgrHasActive, queueVars
<1>7. CASE MgrStartSize
  <2>1. ~RunnerFull
    BY <1>7 DEF Inv, MgrStartSize, RoomForPopped
  <2> QED
    BY <1>7, <1>s, <2>1 DEF MgrStartSize, queueVars
<1>8. CASE MgrStartImpl
  <2>1. popped \in RequestIds \ ActiveIds /\ ~RunnerFull
    BY <1>8, <1>t DEF Inv, MgrStartImpl, RoomForPopped, Startable, TypeOK
  <2>2. CASE popped \in InvalidIds
    <3>1. UNCHANGED ActiveIds
      BY <1>8, <2>2 DEF MgrStartImpl, ActiveIds
    <3>2. Abstract!Refuse
      BY <1>8, <2>1, <2>2, <3>1
      DEF MgrStartImpl, EndRunOnce, queueVars, Abstract!Refuse
    <3> QED
      BY <3>2 DEF Abstract!Next
  <2>3. CASE popped \notin InvalidIds
    <3>1. InsertNewJob(popped)
      BY <1>8, <2>1, <2>3 DEF MgrStartImpl
    <3>2. ActiveIds' = ActiveIds \cup {popped}
      BY <1>t, <2>1, <3>1 DEF InsertNewJob, ActiveIds, TypeOK
    <3>3. Cardinality(ActiveIds) < JobCapacity
      BY <2>1, ActiveFinite DEF RunnerFull
    <3>4. Abstract!Start
      BY <1>8, <2>1, <2>3, <3>2, <3>3, SameCardinality
      DEF MgrStartImpl, EndRunOnce, queueVars, Abstract!Start
    <3> QED
      BY <3>4 DEF Abstract!Next
  <2> QED
    BY <2>2, <2>3
<1>9. ASSUME NEW h \in Handlers, HandlerStep(h) PROVE AbsNext
  <2>1. UNCHANGED <<popped, ActiveIds>>
    BY <1>9 DEF HandlerStep, HandlerHasQueued, HandlerHasActive, HandlerSize,
                HandlerEnqueue, mgrVars, ActiveIds
  <2>2. CASE UNCHANGED queueVars
    BY <2>1, <2>2 DEF queueVars, Abstract!vars
  <2>3. CASE HandlerEnqueue(h) /\ Enqueue(request[h])
    <3>1. request[h] \in RequestIds
      BY <2>3, <1>t DEF HandlerEnqueue, TypeOK
    <3>2. Len(queuedRequests) < QueueCapacity
      BY <2>3, <1>t DEF Enqueue, QueueFull, TypeOK
    <3>3. Abstract!Accept(request[h])
      BY <2>1, <2>3, <3>2 DEF Enqueue, Abstract!Accept
    <3> QED
      BY <3>1, <3>3 DEF Abstract!Next
  <2> QED
    BY <1>9, <2>2, <2>3 DEF HandlerStep, HandlerHasQueued, HandlerHasActive,
                            HandlerSize, HandlerEnqueue
<1>10. ASSUME NEW h \in Handlers, NEW id \in RequestIds, HandleStartBuildRequest(h, id)
       PROVE  AbsNext
  BY <1>10, <1>s DEF HandleStartBuildRequest, queueVars, mgrVars
<1>11. ASSUME NEW id \in RequestIds, JobFinish(id) PROVE AbsNext
  <2>1. ActiveIds' = ActiveIds
    BY <1>11, <1>t DEF JobFinish, ActiveIds, TypeOK
  <2> QED
    BY <1>11, <2>1 DEF JobFinish, queueVars, mgrVars, Abstract!vars
<1>12. CASE Stop
  BY <1>12, <1>s DEF Stop, queueVars, mgrVars
<1>13. CASE ClearQueue
  <2>1. Abstract!Forget
    BY <1>13 DEF ClearQueue, mgrVars, ActiveIds, Abstract!Forget
  <2> QED
    BY <2>1 DEF Abstract!Next
<1> QED
  BY <1>1, <1>2, <1>3, <1>4, <1>5, <1>6, <1>7, <1>8, <1>9, <1>10, <1>11, <1>12,
     <1>13 DEF Next, MgrStep

(* The pipeline implements the first-come first-served job service that      *)
(* loses no accepted request.                                                *)
THEOREM Refinement == Spec => ImplementsJobService
<1>1. Init => Abstract!Init
  BY DEF Init, ActiveIds, Abstract!Init
<1>2. Spec => []Inv
  BY InitInv, InvStep, PTL DEF Spec
<1> QED
  BY <1>1, <1>2, RefinesStep, PTL DEF Spec, ImplementsJobService, Abstract!Spec
=============================================================================

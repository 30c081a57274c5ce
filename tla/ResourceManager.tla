-------------------------- MODULE ResourceManager --------------------------
(***************************************************************************)
(* The job pipeline of the IRIS builder process: RequestQueue (a bounded   *)
(* deque and the set of the ids in it, under queue_mtx_), JobRunner (a map *)
(* from ids to futures, under jobs_mtx_), the manager thread that moves    *)
(* requests from the one to the other, and the gRPC threads that queue     *)
(* them.  Every method of the queue and of the runner is one critical      *)
(* section and therefore one step here; ResourceManager's own methods hold *)
(* no lock, so HasJob, QueueRequest, StartJob and Run are sequences of     *)
(* steps between which every other thread may run.                         *)
(***************************************************************************)
EXTENDS Naturals, Sequences, FiniteSets

CONSTANTS
    RequestIds,     \* identifiers of build requests
    InvalidIds,     \* the requests whose planning context carries no valid id
    Handlers,       \* gRPC threads inside HandleStartBuildRequest
    QueueCapacity,  \* max_queue_size
    JobCapacity,    \* max_active_jobs
    None            \* no request

ASSUME CapacityAssumption ==
    /\ QueueCapacity \in Nat \ {0}
    /\ JobCapacity \in Nat \ {0}

ASSUME RequestAssumption ==
    /\ InvalidIds \subseteq RequestIds
    /\ IsFiniteSet(RequestIds)
    /\ None \notin RequestIds

VARIABLES
    queuedRequests, \* RequestQueue::queued_requests_
    queuedIds,      \* RequestQueue::queued_ids_
    activeJobs,     \* JobRunner::active_jobs_: the state of each id's future
    stopTriggered,  \* ResourceManager::stop_triggered_
    mgrAt,          \* where the manager thread is in Run
    popped,         \* the request the manager has popped and not yet started
    completed,      \* Cleanup's copy of the completed ids, still to retrieve
    handlerAt,      \* where each gRPC thread is in QueueRequest
    request         \* the id each gRPC thread is queueing

queueVars == <<queuedRequests, queuedIds>>
mgrVars == <<mgrAt, popped, completed>>
handlerVars == <<handlerAt, request>>
vars == <<queueVars, activeJobs, stopTriggered, mgrVars, handlerVars>>

JobStates == {"absent", "running", "ready"}
MgrPoints == {"Loop", "Cleanup", "Size", "Pop", "HasQueued", "HasActive",
              "StartSize", "StartImpl", "Stopped"}
HandlerPoints == {"Idle", "HasQueued", "HasActive", "Size", "Enqueue"}

TypeOK ==
    /\ queuedRequests \in Seq(RequestIds)
    /\ queuedIds \subseteq RequestIds
    /\ activeJobs \in [RequestIds -> JobStates]
    /\ stopTriggered \in BOOLEAN
    /\ mgrAt \in MgrPoints
    /\ popped \in RequestIds \cup {None}
    /\ completed \subseteq RequestIds
    /\ handlerAt \in [Handlers -> HandlerPoints]
    /\ request \in [Handlers -> RequestIds \cup {None}]
    /\ \A h \in Handlers : handlerAt[h] # "Idle" => request[h] \in RequestIds
    /\ mgrAt \in {"HasQueued", "HasActive", "StartSize", "StartImpl"}
          <=> popped \in RequestIds

Init ==
    /\ queuedRequests = <<>>
    /\ queuedIds = {}
    /\ activeJobs = [id \in RequestIds |-> "absent"]
    /\ stopTriggered = FALSE
    /\ mgrAt = "Loop"
    /\ popped = None
    /\ completed = {}
    /\ handlerAt = [h \in Handlers |-> "Idle"]
    /\ request = [h \in Handlers |-> None]

-----------------------------------------------------------------------------
(* RequestQueue and JobRunner: one definition per critical section.         *)

QueueFull == Len(queuedRequests) >= QueueCapacity

ActiveIds == {id \in RequestIds : activeJobs[id] # "absent"}

RunnerFull == Cardinality(ActiveIds) >= JobCapacity

GetCompletedJobIds == {id \in RequestIds : activeJobs[id] = "ready"}

(* Mutated: a retried request jumps the queue. *)
EnqueueFront(id) ==
    /\ ~QueueFull
    /\ queuedRequests' = <<id>> \o queuedRequests
    /\ queuedIds' = queuedIds \cup {id}

(* An id already in the set is only logged: the request is queued again. *)
Enqueue(id) ==
    /\ ~QueueFull
    /\ queuedRequests' = Append(queuedRequests, id)
    /\ queuedIds' = queuedIds \cup {id}

(* Mutated: the id of a popped request stays in the set. *)
PopKeepsId ==
    /\ queuedRequests # <<>>
    /\ popped' = Head(queuedRequests)
    /\ queuedRequests' = Tail(queuedRequests)
    /\ UNCHANGED queuedIds

PopNextRequest ==
    /\ queuedRequests # <<>>
    /\ popped' = Head(queuedRequests)
    /\ queuedRequests' = Tail(queuedRequests)
    /\ queuedIds' = queuedIds \ {Head(queuedRequests)}

(* std::async is entered at once: the job runs as soon as it is in the map. *)
InsertNewJob(id) ==
    /\ id \notin ActiveIds
    /\ ~RunnerFull
    /\ activeJobs' = [activeJobs EXCEPT ![id] = "running"]

-----------------------------------------------------------------------------
(* gRPC threads: HandleStartBuildRequest calls QueueRequest.                *)

(* The status a call returns is named where it returns, and not recorded.   *)
Return(h) ==
    /\ handlerAt' = [handlerAt EXCEPT ![h] = "Idle"]
    /\ request' = [request EXCEPT ![h] = None]

Continue(h, point) ==
    /\ handlerAt' = [handlerAt EXCEPT ![h] = point]
    /\ UNCHANGED request

HandleStartBuildRequest(h, id) ==
    /\ handlerAt[h] = "Idle"
    /\ handlerAt' = [handlerAt EXCEPT ![h] = "HasQueued"]
    /\ request' = [request EXCEPT ![h] = id]
    /\ UNCHANGED <<queueVars, activeJobs, stopTriggered, mgrVars>>

(* First half of HasJob; a known request is ignored, with status OK. *)
HandlerHasQueued(h) ==
    /\ handlerAt[h] = "HasQueued"
    /\ IF request[h] \in queuedIds THEN Return(h) ELSE Continue(h, "HasActive")
    /\ UNCHANGED <<queueVars, activeJobs, stopTriggered, mgrVars>>

(* Second half of HasJob, after queue_mtx_ was released. *)
HandlerHasActive(h) ==
    /\ handlerAt[h] = "HasActive"
    /\ IF request[h] \in ActiveIds THEN Return(h) ELSE Continue(h, "Size")
    /\ UNCHANGED <<queueVars, activeJobs, stopTriggered, mgrVars>>

(* A full queue is reported as RESOURCE_EXHAUSTED. *)
HandlerSize(h) ==
    /\ handlerAt[h] = "Size"
    /\ IF QueueFull THEN Return(h) ELSE Continue(h, "Enqueue")
    /\ UNCHANGED <<queueVars, activeJobs, stopTriggered, mgrVars>>

(* OK, or queue_at_capacity_error escapes QueueRequest and becomes INTERNAL. *)
HandlerEnqueue(h) ==
    /\ handlerAt[h] = "Enqueue"
    /\ \/ Enqueue(request[h]) /\ Return(h)
       \/ QueueFull /\ Return(h) /\ UNCHANGED queueVars
    /\ UNCHANGED <<activeJobs, stopTriggered, mgrVars>>

HandlerStep(h) ==
    \/ HandlerHasQueued(h)
    \/ HandlerHasActive(h)
    \/ HandlerSize(h)
    \/ HandlerEnqueue(h)

-----------------------------------------------------------------------------
(* The manager thread: Run, with IrisBuildManager's Cleanup and StartJobImpl. *)

GoTo(point) == mgrAt' = point

(* RunOnce is over; a request that was not started is gone, its error logged. *)
EndRunOnce == popped' = None /\ GoTo("Loop")

(* Mutated: Run does not look at the stop flag. *)
StopSeenNever == FALSE

StopSeen == stopTriggered

(* The while condition, then the GetCompletedJobIds of Cleanup. *)
MgrLoop ==
    /\ mgrAt = "Loop"
    /\ IF StopSeen
       THEN GoTo("Stopped") /\ UNCHANGED completed
       ELSE /\ completed' = GetCompletedJobIds
            /\ GoTo("Cleanup")
    /\ UNCHANGED <<queueVars, activeJobs, stopTriggered, popped, handlerVars>>

(* One turn of Cleanup's loop: RetrieveResult, which erases the entry whether *)
(* the job returned a value or threw.                                         *)
MgrRetrieve(id) ==
    /\ mgrAt = "Cleanup"
    /\ id \in completed
    /\ activeJobs' = [activeJobs EXCEPT ![id] = "absent"]
    /\ completed' = completed \ {id}
    /\ UNCHANGED <<queueVars, stopTriggered, mgrAt, popped, handlerVars>>

(* Mutated: the branches of the test for an empty queue are swapped. *)
MgrEmptySwapped ==
    /\ mgrAt = "Cleanup"
    /\ completed = {}
    /\ IF queuedRequests = <<>> THEN GoTo("Size") ELSE GoTo("Loop")
    /\ UNCHANGED <<queueVars, activeJobs, stopTriggered, popped, completed, handlerVars>>

MgrEmpty ==
    /\ mgrAt = "Cleanup"
    /\ completed = {}
    /\ IF queuedRequests = <<>> THEN GoTo("Loop") ELSE GoTo("Size")
    /\ UNCHANGED <<queueVars, activeJobs, stopTriggered, popped, completed, handlerVars>>

MgrSize ==
    /\ mgrAt = "Size"
    /\ IF Cardinality(ActiveIds) = JobCapacity THEN GoTo("Loop") ELSE GoTo("Pop")
    /\ UNCHANGED <<queueVars, activeJobs, stopTriggered, popped, completed, handlerVars>>

(* RunOnce: the queue may have been cleared since Empty was called. *)
MgrPop ==
    /\ mgrAt = "Pop"
    /\ \/ PopNextRequest /\ GoTo("HasQueued")
       \/ queuedRequests = <<>> /\ GoTo("Loop") /\ UNCHANGED <<queueVars, popped>>
    /\ UNCHANGED <<activeJobs, stopTriggered, completed, handlerVars>>

(* StartJob's HasJob: the same id may have been queued again since the pop. *)
MgrHasQueued ==
    /\ mgrAt = "HasQueued"
    /\ IF popped \in queuedIds THEN EndRunOnce ELSE GoTo("HasActive") /\ UNCHANGED popped
    /\ UNCHANGED <<queueVars, activeJobs, stopTriggered, completed, handlerVars>>

(* Mutated: StartJob looks only into the queue. *)
MgrHasActiveUnchecked ==
    /\ mgrAt = "HasActive"
    /\ GoTo("StartSize")
    /\ UNCHANGED <<queueVars, activeJobs, stopTriggered, popped, completed, handlerVars>>

MgrHasActive ==
    /\ mgrAt = "HasActive"
    /\ IF popped \in ActiveIds THEN EndRunOnce ELSE GoTo("StartSize") /\ UNCHANGED popped
    /\ UNCHANGED <<queueVars, activeJobs, stopTriggered, completed, handlerVars>>

MgrStartSize ==
    /\ mgrAt = "StartSize"
    /\ IF RunnerFull THEN EndRunOnce ELSE GoTo("StartImpl") /\ UNCHANGED popped
    /\ UNCHANGED <<queueVars, activeJobs, stopTriggered, completed, handlerVars>>

(* InsertNewJob throws when the id is taken or the runner is full. *)
MgrStartImpl ==
    /\ mgrAt = "StartImpl"
    /\ IF popped \in InvalidIds \/ popped \in ActiveIds \/ RunnerFull
       THEN UNCHANGED activeJobs
       ELSE InsertNewJob(popped)
    /\ EndRunOnce
    /\ UNCHANGED <<queueVars, stopTriggered, completed, handlerVars>>

MgrStep ==
    \/ MgrLoop
    \/ \E id \in RequestIds : MgrRetrieve(id)
    \/ MgrEmpty
    \/ MgrSize
    \/ MgrPop
    \/ MgrHasQueued
    \/ MgrHasActive
    \/ MgrStartSize
    \/ MgrStartImpl

-----------------------------------------------------------------------------
(* The job threads, and the two calls that come from outside the pipeline.   *)

(* BuildRegions returns or throws: either way its future becomes ready.      *)
JobFinish(id) ==
    /\ activeJobs[id] = "running"
    /\ activeJobs' = [activeJobs EXCEPT ![id] = "ready"]
    /\ UNCHANGED <<queueVars, stopTriggered, mgrVars, handlerVars>>

Stop ==
    /\ ~stopTriggered
    /\ stopTriggered' = TRUE
    /\ UNCHANGED <<queueVars, activeJobs, mgrVars, handlerVars>>

ClearQueue ==
    /\ queuedRequests' = <<>>
    /\ queuedIds' = {}
    /\ UNCHANGED <<activeJobs, stopTriggered, mgrVars, handlerVars>>

Next ==
    \/ MgrStep
    \/ \E h \in Handlers : HandlerStep(h)
    \/ \E h \in Handlers, id \in RequestIds : HandleStartBuildRequest(h, id)
    \/ \E id \in RequestIds : JobFinish(id)
    \/ Stop
    \/ ClearQueue

Spec == Init /\ [][Next]_vars

(* Every thread that can run does: they are OS threads, no lock is held      *)
(* across a wait, and the region builder bounds its own iterations.          *)
Fairness ==
    /\ WF_vars(MgrStep)
    /\ \A h \in Handlers : WF_vars(HandlerStep(h))
    /\ \A id \in RequestIds : WF_vars(JobFinish(id))

FairSpec == Spec /\ Fairness

-----------------------------------------------------------------------------
(* Properties                                                                *)

InQueue(id) == \E i \in 1 .. Len(queuedRequests) : queuedRequests[i] = id

(* An id the queue claims to hold really waits in it.  Were it not so,       *)
(* QueueRequest would answer OK to every later request for that id without   *)
(* ever queueing one, although two threads can queue the same id twice and   *)
(* the deque and the set then disagree (request_queue.h, Enqueue and         *)
(* PopNextRequest).                                                          *)
QueuedIdsSound == \A id \in queuedIds : InQueue(id)

(* However the capacity tests of QueueRequest race, the queue keeps to its   *)
(* capacity: Enqueue tests again under its lock.                             *)
QueueBounded == Len(queuedRequests) =< QueueCapacity

(* A request is popped only while the runner has room, and the room stays    *)
(* until the request is started: a popped request is in no container, so a   *)
(* refusal for lack of room would lose it although its client was told OK.   *)
RoomForPopped ==
    mgrAt \in {"Pop", "HasQueued", "HasActive", "StartSize", "StartImpl"}
        => ~RunnerFull

(* RetrieveResult throws for a job that is absent or not ready, and the      *)
(* manager thread would die of it, for Run calls Cleanup outside any try:    *)
(* the ids that Cleanup copied stay retrievable until it comes to them.      *)
RetrieveCannotThrow ==
    \A id \in completed : mgrAt = "Cleanup" /\ activeJobs[id] = "ready"

(* InsertNewJob never throws: between StartJob's tests and the insertion no  *)
(* other thread can start the same id or take the last place.                *)
InsertCannotThrow ==
    mgrAt = "StartImpl" => popped \notin ActiveIds /\ ~RunnerFull

(* No exception can end the manager thread, and none can lose a request that *)
(* was answered with OK (resource_manager.h, StartJob and Run;               *)
(* iris_manager.h, Cleanup).                                                 *)
ServiceNeverThrows ==
    /\ RoomForPopped
    /\ RetrieveCannotThrow
    /\ InsertCannotThrow

Abstract == INSTANCE JobService
    WITH waiting <- queuedRequests, taken <- popped, active <- ActiveIds

(* Threads, locks and races notwithstanding, the pipeline is a first-come    *)
(* first-served job service that loses no accepted request: a request leaves *)
(* it by being started, or because its context is invalid or the same id is  *)
(* active or still waiting.                                                  *)
ImplementsJobService == Abstract!Spec

Pending(id) == InQueue(id) \/ popped = id
BeingRequested(id) == \E h \in Handlers : request[h] = id

(* Once clients stop asking for an id and nobody stops the manager, no       *)
(* request for the id stays pending: with ImplementsJobService, it was       *)
(* started or refused for a good reason.                                     *)
QueueDrains ==
    \A id \in RequestIds :
        <>[]~BeingRequested(id) => <>[]~Pending(id) \/ <>stopTriggered

(* IrisGenerationApp's destructor joins the manager thread: after Stop the   *)
(* thread leaves Run, even in mid-cleanup or with a request in hand.         *)
StopIsObeyed == stopTriggered ~> mgrAt = "Stopped"
=============================================================================

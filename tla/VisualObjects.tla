----------------------------- MODULE VisualObjects -----------------------------
(***************************************************************************)
(* What the browser shows beside the robots: objects that callers place    *)
(* (SetObject, DeleteObject, ToggleObject) and the axes of the model's     *)
(* frames (ToggleFrame, ToggleObject on a model).  The gRPC threads of     *)
(* VisualizerService keep the record of the objects and the axes' flags    *)
(* and hand every change of the browser to the hub's thread as a task; the *)
(* hub runs the queued tasks once in every turn of its active loop.        *)
(*                                                                         *)
(* Poses are told apart by the configuration they were computed at.  A     *)
(* request that is refused by its path or its shape changes nothing and is *)
(* left out.                                                               *)
(***************************************************************************)
EXTENDS Naturals, Sequences

CONSTANTS
  Askers,       \* gRPC threads
  Paths,        \* paths of objects, under objects/
  Poses,        \* where an object may be placed
  Frames,       \* records [name, model, static] of the frames with axes
  Models,       \* model instances
  Matches,      \* Matches[m]: the models whose frame paths m is a prefix of
  ShownConfs,        \* configurations
  MaxRequests   \* bound on the requests of a behaviour

Nowhere == 0    \* not in the browser
Away == 99      \* a thousand kilometres below the floor

ASSUME PlacesAssumption ==
  /\ Poses \cup ShownConfs \subseteq 1 .. Away - 1
  /\ Matches \in [Models -> SUBSET Models]
  /\ \A f \in Frames : f.model \in Models /\ f.static \in BOOLEAN

VARIABLES
  up,           \* the hub has a model (status Active)
  web,          \* options_->enable_frame_toggle_web
  turn,         \* where the hub is in its turn
  before,       \* q_before
  shown,         \* the configuration of the model
  recorded,     \* object_transforms_
  hidden,       \* frame_axes_: hidden_by_toggle
  taskQueue,    \* meshcat_task_queue_
  objectAt,     \* the browser: where each object is
  frameAt,      \* ... and where the axes of each frame are
  modelAt,      \* ... and the geometry of each model, Away or not
  asking,       \* the request each gRPC thread is in the middle of
  requests,     \* number of requests so far
  muddled       \* history: the objects and frames whose requests overlapped

browserVars == <<objectAt, frameAt, modelAt>>
viewVars == <<up, web, turn, before, shown, recorded, hidden, taskQueue,
              browserVars, asking, requests, muddled>>

NoRequest == <<>>
Task(kind, what, where) == [kind |-> kind, what |-> what, where |-> where]
Queued(task) == taskQueue' = Append(taskQueue, task)

\* A frame on a body that is welded to the world is where it always is.
PoseOf(f, q) == IF f.static THEN 1 ELSE q
Place(f, q, visible) == IF visible THEN PoseOf(f, q) ELSE Away

ViewInit ==
  /\ up = FALSE /\ web \in BOOLEAN
  /\ turn = "begin" /\ before \in ShownConfs /\ shown = before
  /\ recorded = [p \in Paths |-> Nowhere]
  /\ hidden = [f \in Frames |-> FALSE]
  /\ taskQueue = <<>>
  /\ objectAt = [p \in Paths |-> Nowhere]
  /\ frameAt = [f \in Frames |-> Nowhere]
  /\ modelAt = [m \in Models |-> Nowhere]
  /\ asking = [a \in Askers |-> NoRequest]
  /\ requests = 0
  /\ muddled = {}

-----------------------------------------------------------------------------
(***************************************************************************)
(* The hub's thread.                                                       *)
(***************************************************************************)
\* Draco is built and Setup registers the axes of all frames: hidden by the
\* web's own switch, or put away.  Tasks queued before are still there.
ViewStart ==
  /\ ~up /\ up' = TRUE
  /\ turn' = "begin"
  /\ hidden' = [f \in Frames |-> ~web]
  /\ frameAt' = [f \in Frames |-> Place(f, shown, web)]
  /\ modelAt' = [m \in Models |-> 1]
  /\ UNCHANGED <<web, before, shown, recorded, taskQueue, objectAt, asking,
                 requests, muddled>>

\* The browser and the axes go, the record and the queue stay: a frame whose
\* change is still on its way is a muddle from here on.
Pending(f) ==
  \/ \E i \in DOMAIN taskQueue :
       taskQueue[i].kind = "frames" /\ f \in taskQueue[i].what
  \/ \E a \in Askers : asking[a] # NoRequest /\ asking[a].kind = "frames"
                       /\ f \in asking[a].what
ViewStop ==
  /\ up /\ turn = "begin" /\ up' = FALSE
  /\ hidden' = [f \in Frames |-> FALSE]
  /\ objectAt' = [p \in Paths |-> Nowhere]
  /\ frameAt' = [f \in Frames |-> Nowhere]
  /\ modelAt' = [m \in Models |-> Nowhere]
  /\ muddled' = muddled \cup {f \in Frames : Pending(f)}
  /\ UNCHANGED <<web, turn, before, shown, recorded, taskQueue, asking, requests>>

\* A slider or a pending position moves the robot, or neither does.  Axes
\* whose new place is on its way will be put where the robot was.
Move(q) ==
  /\ up /\ turn = "begin" /\ turn' = "tasks"
  /\ before' = shown /\ shown' = q
  /\ muddled' = muddled \cup
       IF q = shown THEN {} ELSE {f \in Frames : ~f.static /\ Pending(f)}
  /\ UNCHANGED <<up, web, recorded, hidden, taskQueue, browserVars, asking,
                 requests>>

Apply(view, task) ==
  CASE task.kind = "set" -> [view EXCEPT !.object[task.what] = task.where]
    [] task.kind = "delete" -> [view EXCEPT !.object[task.what] = Nowhere]
    [] task.kind = "move" ->                    \* if the browser has the path
         IF view.object[task.what] = Nowhere THEN view
         ELSE [view EXCEPT !.object[task.what] = task.where]
    [] task.kind = "model" -> [view EXCEPT !.model[task.what] = task.where]
    [] task.kind = "frames" ->
         [view EXCEPT !.frame = [f \in Frames |->
            IF f \in task.what THEN task.where[f] ELSE @[f]]]

Browser == [object |-> objectAt, frame |-> frameAt, model |-> modelAt]
ViewAfter ==
  LET view[i \in 0 .. Len(taskQueue)] ==
        IF i = 0 THEN Browser ELSE Apply(view[i - 1], taskQueue[i])
  IN view[Len(taskQueue)]

\* All queued tasks are run under the queue's lock.
RunTasks ==
  /\ up /\ turn = "tasks"
  /\ objectAt' = ViewAfter.object /\ frameAt' = ViewAfter.frame
  /\ modelAt' = ViewAfter.model
  /\ taskQueue' = <<>>
  /\ turn' = IF before = shown THEN "begin" ELSE "axes"
  /\ UNCHANGED <<up, web, before, shown, recorded, hidden, asking, requests,
                 muddled>>

\* Mutated: axes that were put away come back with the next movement.
UpdateAllFrameAxes ==
  /\ up /\ turn = "axes" /\ turn' = "begin"
  /\ frameAt' = [f \in Frames |->
       IF f.static THEN frameAt[f] ELSE PoseOf(f, shown)]
  /\ UNCHANGED <<up, web, before, shown, recorded, hidden, taskQueue, objectAt,
                 modelAt, asking, requests, muddled>>

\* The axes that move and have not been put away follow the robot.
UpdateFrameAxes ==
  /\ up /\ turn = "axes" /\ turn' = "begin"
  /\ frameAt' = [f \in Frames |->
       IF f.static \/ hidden[f] THEN frameAt[f] ELSE PoseOf(f, shown)]
  /\ UNCHANGED <<up, web, before, shown, recorded, hidden, taskQueue, objectAt,
                 modelAt, asking, requests, muddled>>

-----------------------------------------------------------------------------
(***************************************************************************)
(* The gRPC threads.  What is between an assignment and the call of        *)
(* QueueMeshcatTask is a step of its own.                                  *)
(***************************************************************************)
Asks(a) == asking[a] = NoRequest /\ requests < MaxRequests
           /\ requests' = requests + 1
Midway(kind, what) ==
  \E b \in Askers : asking[b] # NoRequest /\ asking[b].what = what
                    /\ asking[b].kind \in kind

\* CalcPose throws without a model; then the pose is recorded.
SetObject(a, p, x) ==
  /\ Asks(a) /\ up
  /\ recorded' = [recorded EXCEPT ![p] = x]
  /\ asking' = [asking EXCEPT ![a] = Task("set", p, x)]
  /\ muddled' = muddled \cup IF Midway({"set", "delete"}, p) THEN {p} ELSE {}
  /\ UNCHANGED <<up, web, turn, before, shown, hidden, taskQueue, browserVars>>

DeleteObject(a, p) ==
  /\ Asks(a)
  /\ recorded' = [recorded EXCEPT ![p] = Nowhere]
  /\ asking' = [asking EXCEPT ![a] = Task("delete", p, Nowhere)]
  /\ muddled' = muddled \cup IF Midway({"set", "delete"}, p) THEN {p} ELSE {}
  /\ UNCHANGED <<up, web, turn, before, shown, hidden, taskQueue, browserVars>>

\* An object is shown where it was recorded; the record's lock is held until
\* the task is queued.  Nothing is queued for one that has no record.
ToggleObject(a, p, visible) ==
  /\ Asks(a)
  /\ IF visible /\ recorded[p] = Nowhere
       THEN UNCHANGED taskQueue
       ELSE Queued(Task("move", p, IF visible THEN recorded[p] ELSE Away))
  /\ UNCHANGED <<up, web, turn, before, shown, recorded, hidden, browserVars,
                 asking, muddled>>

\* The flags change at once, the places are computed for the configuration
\* of the moment, and the task that puts the axes there is queued later.
Toggle(a, frames, visible) ==
  /\ hidden' = [f \in Frames |-> IF f \in frames THEN ~visible ELSE hidden[f]]
  /\ asking' = [asking EXCEPT ![a] =
       Task("frames", frames, [f \in frames |-> Place(f, shown, visible)])]
  /\ muddled' = muddled \cup {f \in frames :
       \E b \in Askers : asking[b] # NoRequest /\ asking[b].kind = "frames"
                         /\ f \in asking[b].what}

\* The geometry of a model and, by the prefix of their paths, the axes of its
\* frames, and those of a model whose name goes on from there.
ToggleModel(a, m, visible) ==
  /\ Asks(a)
  /\ Queued(Task("model", m, IF visible THEN 1 ELSE Away))
  /\ LET frames == {f \in Frames : f.model \in Matches[m]} IN
       IF up /\ frames # {}
         THEN Toggle(a, frames, visible)
         ELSE UNCHANGED <<hidden, asking, muddled>>
  /\ UNCHANGED <<up, web, turn, before, shown, recorded, browserVars>>

\* With the web's own switch the axes stay where they are.
ToggleFrame(a, f, visible) ==
  /\ Asks(a) /\ up /\ ~web
  /\ Toggle(a, {f}, visible)
  /\ UNCHANGED <<up, web, turn, before, shown, recorded, taskQueue, browserVars>>

QueueMeshcatTask(a) ==
  /\ asking[a] # NoRequest
  /\ Queued(asking[a])
  /\ asking' = [asking EXCEPT ![a] = NoRequest]
  /\ UNCHANGED <<up, web, turn, before, shown, recorded, hidden, browserVars,
                 requests, muddled>>

ViewNext ==
  \/ ViewStart \/ ViewStop \/ RunTasks \/ UpdateFrameAxes
  \/ \E q \in ShownConfs : Move(q)
  \/ \E a \in Askers :
       \/ QueueMeshcatTask(a)
       \/ \E p \in Paths :
            \/ DeleteObject(a, p)
            \/ \E x \in Poses : SetObject(a, p, x)
            \/ \E visible \in BOOLEAN : ToggleObject(a, p, visible)
       \/ \E visible \in BOOLEAN :
            \/ \E m \in Models : ToggleModel(a, m, visible)
            \/ \E f \in Frames : ToggleFrame(a, f, visible)

ViewSpec == ViewInit /\ [][ViewNext]_viewVars

-----------------------------------------------------------------------------
Settled == turn = "begin" /\ taskQueue = <<>>
           /\ \A a \in Askers : asking[a] = NoRequest

\* Once everything asked for has reached the browser, an object is there only
\* if it is on record, and then where the record says or put away, and axes
\* are away exactly when their flag says so and otherwise where the robot is:
\* so a later request finds what it builds on.  Excused are an object whose
\* placing or deleting overlapped with another, between viz_service.cc:304 and
\* :306 or :351 and :353, and axes that were toggled twice at a time, while
\* the robot moved or before a stop (visualizer_hub.cc:437, :474).
BrowserAgrees ==
  up /\ Settled =>
    /\ \A p \in Paths \ muddled :
         objectAt[p] # Nowhere =>
           recorded[p] # Nowhere /\ objectAt[p] \in {Away, recorded[p]}
    /\ \A f \in Frames \ muddled :
         frameAt[f] = Place(f, shown, ~hidden[f])
=============================================================================

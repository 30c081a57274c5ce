# planning_service in TLA+

This directory holds TLA+ models of the concurrent, stateful and algorithmic
parts of the planning service, the TLC configurations that model-check them on
small instances, and proofs, checked by TLAPS, of what holds for every value of
the constants. Sources are named relative to `src/planning_service/`.

    tlc -workers 2 -config MCVisualizer.cfg MCVisualizer           # one run
    tlapm VisualizerHubProofs.tla                                  # one proof

`PROJECT.json` maps every definition to the lines it models and lists the
components, runs, mutants, hazards, findings and theorems.

## 1. The system

Three server processes (plans and contexts, IRIS builds, visualization) and
their clients share one library of planners.

| component | state it keeps | operations | talks to | module |
|---|---|---|---|---|
| IRIS job pipeline: `service/utils/request_queue.h`, `job_runner.h`, `resource_manager.h`, `service/iris/iris_manager.*`, `comms/iris_service.cc` | a deque of requests and the set of their ids (one mutex), a map from id to future (another), the stop flag | StartBuild, HasJob, QueueRequest, the loop Run, Stop | gRPC threads, one manager thread, one thread per job | `ResourceManager`, `JobService` |
| Streaming slot: `comms/viz_service.cc` 145-223 | the context of the handler that streams, a mutex and a condition variable, push times | DoStreamConfigurations: evict, wait 5 s, take by force, packets, epilogue | one gRPC thread per stream, the hub | `StreamSlot` |
| Visualizer hub: `service/visualization/visualizer_hub.*` | one atomic status, the adapter and model, the pending position, the task queue | Run, Start, Stop, SetConfiguration | every gRPC thread and the hub's own | `VisualizerHub` |
| Objects and frame axes: `viz_service.cc` 258-474, `visualizer_hub.cc` 297-505 | recorded transforms, flags of the axes, what the browser shows | SetObject, DeleteObject, ToggleObject, ToggleFrame | the hub's task queue | `VisualObjects` |
| Draco visualizer: `draco/visualizer/` | a bounded queue of items, buttons, the display scope | add, poll, play | planning threads, one window thread | `DracoVisualizer` |
| Resource registry: `service/utils/resource_registry.*`, `comms/registry_service.cc`, `plan_service.cc`; pages: `service/utils/web/meshcat_ports.cc` | context directories, the maps of planners and of active contexts, the page thread and its flag | Register, Load, Remove, Migrate, Solve, summaries, launch and reset of the page | the disk, the Draco planners | `ResourceRegistry` |
| Overrides: `common/override.h`, `draco/planner/draco_planner.cc` 110-304 | the value, owner and default of each setting | acquire, set, release, the scopes of one request | requests that share a planner | `ScopedOverride` |
| Draco planner: `draco/planner/solve_plan_impl.cc`, `solve_generalized_multimodal.cc` | the trajectories a client holds active | new plan, update, partial plan, check of the arms; anchors and transit | clients, the planners below | `AsyncPlanning`, `AnchorSequence` |
| GCS and IK planners: `motion/planning/` | two graphs that outlive the calls; a cache of configurations and poses | a plan between two ends; global inverse kinematics | Drake | `GcsPlanner`, `IkPlanner` |
| Planning artifacts: `motion/planning/artifact_builder.*`, `thunder_planner.cc` | the experience roadmap, a snapshot, its configurations, the vertex-to-region correspondence | add, solve, save, build, repair, replace | OMPL, IRIS | `ArtifactBuilder` |
| IRIS region building: `motion/iris/`, the clique generator | regions and their intersections, coverage points and verdicts | add, replace, set points, evaluate, cliques | Drake | `RegionBuilding` |
| Splining: `motion/splining/` | none that lasts past a call | time parameterisation, update of a running trajectory | Drake's solvers | `Toppra`, `TrajectoryUpdate` |
| Robot model and constraints: `motion/robot_model.*`, `holonomic_mapping.*`, `robot_constraints.*` | what is derived from a plant; samples and verdicts shared by threads | load, lift and reduce; sample, check, penalise | Drake, OpenMP | `RobotModel`, `ConstraintChecks` |
| Clients | none | one blocking call per request | gRPC | none |

What is hard, and what makes each part correct:

- *Pipeline.* Every method of the queue and of the runner locks, but
  ResourceManager strings several together and locks nothing: a test is stale
  when it is used. Correct: requests are served in order, the containers agree,
  nothing the manager thread calls outside a `try` throws, the queue drains,
  Stop is obeyed.
- *Slot.* Handlers overlap, wait with a timeout, and take by force what another
  may still be using. Correct: one streamer at a time, no call on the context
  of a handler that is gone (refuted, §4), nobody kept out for ever.
- *Hub.* A protocol over one atomic that every thread stores to, with waits for
  a change that another store can hide. Correct: an adapter wherever one is
  dereferenced, a start that delivers its own model, a stop that is served, a
  pending position that fits the model it is shown on (refuted, §4).
- *Registry.* Files, planners and the list of contexts change one after the
  other, only the insertion is locked, any step can fail and the process can
  die at any of them. Correct: between two writers the three agree, a listed
  context can always be looked up, nothing served is lost by a crash.
- *Overrides.* Ownership is tested, waited for and stored in three places, and
  requests wait with other settings in hand. Correct: no circle of waits, a
  request plans under its own options, and everything is back at its
  default when nobody owns it, after any exception or timeout.
- *Plans while arms move.* A plan is made for a time in the future at which
  other arms are elsewhere. Correct: no jump on delivery, running arms are left
  alone, arms keep clear of each other (refuted, §4).
- *Long sequences on kept state.* The graphs of the GCS planner, the artifacts,
  the IK cache and the inspector answer from indices that earlier calls,
  successful or not, left behind. Correct: the indices still mean the same.
- *Shared results of parallel loops.* Samples are read while they are appended
  to, verdicts are written without a lock. Correct: the answer is that of the
  loop without threads.

## 2. The modules

For a module M that has a run of its own, `MCM` instantiates it for TLC;
`MCVisualizer` does so for the hub and the slot, `MCSharedState` for the
overrides and the registry, `MCComputations` for nine modules, each of which
runs from initial states of its own while the others stand still. `MProofs`
holds the theorems about M, with three exceptions, each a family of modules that
needs the same lemmas: `PlannerProofs` is about `ArtifactBuilder`, `GcsPlanner`,
`IkPlanner` and `ConstraintChecks`, `MotionProofs` about `AsyncPlanning`,
`TrajectoryUpdate`, `Toppra`, `RegionBuilding` and `RobotModel`,
`VisualizationProofs` about `StreamSlot`, `DracoVisualizer` and `VisualObjects`.
The models keep all control (each guard, early return, exception and its order)
and abstract data: ids, streams and configurations are model values, a region is
a set of points or a box, what a numerical solver finds is a choice.

**ResourceManager.** One step per critical section. `queuedRequests` and
`queuedIds` are the two containers of RequestQueue, `activeJobs` the futures of
JobRunner. A gRPC thread walks `HandlerHasQueued`, `HandlerHasActive`,
`HandlerSize`, `HandlerEnqueue`: the four locked calls of QueueRequest. The
manager walks `MgrLoop`, `MgrRetrieve`, `MgrEmpty`, `MgrSize`, `MgrPop`, then
the tests and the insertion of StartJob. `JobFinish` makes a future ready
whether the build returned or threw. `JobService` is the promise without
threads: accept at the back, take from the front when there is room, start or
refuse for a reason, collect. The mapping is `waiting <- queuedRequests`,
`taken <- popped`, `active <- ActiveIds`.

**StreamSlot.** One process per invocation of DoStreamConfigurations: `Evict`
or `Take`, then `Packet` and one of `SetAccepted`, `SetRejected`, `SetThrows`,
until `ReadEnds`, then `Epilogue`. `TakeByForce` is the timeout. The wait
rechecks its condition under the mutex, so the recheck and the taking are one
step. `SetThrows` leaves past the epilogue: the slot keeps a handler that is
gone. `forced` is a history variable.

**VisualizerHub.** The hub's thread takes one step per read or store of shared
state: `Load`, `Wait`, `Reset`, `ResetAdapter`, `SetIdle`, `Make`, `SetActive`,
then the active loop `Test`, `Position`, `Tasks`. A client's request is
`StartVisualizer` followed by its test, waits and signal, or `StopVisualizer`
and `AwaitIdle`, or `SetConfiguration` and `Push`. Waits poll until the status
differs from a given value. `Position` shows the pending position; one of
another length than the model's (`NumPositions`) makes SetMeshcatPositions throw
on the hub's thread, and the process ends. `overlapped` records that a start or
stop arrived while another was being served.

**VisualObjects.** The gRPC threads change the record at once and push tasks;
`RunTasks` is one turn of the hub's loop. Poses are told apart by the
configuration they were computed at. **DracoVisualizer.** `Add` is a
planning thread, `Click` the user, `Kill` the owner, the others are the window's
loop: `Drain` lists, `Show` takes a click, `ReleaseLast` gives back the scope of
the item before, `ApplySnapshot` takes the new one (which ends the process if
the settings still have an owner), `Display` draws, and `Restore`, `Clear` and
`Redraw` go back. What owns the settings (`scope`), what they are (`inEffect`),
what is drawn (`onShow`) and under which options (`drawnUnder`) are four
variables that these steps change one at a time.

**ResourceRegistry.** Each handler is a row of `Accesses`: its accesses in
program order. An access is one action (`Ask`, `Save`, `Erase`, `Make`,
`Insert`, `List`, `Unlist`, `Drop`, the three steps of the page), so that any
two handlers interleave anywhere except inside the locked insertion. `Restart`
is a crash at any point and the constructor that reloads. `down` is
std::terminate: a page thread replaced while joinable, or a fatal load.
`overlapped` records that two writing requests were in flight together.

**ScopedOverride.** A request is a program of acquire and set operations built
from the options it asks for (`CollisionProgram`, `LimitsProgram`). The ownership
test, the wait, the store, the value, the callback that applies it, and the
restoring and releasing in reverse are steps of their own; applying may throw.
`raced` records that an owner was stored over another.

**AsyncPlanning.** Discrete time, arms on finitely many places. `SolveNew` and
`SolveUpdate` are the bodies of SolvePlanImpl over every motion a solver may
return; `Check`, `BestApproach` and the latency arithmetic are translated, and
so are the times TimeOfArmsCollision samples, `Step` apart from the beginning on
and in general not the end (`CollisionTimes`); `Tick`, delivery and execution
are the client (external). **AnchorSequence.** One call of
SolveGeneralizedMultiModalPlan: `StartSeq`, one step per anchor and seed,
deconfliction, the transit asked of the planners in order, `Answer`.

**GcsPlanner.** One action per phase of a call: add the terminals to both
graphs, search (one visit per step, with lazy edges added on the visit),
convert, solve, clear. What a failed call leaves stays for the next.
**IkPlanner.** `SolveGlobalIk` orders the seeds, `SolveIk` is one seed with its
retries, the cache is filled in between. **ConstraintChecks.** One behaviour is
one call of a parallel loop; its threads take contiguous shares and one step
per access to the shared list or flag. **RobotModel.** The passes of the
constructor, one step for each model, joint or body in index order, then lifts
and reductions. `IsPlant` says what Drake guarantees of a plant.
**RegionBuilding.** Calls of the builder, the inspector and the clique
generator in any order.

**Toppra.** The backward and the forward pass over a grid in whole units, with
each kind of limit as the linear constraints toppra.cc makes of it; first
derivatives are units, second derivatives any whole numbers of either sign.
**TrajectoryUpdate.** The switch, the cubic with its minimum time, the landing
search over the spline, the merge.

**ArtifactBuilder.** One operation at a time, one step per iteration of a loop.
`database` and `databaseEdges` are the experience database; `planSize` and
`planEdges` are `planner_data_`, read anew by `AddConf` only; `verticesConfs` is
`vertices_confs_`; `correspondence` is the two maps of `correspondence_`, always
written together. `Populate` inserts and never erases, as the code does.
`BuildFromEdge` appends none, one or two shapes, `Repaired` drops, shrinks and
reorders them. `Return` is both the end of an operation and the exception that
leaves it. `missed` and `disturbed` are history variables.

## 3. The runs

| run | instance | what it shows |
|---|---|---|
| `rm` | 3 ids (1 invalid), 2 gRPC threads, queue 2, runner 2 | the id set tells which requests wait (`QueuedIdsSound`), nothing throws in the manager thread (`ServiceNeverThrows`), refinement of JobService (`ImplementsJobService`), `QueueDrains` and `StopIsObeyed` under fairness |
| `visualizer` | 2 clients, 2 models of different length; from other initial states, 3 streams | for starts and stops that do not overlap `AdapterReadyAlone`, `StartDelivers`, `RequestsServed`; `StreamerOwnsSlot` unless a takeover was forced, `NewcomerAdmitted` under fairness |
| `hub_position` | the same | refutes that a position shown has the length of the model (robot_meshcat.cc:198) |
| `slot_context` | 3 streams | refutes what viz_service.cc:165 says of the context that is cancelled |
| `shared` | 2 requests, every combination of options; from other initial states, 2 contexts (1 whose planner cannot be made), 2 requests of every kind, 1 restart | `NoCircularWait`, `PlansUnderOwnOptions`, `DefaultsWhenUnowned` until an owner is stored over another; `RegistryConsistent` and `ServedSurvivesRestart` while writers do not overlap |
| `overrides_terminate` | 2 requests, every combination of options | refutes what override.h:221 says of a scope's destructor |
| `async` | 2 arms, 2 places of which the arms share one, time to 5, 2 requests, motions of up to 3 places, the check at every other time | `NoJump`, `RunningArmsUndisturbed` |
| `async_collides` | 3 places, new plans only, time to 8, the check at every time | refutes that the check finds every collision of the arms |
| `anchors` | up to 3 anchors of three kinds on the two sides, 2 seeds, every planner | `PlanStaysValid`, `EveryAnchorInTurn`, `EveryCallEnds` under fairness |
| `artifacts` | 3 configurations (1 invalid), 2 problems, 3 shapes, at most 2 regions, roadmap of at most 1 vertex at the start | `SoundUntilDisturbed`, `VertexConfsAligned`, `SnapshotCovered` |
| `computations` | nine modules, see below | fourteen invariants, see below |
| `cubic_limits` | one joint, velocity bound 1, acceleration bound 9 | refutes that a cubic path keeps its velocity bound |

`computations` starts in any one of nine modules that share nothing, each on its
own instance; the disjuncts are independent, so that the run is the sum of nine.

| module | instance | property |
|---|---|---|
| `Toppra` | 3 intervals, five shapes of the path, one of which is not steady, three sets of limits | `TimesOptimally`: a profile within the limits whenever there is one, no admissible one is faster where it parts from it, and over a steady path none is faster at any grid point |
| `TrajectoryUpdate` | a robot at rest and one under way, waypoints in six orders | `ContinuesMotion`: no jump of position or velocity where the new motion takes over, and it ends at the last waypoint |
| `VisualObjects` | 2 threads, 2 requests, two models of which one name begins the other | `BrowserAgrees`: with the queue run, the browser shows what is recorded |
| `DracoVisualizer` | 3 items of every kind, queue of 2 | `ShownUnderItsOptions`: no scope is taken while the one before is held, and what is drawn was drawn under the options of the item that owns the settings |
| `IkPlanner` | 3 configurations, 2 offsets of the frame, 4 sets of options, 2 calls | `SeedsAreClosest`, `VerdictJustified` |
| `ConstraintChecks` | 2 arms with a tool on a base, lists of up to 4 configurations, 2 threads | `SamplesAreSound`, `VerdictsAgree` |
| `RobotModel` | two plants with their joints in every order, two that are refused | `PassesFindStructure` against definitions by closure, `ConfigurationsCarryOver` |
| `RegionBuilding` | one joint that turns and one that does not, 3 calls | `CoverageIsCurrent`, `CliquesAreSound` |
| `GcsPlanner` | three regions in a row, four in a row, four around a square, none; lazy and eager edges | `NoPathIsDisconnected`, `SolverGetsARoute` |

Every property of a passing run has on record a mutant of the code (a dropped
guard, a late release, a lookup of one end of an edge) that violates it. The type
invariants are not among the runs' properties; those of eight modules
are theorems.

*Why the bounds are enough.* Pipeline: a duplicate needs two threads and a
second waiting request to be seen; a full queue and a full runner need two
places each, the third id being the one that is refused. Slot: the winner, the
loser and the newcomer beside the winner are three. Hub: an overlap needs two
clients, a wrong model two models. Registry: a reader between two steps of a
writer needs two requests, and a load that fails one faulty context; a second
restart starts from a state a first one could have started from. Overrides: a
race needs two requests, each with every program the options give, and so does
the shortest circle of waits; longer ones are the theorem's. Artifacts: an edge
covered by two regions together and one by a single region need three shapes and
two regions. Arms: a collision needs two, a partial plan a motion of three
places, and a check that misses the end of a motion a `Step` above one. Time
parameterisation: three intervals are the fewest in which a greater speed at one
point costs a greater one at the next, and the middle point needs a second
derivative that outweighs the first. Anchors: a start, a goal and one more on
either side, so that a sequence has a first, a middle and a last. The bounds
`MaxRegions`, `MaxVertices`, `MaxRestarts`, `MaxTime`, `MaxRequests`,
`MaxLength`, `MaxAnchors`, `MaxProblem`, `MaxSeeds`, `MaxItems`, `MaxCalls`,
`ModelCalls`, `MaxBuilds`, `MaxLeft`, `MaxWork` and `TimeCap` are constants of
the modules; the theorems hold for any value of those in the modules they are
about.

*Fairness.* Weak fairness of each thread's own steps: they are OS threads, none
holds a lock across a wait, and the region builder bounds its own iterations.
For a stream, its wait (`wait_for` returns, at the latest on timeout), its own
code and its epilogue are fair, its Read is not: a client may stay silent for
ever. For the hub, a wait whose condition stays true ends; requests need never
come. For a call of the anchors, that the one thread that works on it goes on
(`WF_vars(Solve)`). Deadlock is not checked where the system may really stop:
all streams ended, the hub and a client waiting for each other, a process that
has terminated, a computation that has answered, the bound of time reached.

## 4. What the code does not do as written

*Refuted by a run:*

- `common/override.h:188` (`overrides_terminate`): set_owner tests the ownership
  and stores the owner outside the mutex. Two requests can both become owner;
  the destructor of the earlier one then throws and ends the process.
- `draco/planner/solve_plan_impl.cc:512` (`async_collides`): the latency is in a
  new plan twice, as a constant beginning and as an offset; the check of the
  arms pairs local times and sees the new motion one latency too early.
- `motion/splining/time_optimal_spliner.cc:488` (`cubic_limits`): velocity and
  acceleration bounds are handed over in each other's place.
- `comms/viz_service.cc:168` (`slot_context`): an exception of DoSetConfiguration
  leaves the handler without the epilogue that clears the slot, and the next
  newcomer calls TryCancel on a context that gRPC has destroyed.
- `service/visualization/visualizer_hub.cc:584` (`hub_position`): a stop leaves
  the pending position to the next model. If that has another length,
  SetMeshcatPositions throws on the hub's thread and the process ends.

*Seen while modelling,* and excluded from or bounded in the properties by a
history variable where it shows in a model:

- Pipeline and slot: HasJob denies a request that waits, once two threads have
  queued its id together (`resource_manager.h:60`). The epilogue of a handler
  that lost its slot by force frees the winner's (`viz_service.cc:210`).
- Hub: a start let through during a stop loses its adapter to the reset
  (`visualizer_hub.cc:596`); a second stop between the storing of Idle and the
  wait leaves hub and client asleep (`:738`).
- Plans while arms move: TimeOfArmsCollision steps from zero while the time is
  not above the last one and so misses the end of a motion unless it is a
  multiple of the step (`solve_generalized_multimodal.cc:25-43`): where arms come
  to rest is in general not checked.
- Time parameterisation: `toppra.h:58-59` speaks of the fastest traversal. Where
  the second derivative has the sign of the first and is greater, the greatest
  speed at one grid point can rule out a greater one at the next, and the greedy
  forward pass is not the fastest (with unit steps, an acceleration limit of 2
  and derivatives (1, 0), (1, 3), (1, 0), the squared speeds are 0, 1, 0, 0 and
  0, 0, 2, 0 is admissible): `TimesOptimally` claims it for steady paths only.
- Draco visualizer: a trajectory that is too long is not drawn, and its scope is
  given back; without a default configuration the browser then draws the
  configuration that was on show anew, without its options
  (`draco_visualizer.cc:129-135`, 527).
- Registry: overlapping migrations assign to a joinable thread and terminate
  (`resource_registry.cc:353`); the page thread can miss its wakeup, and the
  migration then waits for it for ever (`meshcat_ports.cc:213`).
- Artifacts: the build from the roadmap walks a snapshot without the plans just
  saved (`artifact_builder.cc:99`); correspondence with regions that were
  repaired away stays (`:350`).
- GCS: a goal left behind by a failed call hides existing paths from later calls
  with lazy edges (`single_mode_gcs_planner.cc:276`); the graphs are shared
  between requests without a lock.
- Anchors: deconfliction shifts arms that earlier anchors have placed
  (`solve_generalized_multimodal.cc:906`); saving a plan with a configuration
  that cannot be connected throws (`thunder_planner.cc:348`).
- Options: the paddings are sorted, and the list that was not is applied
  (`draco/draco.cc:119`).
- Updates: after the current trajectory has ended, an update through several
  waypoints starts at the first of them, wherever the robot is; `.value()` of a
  failed time parameterisation throws (`time_optimal_spliner.cc:1002`); linear
  bounds ignore their lower side.
- Objects: the pose a toggle shows is computed before a move that runs first; a
  prefix of a model's name toggles the frames of longer names; button order
  survives a stop. The visualizer's play loops do not look at the stop flag.
- IK: a moved frame leaves the cached poses of its pair stale (the property
  compares with the pose the cache was filled at); what a failed call returns is
  the last seed's configuration with the first seed's failure.
- Constraints: angles are handed to a penalty that takes their arc cosine
  (`robot_constraints.cc:359`, `:223`); samples are read without the lock that
  guards their growth.
- Robot model: a joint that mimics a mimicking joint of a higher index reads
  zero; lifting one instance leaves a mimic of another model at zero.
- Regions: `iris_inspector.cc:72` keeps the verdicts of earlier points at their
  places (`resize`); coverage wraps angles, and the searches for uncovered
  points do not; a vertex may count twice towards a clique around an edge.

## 5. What is proved

For any constants that meet the named assumptions:

| module | theorem | what it says |
|---|---|---|
| `ResourceManagerProofs` | `TypeCorrect`, `Safety`, `Refinement`, `QueueStaysSound` | ids and capacities agree and nothing throws, and the pipeline implements `JobService`, for any threads, ids and capacities |
| `VisualizationProofs` | `SlotSafety`, `OneStreamAtATime` | `StreamerOwnsSlot` for any streams; two streamers are one unless a takeover was forced |
|  | `NewestItemsAreKept`, `OptionsEndWithTheirItem` | the newest items, as many as the queue may hold, wait or are listed (a property no run repeats); what is on display was drawn under its own options; for any items and any size of the queue |
|  | `BrowserShowsRecord` | once everything asked for has reached the browser it shows what is recorded, for any threads, objects, frames and models |
| `VisualizerHubProofs` | `HubSafety`, `SequentialProtocol`, `AdapterReady` | a model whenever active; starts and stops that do not overlap find their adapter and deliver their model, for any clients and models |
| `ResourceRegistryProofs` | `TypeCorrect`, `RegistryStaysConsistent`, `NothingServedIsLost` | the registry's two properties for any contexts, failures, readers and number of restarts |
| `ScopedOverrideProofs` | `TypeCorrect`, `WaitsInOrder`, `DefaultsRestored`, `OwnOptionsInEffect` | the three invariants of the overrides in `shared` for any requests |
| `AnchorSequenceProofs` | `TypeCorrect`, `PlansAreValid`, `AnchorsInTurn` | both invariants of `anchors` for any arms, anchors, seeds, planners and configurations |
| `MotionProofs` | `RunningUndisturbed`, `NoArmJumps` | the two properties of `async` for any finite set of arms, any places, motions and latencies |
|  | `MotionContinues` | `ContinuesMotion` for any trajectory, waypoints and limits |
|  | `TimesAreOptimal` | `TimesOptimally` for any path with unit first and whole second derivatives, any limits, ends and number of grid points |
|  | `CoverageStaysCurrent`, `CliquesStaySound` | both invariants of `RegionBuilding` for any joints, regions, points, vertices, roadmap and constraints |
|  | `StructureFound` | `PassesFindStructure` for any plant: mobile groups are what welds connect, in whatever order the joints come, arms hold what hangs from them, marks are right |
|  | `ConversionsAgree` | `ConfigurationsCarryOver` for any plant, couplers, values and calls |
| `PlannerProofs` | `TypeCorrect`, `ConfsAligned`, `CorrespondenceStaysSound`, `RoadmapBuildCovers` | the three invariants of `artifacts` for any configurations, plans and convex shapes, and roadmaps and adapters of any size |
|  | `EdgesWhole`, `SearchIsComplete` | a vertex has all its edges or none; a search that ends without a path is right, for any regions, samples and sequence of calls |
|  | `RoutesReachTheGoal` | `SolverGetsARoute`: the route or chain of regions given to the solver leads from start to goal, for the same |
|  | `SeedsClosest`, `VerdictsJustified` | both invariants of `IkPlanner` for any distances, caches, options and answers of the solver |
|  | `SamplesSound`, `AnswersAgree` | both invariants of `ConstraintChecks` for any constraints, threads, configurations and interleavings |

*The arguments.* Each invariant needs strengthening to be inductive.

- Pipeline: there is room for a popped request because only the manager adds
  jobs, which takes `RunnerBounded`; insertion cannot throw because what StartJob
  tested stays so, which is `Startable` at every point between.
- Slot: ownership and freshness of the push times are inductive together, none
  alone: an epilogue may clear the slot because its handler owns it.
- Hub: `ModelInv` is inductive by itself. The protocol needs `AloneInv`: while
  nothing overlaps, the status determines where the hub's thread can be
  (`HubInv`), at most one client is being served (`OneServed`), and its own point
  determines the adapter (`ServedInv`).
- Registry: `Consistent` says, for the one request that writes, how far the list,
  the planners (`Listed`) and the directories (`Saved`) are apart at the access it
  stands at. `Flow` derives once, from the programs, what each access follows on
  and leads to (`Leads`); then there is one lemma for each access, and
  `WriterStep` and `ReaderStep` reduce them to what the stepping request did.
- Overrides: ownership is inductive with the place of a request in its program:
  what it owns lies before where it stands, and as programs go up in one order of
  the settings (`Position`), so do waits (`NoCircularWait`).
  `ValuesInv` adds what a running request holds and has set; a step of one
  request leaves the settings of another alone (`Elsewhere`), and a program sets
  nothing it has not acquired (`ProgramGuarded`).
- Artifacts: every operation but three is a `Growing` step: what the roadmap and
  the adapter held they still hold at the same indices, and the snapshot is
  unchanged. That skipping is safe takes the soundness of the correspondence and
  the convexity of shapes (`ShapesAssumption`).
- GCS: `IInv` says of a search that what it has visited is closed under the edges
  between samples except towards the vertices still open; with `GraphInv`, that
  the edges of a vertex are all there or none, a search that has run dry has seen
  everything the regions connect. `PathInv` is about the paths it has found: all
  nodes but the last have been visited, and no vertex shares a region with a
  later one except its neighbour, because its edges are all there and the path
  would have been shorter. So the terminals stand where `Crossed` cuts them off
  (`WalkShape`), and the regions of the rest form a chain. The hops from the goal
  reach back to the start along that chain, and a route loses one with every
  step, so that it arrives within as many steps as there are nodes.
- Visualizer: labels are handed out in order, so that a queue is known by its
  last label and its length (`Recent`). `Queues` says that the list ends where
  the incoming queue begins unless that queue is full, the only case in which
  labels between the two have been dropped; then the queue alone holds the newest.
  For the options, the invariant says of each point between a click and the next
  wait which of scope, settings and drawing has already changed.
- Objects: what is recorded and what the browser shows differ only by tasks that
  are queued or about to be queued by one thread (`ObjectInv`, `FrameInv`): the last
  placing of an object in the queue is the recorded one. What running the
  queue does is a fold over it, handled by well-founded induction.
- Anchors: the configurations chosen so far resolve the first anchors of their
  side in order, and so do the best ones kept for a partial solution
  (`WorkInv`); a side that is done has all of its anchors or may be partial
  (`FoundInv`); the planners are asked between the two ends that the plan then
  joins, and what they return has been checked (`TransitInv`).
- Plans while arms move: only a delivery changes what arms execute, and only one
  request is open, so what the solver saw is what the delivery finds. A full
  plan holds still for one latency, and is offset by a second; computing stays
  within one and the message within the other, so the arms still stand.
- Updates: the landing that is chosen exists because the last point of the
  spline is always a candidate or the update stops; the cubic ends at the
  position and velocity of the spline at the landing, what is kept of the spline
  shares its ends, and smoothing moves the last waypoint by no more than it may.
- Time parameterisation: as a constraint on the next squared speed, a row of the
  program at a grid point is a bound by a line of whole slope in the present
  one, so that the speeds from which the end can be reached form an interval,
  and the backward pass has all of it in its two ends. From inside, a step
  exists, and the greatest one bounds every profile that has come along so far.
  Where no slope is negative, which is what `Steady` says, a greater speed
  reaches at least as much, and the greedy profile is above every admissible one.
  The start may be outside only by the tolerance.
- Regions: the turns that CalcWrapMultiple gives are those, and only those, that
  bring an angle within half a turn of a box (`WrapIsNearest`), which takes boxes
  that are no wider; turning changes nothing constraints say, and a
  segment holds its first point, so that a point in collision sees no other. The
  marks are right for one region at a time (`MarkIsRight`, `CoverageInv`).
- Cliques: what is taken is linked to all that is left, and as a vertex is taken
  while any is left, nothing is at the end (`Growing`). A segment passes
  the same points from both ends, so that sight is symmetric; vertices that are
  distinct make the counts those of the definition.
- Passes over the plant: while the joints are gone through, the bodies of those
  behind are grouped, a group is connected by welds, and groups are apart
  (`GroupsFound`). A weld brings at most two groups together, and merging then
  takes the later one out and leaves the rest in place (`MergeIntoOne`). A model
  behind has its place, and no other model is in a chain (`ArmsFound`). A
  marked body behind has its parent marked (`MarksFound`), so that stopping at
  the first mark loses nothing; every climb ends at the world, because the bodies
  from which it does so in k steps are more with each k (`NearGrows`).
- Conversions: what is filled in last for a position stays, so a coupler
  that reads a lower position reads its final value (`LiftFacts`). The
  positions of a model are an interval of their own (`MaskFacts`), and on it the
  fill of one model keeps step with the fill of the whole.
- Inverse kinematics: the seeds are a permutation sorted by distance of which
  `Distinct` keeps the first of its kind; tried and remaining seeds together
  never fall below what was chosen, and each result judged fits the options.
- Samples: the static schedule cuts the indices into disjoint intervals; an
  index in a thread's share is open and not yet kept, a kept one is kept once,
  and a size read before the append is at most the size after it.
- Verdicts: those intervals also cover the indices, so that an index nobody has
  left is judged or skipped, and skipping takes a bad verdict (`SharedInv`,
  `VectorInv`). That what CalcPenalty accepts satisfies the constraints takes
  that a distance below zero is within the influence of the penalty, and so in
  the list that is looked at (`StrictSatisfies`).

A few lemmas (the least of some naturals, induction over a finite set, the
existence of a recursive function over an interval) stand in more than one of
these modules, which share no module that could hold them.

The assumptions: capacities, queues and the two latencies are positive,
tolerances and bounds not negative, there is a context, None is not one of the
ids, streams, clients or requests, there are finitely many arms, shapes are
convex along the edges between configurations, samples lie in two different
regions, a call for seeds does not ask for zero (the code throws), one for
samples has a thread, waypoints and limits are integers, configurations come as
sequences. The strongest is `UnitAssumption`: the first derivatives of the
path at a grid point are -1, 0 or 1 and the second ones whole in the units of
`Toppra`, of either sign, and where rows are interpolated their coefficients of
the acceleration, sums of the two, are -1, 0 or 1 as well. Limits and speeds scale
together, and the theorem is for all of them: in a fine enough unit nothing that
the two passes compute has to be rounded. That the first derivatives are units is
what remains of it. Regions
are at most half a turn wide on a joint that turns (CheckIfSatisfiesConvexityRadius)
and points at most two and a half turns away from them, the turns `Turns` looks
at; the vertices given to the clique search are distinct and the roadmap between
them symmetric, which the constructor does not check. A plant is what Drake
guarantees (`PlantsAssumption`): every body but the world is the child of one
joint, no bodies hang only from one another, and the positions of a model are
contiguous, on which GetModelStartIndex relies too (`robot_model.cc:640`); beyond
that, there is a joint, a moving joint has one position, and neither the world
nor the default instance has one that moves. A plant may still make the
constructor throw, which is an outcome of the model. TLC evaluates the
assumptions in every run of a module that extends the one that states them.

*Only model-checked.* All liveness (`QueueDrains`, `StopIsObeyed`,
`NewcomerAdmitted`, `RequestsServed`, `EveryCallEnds`): the
prover handles neither fairness nor ENABLED. Every invariant and every action
property of the runs that pass is also a theorem.

Selections and passes are written as recursive functions over an interval or as
a choice of an ascending sequence, because the prover does not apply an operator
that takes a LAMBDA, and the library's induction theorems take one as a
parameter. The values of such a function follow from well-founded induction
over a set (`SetInduction`), which is how the proofs about `VisualObjects`,
`IkPlanner`, `ConstraintChecks`, `GcsPlanner`, `RegionBuilding` and `RobotModel`
go.

## 6. What is not modelled

- Pipeline: UpdateRoadmap (it bypasses the queue and blocks its gRPC thread) and
  the body of a job. WaitForResult, Clear and PeekNextRequest are called by tests
  only.
- Hub, objects and visualizer: sliders, indicators, camera, colours and opacity.
- Registry: the content of the files, problem directories and metadata. A
  solving request whose planner is removed under it is undefined behaviour and
  has no outcome to enumerate; the model shows only that nothing prevents it.
- Planning: fixed-frames, Cartesian, acceleration and out-of-violation problems,
  each one optimisation.
- Numerics: convex programs, splines, least squares, inflation of regions,
  kinematics and collision queries are choices or tables. Rounding is left out;
  `Toppra` uses units in which nothing rounds. The IK program's costs and
  tolerances, and the sampling of coverage points, are choices too.
- OMPL below the roadmap, Drake, OpenMP and gRPC are external and modelled as the
  code uses them.
- Two IRIS jobs that share a builder race on its containers without a lock
  (`service/iris/iris_manager.cc:19`), which is undefined.
- Clients: conversion of types and one blocking call per request. Logging,
  formatting, files and reflection.

## 7. The plan

Everything of the plan that a bounded model can tell apart has been built. In
order of value, what could still be added:

1. A property of `AnchorSequence` that the arms an anchor has placed stay where
   they are, which deconfliction breaks (`solve_generalized_multimodal.cc:906`),
   and of `GcsPlanner` that a later call with lazy edges misses no path.
2. The composition of `ResourceRegistry` with `ScopedOverride`: a planner that is
   removed while its settings are owned.

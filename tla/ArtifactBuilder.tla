-------------------------- MODULE ArtifactBuilder --------------------------
(***************************************************************************)
(* The planning artifacts of one planning context: the roadmap the thunder *)
(* planner keeps (the experience database, the snapshot planner_data_ and  *)
(* the list vertices_confs_ read from it), the IRIS regions, and the       *)
(* correspondence between the vertices of the one and the regions of the   *)
(* other.  An ArtifactBuilder is used by one thread at a time; its loops   *)
(* are modelled one iteration per step because each may end in a different *)
(* way: IRIS fails or yields several regions, an exception leaves the loop.*)
(*                                                                         *)
(* A region is the set of the points inside it.  The points told apart are *)
(* the configurations and, for two configurations, the interior of the     *)
(* straight edge between them.  Indices start at 1 here and at 0 there.    *)
(***************************************************************************)
EXTENDS Naturals, Sequences, FiniteSets

CONSTANTS
    Confs,          \* configurations of the robot
    Invalid,        \* the ones that violate the robot's constraints
    Problems,       \* the planning problems <<start, goal>> ever posed
    ConfLists,      \* the lists of configurations callers add to the roadmap
    SegmentLists,   \* the lists of edges callers ask regions for
    Shapes,         \* the convex sets that IRIS and the repair produce
    MaxRegions,     \* bound: regions of the adapter
    MaxVertices,    \* bound: vertices of the roadmap on disk at the start
    IrisMayFail     \* TRUE when a region need not contain its seed edge

Point(u, v) == {u, v}

Edge(u, v) == {Point(u, u), Point(u, v), Point(v, v)}

ASSUME ShapesAssumption ==
    \A shape \in Shapes : \A u, v \in Confs :
        Point(u, u) \in shape /\ Point(v, v) \in shape => Point(u, v) \in shape

ASSUME BoundsAssumption ==
    /\ Invalid \subseteq Confs
    /\ Problems \subseteq Confs \X Confs
    /\ ConfLists \subseteq Seq(Confs)
    /\ SegmentLists \subseteq Seq(Confs \X Confs)
    /\ MaxRegions \in Nat
    /\ MaxVertices \in Nat
    /\ IrisMayFail \in BOOLEAN

VARIABLES
    database,       \* SPARSdb: the configurations of the roadmap's vertices
    databaseEdges,  \* SPARSdb: its edges <<from, to>>
    planSize,       \* planner_data_: the number of vertices
    planEdges,      \* planner_data_: the edges
    verticesConfs,  \* ThunderPlanner::vertices_confs_
    regions,        \* the regions of IrisBuilder::adapter_
    correspondence, \* correspondence_: the pairs <<vertex, region>>, which
                    \* its two maps hold in the two directions
    saved,          \* the problem files in config_problems_dir_
    at,             \* the operation in progress
    confsLeft,      \* AddConfsToRoadmap: configurations still to add
    edgesLeft,      \* BuildRegionsFromRoadmap: edges still to visit
    segments,       \* IrisBuilder: <<start, end>> still to build a region for
    problemsLeft,   \* the loops over saved problems: problems still to solve
    missed,         \* history: edges of this build left uncovered by IRIS
    disturbed       \* history: what has happened to the indices so far

roadmapVars == <<database, databaseEdges>>
snapshotVars == <<planSize, planEdges, verticesConfs>>
artifactVars == <<regions, correspondence>>
controlVars == <<at, confsLeft, edgesLeft, segments, problemsLeft>>
vars == <<roadmapVars, snapshotVars, artifactVars, saved, controlVars,
          missed, disturbed>>

Operations == {"Idle", "AddConfs", "Roadmap", "Segments", "UpdateRoadmap",
               "SavedProblems", "SavedSegments"}
Vertex == Nat \ {0}
TypeOK ==
    /\ database \in Seq(Confs)
    /\ databaseEdges \subseteq Vertex \X Vertex
    /\ planSize \in Nat
    /\ planEdges \subseteq Vertex \X Vertex
    /\ verticesConfs \in Seq(Confs)
    /\ regions \in Seq(Shapes)
    /\ correspondence \subseteq Vertex \X Vertex
    /\ saved \subseteq Problems
    /\ at \in Operations
    /\ confsLeft \in Seq(Confs)
    /\ edgesLeft \subseteq Vertex \X Vertex
    /\ segments \in Seq(Confs \X Confs)
    /\ problemsLeft \subseteq Problems
    /\ missed \subseteq Vertex \X Vertex
    /\ disturbed \subseteq {"replaced", "outgrown"}


Init ==
    /\ database \in UNION {[1 .. n -> Confs] : n \in 0 .. MaxVertices}
    /\ \A i, j \in DOMAIN database : database[i] = database[j] => i = j
    /\ databaseEdges \in
           SUBSET {e \in (DOMAIN database) \X (DOMAIN database) : e[1] < e[2]}
    /\ planSize = Len(database)
    /\ planEdges = databaseEdges
    /\ verticesConfs = database
    /\ regions \in {<<>>} \cup {<<shape>> : shape \in Shapes}
    /\ correspondence = {}
    /\ saved = {}
    /\ at = "Idle"
    /\ confsLeft = <<>>
    /\ edgesLeft = {}
    /\ segments = <<>>
    /\ problemsLeft = {}
    /\ missed = {}
    /\ disturbed = {}

-----------------------------------------------------------------------------
(* PopulateVerticesToRegionsCorrespondence.  It inserts and never erases, and *)
(* reads the configuration of every vertex of planner_data_: where            *)
(* vertices_confs_ is shorter, at() throws after the vertices before it.      *)

(* Mutant: no containment test. *)
InsideUntested(confs, rs) == (1 .. Len(confs)) \X (1 .. Len(rs))

Inside(confs, rs) ==
    {p \in (1 .. Len(confs)) \X (1 .. Len(rs)) :
        Point(confs[p[1]], confs[p[1]]) \in rs[p[2]]}

Populated(corr, size, confs, rs) ==
    corr \cup {p \in Inside(confs, rs) : p[1] <= size}

PopulateThrows(size, confs) == Len(confs) < size

Populate ==
    correspondence' = Populated(correspondence, planSize, verticesConfs, regions')

(* The operation is over, or an exception has left it. *)
Return ==
    /\ at' = "Idle"
    /\ confsLeft' = <<>>
    /\ edgesLeft' = {}
    /\ segments' = <<>>
    /\ problemsLeft' = {}

-----------------------------------------------------------------------------
(* IrisBuilder::BuildFromEdges for one edge; a configuration to build a region *)
(* around is the edge from it to itself.                                       *)

InsideAnyRegion(rs, p) == \E r \in DOMAIN rs : p \in rs[r]

IsEdgeCoveredByRegions(rs, u, v) == \A p \in Edge(u, v) : InsideAnyRegion(rs, p)

(* AddRegion appends what PostProcessRegion made of the set IRIS found, one   *)
(* or several sets.  IRIS may find none.                                      *)
PostProcessed(u, v) ==
    {found \in UNION {[1 .. n -> Shapes] : n \in 0 .. 2} :
        IrisMayFail \/ IsEdgeCoveredByRegions(found, u, v)}

BuildFromEdge(u, v) ==
    \/ /\ IsEdgeCoveredByRegions(regions, u, v)
       /\ regions' = regions
    \/ /\ ~IsEdgeCoveredByRegions(regions, u, v)
       /\ \E new \in PostProcessed(u, v) :
             /\ Len(regions) + Len(new) <= MaxRegions
             /\ regions' = regions \o new

-----------------------------------------------------------------------------
(* The roadmap. *)

BeginAddConfs(confs) ==
    /\ at = "Idle"
    /\ at' = "AddConfs"
    /\ confsLeft' = confs
    /\ UNCHANGED <<edgesLeft, segments, problemsLeft, roadmapVars,
                   snapshotVars, artifactVars, saved, missed, disturbed>>

(* Mutant: a configuration the roadmap did not take is recorded too. *)
RecordedAlways(confs, before, after, conf) == Append(confs, conf)

(* One configuration: SPARSdb takes it as a new vertex or finds it too close  *)
(* to one it has; planner_data_ is read anew; vertices_confs_ grows by this   *)
(* configuration whenever the snapshot grew.                                  *)
Recorded(confs, before, after, conf) ==
    IF after > before THEN Append(confs, conf) ELSE confs

AddConf ==
    /\ at = "AddConfs"
    /\ confsLeft # <<>>
    /\ LET conf == Head(confsLeft)
           vertex == Len(database) + 1
       IN  \/ /\ conf \notin {database[i] : i \in DOMAIN database}
              /\ database' = Append(database, conf)
              /\ \E linked \in SUBSET DOMAIN database :
                    databaseEdges' = databaseEdges \cup (linked \X {vertex})
              /\ verticesConfs' = Recorded(verticesConfs, planSize, vertex, conf)
           \/ /\ UNCHANGED roadmapVars
              /\ verticesConfs' =
                     Recorded(verticesConfs, planSize, Len(database), conf)
    /\ planSize' = Len(database')
    /\ planEdges' = databaseEdges'
    /\ confsLeft' = Tail(confsLeft)
    /\ disturbed' = IF Len(database) > planSize
                    THEN disturbed \cup {"outgrown"} ELSE disturbed
    /\ UNCHANGED <<at, edgesLeft, segments, problemsLeft, artifactVars, saved,
                   missed>>

EndAddConfs ==
    /\ at = "AddConfs"
    /\ confsLeft = <<>>
    /\ regions' = regions
    /\ Populate
    /\ Return
    /\ UNCHANGED <<roadmapVars, snapshotVars, saved, missed, disturbed>>

(* The plans a problem can have: straight or by way of one configuration.    *)
Plans(problem) ==
    LET start == problem[1]
        goal == problem[2]
    IN  IF start = goal
        THEN {<<start>>}
        ELSE {<<start, goal>>} \cup
             {<<start, via, goal>> : via \in Confs \ (Invalid \cup {start, goal})}

(* MakeEdgesFromConfSequence *)
EdgesOf(plan) == [k \in 1 .. Len(plan) - 1 |-> <<plan[k], plan[k + 1]>>]

IsProblemValid(problem) == problem[1] \notin Invalid /\ problem[2] \notin Invalid

(* doPostProcessing: the experience database takes in the plan, its new       *)
(* configurations as vertices and its edges, or does not keep it.  The        *)
(* snapshot is not read anew.                                                 *)
SavePlan(plan) ==
    \/ UNCHANGED roadmapVars
    \/ LET new == {plan[k] : k \in DOMAIN plan}
                      \ {database[i] : i \in DOMAIN database}
       IN  \E n \in 0 .. Len(plan) : \E order \in [1 .. n -> new] :
             /\ new = {order[k] : k \in 1 .. n}
             /\ \A j, k \in 1 .. n : order[j] = order[k] => j = k
             /\ database' = database \o order
             /\ databaseEdges' = databaseEdges \cup
                  {e \in (DOMAIN database') \X (DOMAIN database') :
                     \E k \in 1 .. Len(plan) - 1 :
                        /\ database'[e[1]] = plan[k]
                        /\ database'[e[2]] = plan[k + 1]}

(* The part of GetSampleBasedSolution after the problem is on disk: a         *)
(* recalled plan changes nothing, a plan found from scratch is saved on       *)
(* demand and followed by Populate.  No plan changes nothing either.          *)
Recalled(problem, tryRecall, plan) ==
    /\ tryRecall
    /\ plan \in Plans(problem)
    /\ UNCHANGED <<roadmapVars, artifactVars>>

FromScratch(problem, save, plan) ==
    /\ plan \in Plans(problem)
    /\ IF save THEN SavePlan(plan) ELSE UNCHANGED roadmapVars
    /\ regions' = regions
    /\ Populate

Solved(problem, tryRecall, save, plan) ==
    \/ Recalled(problem, tryRecall, plan)
    \/ FromScratch(problem, save, plan) /\ ~PopulateThrows(planSize, verticesConfs)

SolveThrows(problem, save) ==
    /\ \E plan \in Plans(problem) : FromScratch(problem, save, plan)
    /\ PopulateThrows(planSize, verticesConfs)

(* SavePlanningProblem comes first; an invalid problem then throws. *)
GetSampleBasedSolution(problem, tryRecall, save) ==
    /\ at = "Idle"
    /\ saved' = saved \cup {problem}
    /\ \/ UNCHANGED <<roadmapVars, artifactVars>>
       \/ /\ IsProblemValid(problem)
          /\ \/ \E plan \in Plans(problem) : Solved(problem, tryRecall, save, plan)
             \/ SolveThrows(problem, save)
    /\ UNCHANGED <<snapshotVars, controlVars, missed, disturbed>>

(* LoadPlanningProblems yields some of the saved problems, in no fixed order. *)
BeginProblems(operation, problems) ==
    /\ at = "Idle"
    /\ problems \in (SUBSET saved) \ {{}}
    /\ at' = operation
    /\ problemsLeft' = problems
    /\ UNCHANGED <<confsLeft, edgesLeft, segments, roadmapVars, snapshotVars,
                   artifactVars, saved, missed, disturbed>>

UpdateRoadmapFromSavedProblems(problem) ==
    /\ at = "UpdateRoadmap"
    /\ problem \in problemsLeft
    /\ \/ /\ \/ UNCHANGED <<roadmapVars, artifactVars>>
             \/ /\ IsProblemValid(problem)
                /\ \E plan \in Plans(problem) : Solved(problem, FALSE, TRUE, plan)
          /\ problemsLeft' = problemsLeft \ {problem}
          /\ at' = IF problemsLeft' = {} THEN "Idle" ELSE at
          /\ UNCHANGED <<confsLeft, edgesLeft, segments>>
       \/ /\ IsProblemValid(problem)
          /\ SolveThrows(problem, TRUE)
          /\ Return
    /\ UNCHANGED <<snapshotVars, saved, missed, disturbed>>

-----------------------------------------------------------------------------
(* The regions. *)

(* BuildRegionsFromSystemConfs and BuildRegionsFromEdges *)
BeginSegments(list) ==
    /\ at = "Idle"
    /\ at' = "Segments"
    /\ segments' = list
    /\ UNCHANGED <<confsLeft, edgesLeft, problemsLeft, roadmapVars,
                   snapshotVars, artifactVars, saved, missed, disturbed>>

AfterSegments == IF at = "SavedSegments" THEN "SavedProblems" ELSE "Idle"

BuildSegment ==
    /\ at \in {"Segments", "SavedSegments"}
    /\ segments # <<>>
    /\ BuildFromEdge(Head(segments)[1], Head(segments)[2])
    /\ segments' = Tail(segments)
    /\ UNCHANGED <<at, confsLeft, edgesLeft, problemsLeft, correspondence,
                   roadmapVars, snapshotVars, saved, missed, disturbed>>

(* The list is done, or AddRegion has thrown: BuildFromPath's caller and the  *)
(* callers of the other two catch it, and the rest of the list is not built.  *)
EndSegments ==
    /\ at \in {"Segments", "SavedSegments"}
    /\ segments = <<>> \/ IrisMayFail
    /\ at' = AfterSegments
    /\ segments' = <<>>
    /\ UNCHANGED <<confsLeft, edgesLeft, problemsLeft, artifactVars,
                   roadmapVars, snapshotVars, saved, missed, disturbed>>

(* SolveProblemAndBuildRegions, called on its own or by                       *)
(* BuildRegionsFromSavedProblemsPath, which never saves the plan.             *)
SolveAndBuild(problem, save, building) ==
    \/ /\ \E plan \in Plans(problem) :
             Solved(problem, ~save, save, plan) /\ segments' = EdgesOf(plan)
       /\ at' = building
       /\ problemsLeft' = problemsLeft \ {problem}
       /\ UNCHANGED <<confsLeft, edgesLeft>>
    \/ SolveThrows(problem, save) /\ Return

SolveProblemAndBuildRegions(problem, save) ==
    /\ at = "Idle"
    /\ IsProblemValid(problem)
    /\ saved' = saved \cup {problem}
    /\ \/ SolveAndBuild(problem, save, "Segments")
       \/ UNCHANGED <<roadmapVars, artifactVars, controlVars>>
    /\ UNCHANGED <<snapshotVars, missed, disturbed>>

BuildFromSavedProblem(problem) ==
    /\ at = "SavedProblems"
    /\ problem \in problemsLeft
    /\ \/ /\ problemsLeft' = problemsLeft \ {problem}
          /\ UNCHANGED <<at, confsLeft, edgesLeft, segments, roadmapVars,
                         artifactVars>>
       \/ IsProblemValid(problem) /\ SolveAndBuild(problem, FALSE, "SavedSegments")
    /\ UNCHANGED <<snapshotVars, saved, missed, disturbed>>

EndSavedProblems ==
    /\ at = "SavedProblems"
    /\ problemsLeft = {}
    /\ regions' = regions
    /\ Populate
    /\ Return
    /\ UNCHANGED <<roadmapVars, snapshotVars, saved, missed, disturbed>>

BeginBuildRegionsFromRoadmap ==
    /\ at = "Idle"
    /\ at' = "Roadmap"
    /\ edgesLeft' = planEdges
    /\ missed' = {}
    /\ UNCHANGED <<confsLeft, segments, problemsLeft, roadmapVars,
                   snapshotVars, artifactVars, saved, disturbed>>

(* The edge is inside one region, for all the recorded correspondence and the *)
(* regions themselves tell.  The inserts of this loop go into copies of the   *)
(* two maps, which the getters return by value, and leave no trace.           *)
VertexInside(v, r) ==
    <<v, r>> \in correspondence \/ Point(verticesConfs[v], verticesConfs[v]) \in regions[r]

(* Mutant: only one end of the edge is looked up. *)
EdgeCoveredAtStart(from, to) == \E r \in DOMAIN regions : VertexInside(from, r)

EdgeCovered(from, to) ==
    \E r \in DOMAIN regions : VertexInside(from, r) /\ VertexInside(to, r)

VisitEdge(from, to) ==
    \/ EdgeCovered(from, to) /\ UNCHANGED <<artifactVars, missed>>
    \/ /\ ~EdgeCovered(from, to)
       /\ BuildFromEdge(verticesConfs[from], verticesConfs[to])
       /\ Populate
       /\ missed' = IF IsEdgeCoveredByRegions(regions', verticesConfs[from],
                                              verticesConfs[to])
                    THEN missed ELSE missed \cup {<<from, to>>}

(* One iteration: the edges by ascending first vertex.  Where vertices_confs_ *)
(* is too short GetVertexConf throws, or the Populate after the build does.   *)
BuildRegionsFromRoadmap(from, to) ==
    /\ at = "Roadmap"
    /\ <<from, to>> \in edgesLeft
    /\ \A e \in edgesLeft : from <= e[1]
    /\ IF from \in DOMAIN verticesConfs /\ to \in DOMAIN verticesConfs
       THEN /\ VisitEdge(from, to)
            /\ IF EdgeCovered(from, to) \/ ~PopulateThrows(planSize, verticesConfs)
               THEN /\ edgesLeft' = edgesLeft \ {<<from, to>>}
                    /\ UNCHANGED <<at, confsLeft, segments, problemsLeft>>
               ELSE Return
       ELSE Return /\ UNCHANGED <<artifactVars, missed>>
    /\ UNCHANGED <<roadmapVars, snapshotVars, saved, disturbed>>

EndBuildRegionsFromRoadmap ==
    /\ at = "Roadmap"
    /\ edgesLeft = {}
    /\ Return
    /\ UNCHANGED <<roadmapVars, snapshotVars, artifactVars, saved, missed,
                   disturbed>>

(* The threads of the parallel loop append the repaired regions in any order; *)
(* a region whose repair throws is dropped, and a repaired one is smaller.    *)
Repaired(rs) ==
    {new \in UNION {[1 .. n -> Shapes] : n \in 0 .. Len(rs)} :
        \E from \in [DOMAIN new -> DOMAIN rs] :
            /\ \A i, j \in DOMAIN new : from[i] = from[j] => i = j
            /\ \A i \in DOMAIN new : new[i] \subseteq rs[from[i]]}

ReplaceRegions(new) ==
    /\ at = "Idle"
    /\ regions' = new
    /\ Populate
    /\ disturbed' = disturbed \cup {"replaced"}
    /\ UNCHANGED <<roadmapVars, snapshotVars, saved, controlVars, missed>>

RepairRegions == \E new \in Repaired(regions) : ReplaceRegions(new)

SetIrisRegionsAdapter ==
    \E new \in {<<>>} \cup {<<shape>> : shape \in Shapes} : ReplaceRegions(new)

(* GetNumCoveredVerticesAndEdges, GetPlanningArtifactStatus, GetGraphvizString *)
(* and LoadValidateAndSaveFiles change no more than the correspondence.        *)
GetNumCoveredVerticesAndEdges ==
    /\ at = "Idle"
    /\ regions' = regions
    /\ Populate
    /\ UNCHANGED <<roadmapVars, snapshotVars, saved, controlVars, missed,
                   disturbed>>

-----------------------------------------------------------------------------
Next ==
    \/ \E confs \in ConfLists : BeginAddConfs(confs)
    \/ AddConf
    \/ EndAddConfs
    \/ \E p \in Problems, recall, save \in BOOLEAN :
          GetSampleBasedSolution(p, recall, save)
    \/ \E ps \in SUBSET saved : BeginProblems("UpdateRoadmap", ps)
    \/ \E ps \in SUBSET saved : BeginProblems("SavedProblems", ps)
    \/ \E p \in Problems : UpdateRoadmapFromSavedProblems(p)
    \/ \E list \in SegmentLists : BeginSegments(list)
    \/ BuildSegment
    \/ EndSegments
    \/ \E p \in Problems, save \in BOOLEAN : SolveProblemAndBuildRegions(p, save)
    \/ \E p \in Problems : BuildFromSavedProblem(p)
    \/ EndSavedProblems
    \/ BeginBuildRegionsFromRoadmap
    \/ \E from, to \in 1 .. planSize : BuildRegionsFromRoadmap(from, to)
    \/ EndBuildRegionsFromRoadmap
    \/ RepairRegions
    \/ SetIrisRegionsAdapter
    \/ GetNumCoveredVerticesAndEdges

Spec == Init /\ [][Next]_vars

-----------------------------------------------------------------------------
(* A vertex and a region that correspond are a vertex and a region of the     *)
(* roadmap and of the adapter as they are now, and the vertex is inside the   *)
(* region (artifact_builder.h:53).                                            *)
CorrespondenceSound ==
    \A p \in correspondence :
        /\ p[1] \in DOMAIN database
        /\ p[2] \in DOMAIN regions
        /\ Point(database[p[1]], database[p[1]]) \in regions[p[2]]

(* The correspondence is sound as long as nobody has replaced the regions and *)
(* nobody has added a configuration to a roadmap that had outgrown its        *)
(* snapshot: solving, saving and building, in any order and with any failure, *)
(* keep it so, although they move neither the snapshot nor the maps back.     *)
SoundUntilDisturbed == disturbed = {} => CorrespondenceSound

(* vertices_confs_ holds, for each vertex of the snapshot, its configuration, *)
(* unless AddConfsToRoadmap ran after a plan was saved (thunder_planner.cc:176 *)
(* takes growth of the snapshot for the addition of this configuration).      *)
VertexConfsAligned ==
    "outgrown" \notin disturbed =>
        /\ Len(verticesConfs) = planSize
        /\ planSize <= Len(database)
        /\ \A v \in 1 .. planSize : verticesConfs[v] = database[v]

(* When BuildRegionsFromRoadmap has come to its end, each edge of the         *)
(* snapshot lies inside the regions or is one IRIS failed to cover: skipping  *)
(* an edge for its recorded correspondence loses none.                        *)
SnapshotCovered ==
    at = "Roadmap" /\ edgesLeft = {} /\ disturbed = {} =>
        \A e \in planEdges \ missed :
            IsEdgeCoveredByRegions(regions, database[e[1]], database[e[2]])

=============================================================================

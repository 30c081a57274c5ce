---------------------------- MODULE PlannerProofs ----------------------------
(***************************************************************************)
(* Proofs about the planners and what they keep between calls.             *)
(*                                                                         *)
(* ArtifactBuilder, for any configurations, any convex shapes and roadmaps *)
(* and adapters of any size: until the regions are replaced or a           *)
(* configuration is added to a roadmap that has outgrown its snapshot, the *)
(* correspondence is sound and the build that follows the roadmap skips no *)
(* edge that the regions do not hold.                                      *)
(*                                                                         *)
(* GcsPlanner: the A* search of the planner finds a path whenever the      *)
(* regions connect the two terminals, for every set of regions and         *)
(* samples, as long as no earlier call has left a goal in the graph or the *)
(* edges are not lazy; and what its answers are computed from leads from   *)
(* the start to the goal, whatever path the search has found.              *)
(*                                                                         *)
(* IkPlanner, for any configurations, distances, offsets and caches and    *)
(* any answers of the solver: the seeds are the closest ones, whether they *)
(* are chosen in one step or in two, and the verdict of a call is          *)
(* justified by what became of each seed.                                  *)
(*                                                                         *)
(* ConstraintChecks, for any number of threads and configurations: the     *)
(* samples that the threads of one call collect are sound, and the verdict *)
(* and the penalties they share are those of the loop without threads.     *)
(***************************************************************************)
EXTENDS ArtifactBuilder, GcsPlanner, IkPlanner, ConstraintChecks,
        FiniteSetTheorems, FunctionTheorems, SequenceTheorems,
        WellFoundedInduction, TLAPS

(* The edges lead between vertices that are there. *)
EdgesInRange ==
    /\ databaseEdges \subseteq (1 .. Len(database)) \X (1 .. Len(database))
    /\ planEdges \subseteq (1 .. planSize) \X (1 .. planSize)

EdgeHeld(e) == IsEdgeCoveredByRegions(regions, database[e[1]], database[e[2]])

(* What the loop of BuildRegionsFromRoadmap has visited it may forget. *)
VisitedHeld ==
    at = "Roadmap" /\ disturbed = {} =>
        \A e \in planEdges \ edgesLeft : e \in missed \/ EdgeHeld(e)

Inv ==
    /\ TypeOK
    /\ EdgesInRange
    /\ VertexConfsAligned
    /\ SoundUntilDisturbed
    /\ VisitedHeld

(* t continues s. *)
Extends(t, s) ==
    /\ Len(s) <= Len(t)
    /\ \A i \in 1 .. Len(s) : t[i] = s[i]

(* The steps after which the roadmap and the adapter hold what they held and *)
(* perhaps more at their ends, and the snapshot is the same.                 *)
Growing ==
    /\ Extends(database', database)
    /\ databaseEdges' \subseteq (1 .. Len(database')) \X (1 .. Len(database'))
    /\ UNCHANGED <<snapshotVars, disturbed>>
    /\ Extends(regions', regions)
    /\ Populate \/ correspondence' = correspondence
    /\ at' = "Roadmap" => UNCHANGED <<at, edgesLeft, missed>>

-----------------------------------------------------------------------------
(* A sequence continues itself. *)
LEMMA ExtendsSelf ==
    ASSUME NEW S, NEW s \in Seq(S)
    PROVE  Extends(s, s)
BY DEF Extends

(* What is appended continues the sequence. *)
LEMMA ExtendsConcat ==
    ASSUME NEW S, NEW s \in Seq(S), NEW t \in Seq(S)
    PROVE  Extends(s \o t, s) /\ s \o t \in Seq(S)
BY DEF Extends

(* What the regions hold, more regions hold. *)
LEMMA HeldByMore ==
    ASSUME NEW rs \in Seq(Shapes), NEW more \in Seq(Shapes), Extends(more, rs),
           NEW u, NEW v, IsEdgeCoveredByRegions(rs, u, v)
    PROVE  IsEdgeCoveredByRegions(more, u, v)
BY DEF Extends, IsEdgeCoveredByRegions, InsideAnyRegion

(* A region with both ends of an edge inside holds the edge. *)
LEMMA HeldByOne ==
    ASSUME NEW rs \in Seq(Shapes), NEW r \in DOMAIN rs,
           NEW u \in Confs, NEW v \in Confs,
           Point(u, u) \in rs[r], Point(v, v) \in rs[r]
    PROVE  IsEdgeCoveredByRegions(rs, u, v)
<1>1. rs[r] \in Shapes
  OBVIOUS
<1>2. Point(u, v) \in rs[r]
  BY <1>1, ShapesAssumption
<1> QED
  BY <1>2 DEF IsEdgeCoveredByRegions, InsideAnyRegion, Edge

(* Populate records pairs of indices. *)
LEMMA PopulateTyped ==
    ASSUME TypeOK, regions' \in Seq(Shapes), Populate
    PROVE  correspondence' \subseteq Vertex \X Vertex
<1>1. Inside(verticesConfs, regions') \subseteq Vertex \X Vertex
  <2>1. Len(verticesConfs) \in Nat /\ Len(regions') \in Nat
    BY DEF TypeOK
  <2> QED
    BY <2>1 DEF Inside, Vertex
<1> QED
  BY <1>1 DEF Populate, Populated, TypeOK

(* Populate records nothing that is not so. *)
LEMMA PopulateSound ==
    ASSUME Inv, disturbed = {}, regions' \in Seq(Shapes), database' \in Seq(Confs),
           Extends(regions', regions), Extends(database', database),
           Populate \/ correspondence' = correspondence
    PROVE  CorrespondenceSound'
<1>1. CorrespondenceSound /\ Len(verticesConfs) = planSize
      /\ planSize <= Len(database)
      /\ \A v \in 1 .. planSize : verticesConfs[v] = database[v]
  BY DEF Inv, SoundUntilDisturbed, VertexConfsAligned
<1>2. TypeOK
  BY DEF Inv
<1>3. ASSUME NEW p \in correspondence
      PROVE  /\ p[1] \in DOMAIN database'
             /\ p[2] \in DOMAIN regions'
             /\ Point(database'[p[1]], database'[p[1]]) \in regions'[p[2]]
  <2>1. /\ p[1] \in DOMAIN database
        /\ p[2] \in DOMAIN regions
        /\ Point(database[p[1]], database[p[1]]) \in regions[p[2]]
    BY <1>1, <1>3 DEF CorrespondenceSound
  <2>2. p[1] \in 1 .. Len(database) /\ p[2] \in 1 .. Len(regions)
    BY <2>1, <1>2 DEF TypeOK
  <2>3. p[1] \in DOMAIN database' /\ p[2] \in DOMAIN regions'
    BY <2>2, <1>2 DEF TypeOK, Extends
  <2>4. database'[p[1]] = database[p[1]] /\ regions'[p[2]] = regions[p[2]]
    BY <2>2 DEF Extends
  <2> QED
    BY <2>1, <2>3, <2>4
<1>4. ASSUME NEW p \in Inside(verticesConfs, regions')
      PROVE  /\ p[1] \in DOMAIN database'
             /\ p[2] \in DOMAIN regions'
             /\ Point(database'[p[1]], database'[p[1]]) \in regions'[p[2]]
  <2>1. /\ p[1] \in 1 .. Len(verticesConfs)
        /\ p[2] \in 1 .. Len(regions')
        /\ Point(verticesConfs[p[1]], verticesConfs[p[1]]) \in regions'[p[2]]
    BY <1>4 DEF Inside
  <2>2. p[1] \in 1 .. Len(database) /\ p[1] \in 1 .. Len(database')
    BY <2>1, <1>1, <1>2 DEF TypeOK, Extends
  <2>3. database'[p[1]] = verticesConfs[p[1]]
    BY <2>1, <2>2, <1>1 DEF Extends
  <2> QED
    BY <2>1, <2>2, <2>3
<1>5. ASSUME NEW p \in correspondence'
      PROVE  p \in correspondence \/ p \in Inside(verticesConfs, regions')
  BY <1>5 DEF Populate, Populated
<1> QED
  BY <1>3, <1>4, <1>5 DEF CorrespondenceSound

(* Growth keeps the invariant: what was inside stays inside at its index. *)
LEMMA GrowingKeepsInv ==
    ASSUME Inv, TypeOK', Growing
    PROVE  Inv'
<1> USE DEF Inv
<1>1. EdgesInRange'
  BY DEF EdgesInRange, Growing, snapshotVars
<1>2. VertexConfsAligned'
  <2>1. Len(database) \in Nat /\ Len(database') \in Nat /\ planSize \in Nat
    BY DEF TypeOK
  <2> QED
    BY <2>1 DEF VertexConfsAligned, Growing, snapshotVars, Extends
<1>3. SoundUntilDisturbed'
  BY PopulateSound DEF SoundUntilDisturbed, Growing, TypeOK
<1>4. VisitedHeld'
  <2> SUFFICES ASSUME at' = "Roadmap", disturbed' = {},
                      NEW e \in planEdges' \ edgesLeft'
               PROVE  e \in missed' \/ EdgeHeld(e)'
    BY DEF VisitedHeld
  <2>1. at = "Roadmap" /\ disturbed = {} /\ missed' = missed
        /\ e \in planEdges \ edgesLeft
    BY DEF Growing, snapshotVars
  <2>2. CASE e \in missed
    BY <2>1, <2>2
  <2>3. CASE EdgeHeld(e)
    <3>1. planSize \in Nat /\ planSize <= Len(database)
      BY <2>1 DEF VertexConfsAligned, TypeOK
    <3>2. e[1] \in 1 .. Len(database) /\ e[2] \in 1 .. Len(database)
      BY <2>1, <3>1 DEF EdgesInRange, TypeOK
    <3>3. database'[e[1]] = database[e[1]] /\ database'[e[2]] = database[e[2]]
      BY <3>2 DEF Growing, Extends
    <3> QED
      BY <2>3, <3>3, HeldByMore DEF EdgeHeld, Growing, TypeOK
  <2> QED
    BY <2>1, <2>2, <2>3 DEF VisitedHeld
<1> QED
  BY <1>1, <1>2, <1>3, <1>4

-----------------------------------------------------------------------------
(* The steps that let the artifacts grow. *)

(* The short sequences that plans and finds of IRIS are. *)
LEMMA ShortSeqs ==
    ASSUME NEW S, NEW x \in S, NEW y \in S, NEW z \in S
    PROVE  /\ <<>> \in Seq(S)
           /\ <<x>> \in Seq(S)
           /\ <<x, y>> \in Seq(S)
           /\ <<x, y, z>> \in Seq(S)
OBVIOUS

(* A plan is a sequence of configurations, and its edges lead between them. *)
LEMMA PlanTyped ==
    ASSUME NEW problem \in Problems, NEW plan \in Plans(problem)
    PROVE  plan \in Seq(Confs) /\ EdgesOf(plan) \in Seq(Confs \X Confs)
<1>1. problem[1] \in Confs /\ problem[2] \in Confs
  BY BoundsAssumption
<1> DEFINE start == problem[1]
           goal == problem[2]
<1>2. \/ plan = <<start>>
      \/ plan = <<start, goal>>
      \/ \E via \in Confs : plan = <<start, via, goal>>
  BY Zenon DEF Plans
<1> HIDE DEF start, goal
<1>3. start \in Confs /\ goal \in Confs
  BY <1>1 DEF start, goal
<1>4. plan \in Seq(Confs)
  <2>1. CASE plan = <<start>>
    BY <2>1, <1>3, ShortSeqs
  <2>2. CASE plan = <<start, goal>>
    BY <2>2, <1>3, ShortSeqs
  <2>3. CASE \E via \in Confs : plan = <<start, via, goal>>
    <3>1. PICK via \in Confs : plan = <<start, via, goal>>
      BY <2>3
    <3> QED
      BY <3>1, <1>3, ShortSeqs
  <2> QED
    BY <1>2, <2>1, <2>2, <2>3
<1> QED
  BY <1>4 DEF EdgesOf

(* The roadmap takes a plan in at its end. *)
LEMMA SavePlanGrows ==
    ASSUME TypeOK, EdgesInRange, NEW plan \in Seq(Confs),
           SavePlan(plan) \/ UNCHANGED roadmapVars
    PROVE  /\ database' \in Seq(Confs)
           /\ Extends(database', database)
           /\ databaseEdges' \subseteq (1 .. Len(database')) \X (1 .. Len(database'))
           /\ databaseEdges' \subseteq Vertex \X Vertex
<1>1. CASE UNCHANGED roadmapVars
  BY <1>1, ExtendsSelf DEF roadmapVars, TypeOK, EdgesInRange
<1>2. CASE ~UNCHANGED roadmapVars
  <2>1. PICK n \in 0 .. Len(plan) :
          \E order \in [1 .. n -> {plan[k] : k \in DOMAIN plan}] :
            /\ database' = database \o order
            /\ databaseEdges' \subseteq
                 databaseEdges \cup ((DOMAIN database') \X (DOMAIN database'))
    BY <1>2 DEF SavePlan
  <2>2. PICK order \in [1 .. n -> {plan[k] : k \in DOMAIN plan}] :
          /\ database' = database \o order
          /\ databaseEdges' \subseteq
               databaseEdges \cup ((DOMAIN database') \X (DOMAIN database'))
    BY <2>1
  <2>3. n \in Nat
    BY <2>1
  <2>4. order \in Seq(Confs)
    <3>1. {plan[k] : k \in DOMAIN plan} \subseteq Confs
      OBVIOUS
    <3> QED
      BY <2>3, <3>1
  <2>5. database' \in Seq(Confs) /\ Extends(database', database)
    BY <2>2, <2>4, ExtendsConcat DEF TypeOK
  <2>6. DOMAIN database' = 1 .. Len(database') /\ Len(database') \in Nat
    BY <2>5
  <2>7. Len(database) <= Len(database') /\ Len(database) \in Nat
    BY <2>5 DEF Extends, TypeOK
  <2>8. databaseEdges' \subseteq (1 .. Len(database')) \X (1 .. Len(database'))
    <3>1. databaseEdges \subseteq (1 .. Len(database')) \X (1 .. Len(database'))
      BY <2>6, <2>7 DEF EdgesInRange
    <3> QED
      BY <3>1, <2>2, <2>6
  <2>9. 1 .. Len(database') \subseteq Vertex
    BY <2>6 DEF Vertex
  <2> QED
    BY <2>5, <2>8, <2>9
<1> QED
  BY <1>1, <1>2

(* The empty plan. *)
LEMMA EmptyInSeq == <<>> \in Seq(Confs)
OBVIOUS

(* What solving a problem does to the artifacts, however it ends. *)
SolveSteps ==
    \/ UNCHANGED <<roadmapVars, artifactVars>>
    \/ \E plan \in Seq(Confs) :
          /\ SavePlan(plan) \/ UNCHANGED roadmapVars
          /\ regions' = regions
          /\ Populate

(* A solved problem, recalled or not, is such a step. *)
LEMMA SolvedIsSolveStep ==
    ASSUME NEW problem \in Problems, NEW plan \in Plans(problem),
           NEW recall, NEW save, Solved(problem, recall, save, plan)
    PROVE  SolveSteps
BY PlanTyped DEF Solved, Recalled, FromScratch, SolveSteps

(* So is one whose Populate throws after the plan was saved. *)
LEMMA ThrowIsSolveStep ==
    ASSUME NEW problem \in Problems, NEW save, SolveThrows(problem, save)
    PROVE  SolveSteps
BY PlanTyped DEF SolveThrows, FromScratch, SolveSteps

(* Such a step of any operation but the roadmap build keeps the invariant. *)
LEMMA SolveGrows ==
    ASSUME Inv, SolveSteps, UNCHANGED <<snapshotVars, disturbed, missed>>,
           saved' \subseteq Problems, at' \in Operations \ {"Roadmap"},
           confsLeft' \in Seq(Confs), edgesLeft' \subseteq Vertex \X Vertex,
           segments' \in Seq(Confs \X Confs), problemsLeft' \subseteq Problems
    PROVE  Inv'
<1> USE DEF Inv
<1>1. /\ database' \in Seq(Confs)
      /\ Extends(database', database)
      /\ databaseEdges' \subseteq (1 .. Len(database')) \X (1 .. Len(database'))
      /\ databaseEdges' \subseteq Vertex \X Vertex
  <2>1. CASE UNCHANGED <<roadmapVars, artifactVars>>
    BY <2>1, SavePlanGrows, EmptyInSeq
  <2>2. CASE \E plan \in Seq(Confs) : SavePlan(plan) \/ UNCHANGED roadmapVars
    BY <2>2, SavePlanGrows
  <2> QED
    BY <2>1, <2>2 DEF SolveSteps
<1>2. regions' = regions /\ (Populate \/ correspondence' = correspondence)
  BY DEF SolveSteps, artifactVars
<1>3. regions' \in Seq(Shapes) /\ Extends(regions', regions)
  BY <1>2, ExtendsSelf DEF TypeOK
<1>4. correspondence' \subseteq Vertex \X Vertex
  BY <1>2, <1>3, PopulateTyped DEF TypeOK
<1>5. TypeOK'
  BY <1>1, <1>3, <1>4 DEF TypeOK, snapshotVars
<1>6. Growing
  BY <1>1, <1>2, <1>3 DEF Growing
<1> QED
  BY <1>5, <1>6, GrowingKeepsInv

(* The steps that leave the roadmap and the regions alone. *)
LEMMA QuietKeepsInv ==
    ASSUME Inv, UNCHANGED <<roadmapVars, snapshotVars, regions, saved, disturbed>>,
           Populate \/ correspondence' = correspondence,
           at' = "Roadmap" => UNCHANGED <<at, edgesLeft, missed>>,
           at' \in Operations, confsLeft' \in Seq(Confs),
           edgesLeft' \subseteq Vertex \X Vertex,
           segments' \in Seq(Confs \X Confs), problemsLeft' \subseteq Problems,
           missed' \subseteq Vertex \X Vertex
    PROVE  Inv'
<1> USE DEF Inv
<1>1. Extends(database', database) /\ Extends(regions', regions)
  BY ExtendsSelf DEF TypeOK, roadmapVars
<1>2. correspondence' \subseteq Vertex \X Vertex
  BY PopulateTyped DEF TypeOK
<1>3. TypeOK'
  BY <1>2 DEF TypeOK, roadmapVars, snapshotVars
<1>4. Growing
  BY <1>1 DEF Growing, EdgesInRange, roadmapVars
<1> QED
  BY <1>3, <1>4, GrowingKeepsInv

(* A build appends shapes, if anything. *)
LEMMA BuildTyped ==
    ASSUME NEW u, NEW v, TypeOK, BuildFromEdge(u, v)
    PROVE  regions' \in Seq(Shapes) /\ Extends(regions', regions)
<1>1. CASE regions' = regions
  BY <1>1, ExtendsSelf DEF TypeOK
<1>2. CASE regions' # regions
  <2>1. PICK new \in PostProcessed(u, v) : regions' = regions \o new
    BY <1>2 DEF BuildFromEdge
  <2>2. PICK n \in 0 .. 2 : new \in [1 .. n -> Shapes]
    BY <2>1 DEF PostProcessed
  <2>3. new \in Seq(Shapes)
    BY <2>2
  <2> QED
    BY <2>1, <2>3, ExtendsConcat DEF TypeOK
<1> QED
  BY <1>1, <1>2

-----------------------------------------------------------------------------
(* The steps that do more. *)

(* Adding a configuration. *)
LEMMA AddConfKeepsInv ==
    ASSUME Inv, AddConf
    PROVE  Inv'
<1> USE DEF Inv
<1> DEFINE conf == Head(confsLeft)
           vertex == Len(database) + 1
<1>1. conf \in Confs /\ confsLeft' \in Seq(Confs)
  BY DEF AddConf, TypeOK
<1>2. Len(database) \in Nat /\ planSize \in Nat /\ Len(verticesConfs) \in Nat
  BY DEF TypeOK
<1>3. \/ /\ database' = Append(database, conf)
         /\ \E linked \in SUBSET DOMAIN database :
               databaseEdges' = databaseEdges \cup (linked \X {vertex})
         /\ verticesConfs' = Recorded(verticesConfs, planSize, vertex, conf)
      \/ /\ database' = database /\ databaseEdges' = databaseEdges
         /\ verticesConfs' = Recorded(verticesConfs, planSize, Len(database), conf)
  BY DEF AddConf, roadmapVars
<1>4. /\ planSize' = Len(database') /\ planEdges' = databaseEdges'
      /\ disturbed' = IF Len(database) > planSize
                      THEN disturbed \cup {"outgrown"} ELSE disturbed
      /\ UNCHANGED <<at, edgesLeft, segments, problemsLeft, artifactVars,
                     saved, missed>>
      /\ at = "AddConfs"
  BY DEF AddConf
<1> HIDE DEF conf
<1>5. /\ database' \in Seq(Confs) /\ Extends(database', database)
      /\ Len(database') \in {Len(database), vertex}
  <2>1. CASE database' = database
    BY <2>1, ExtendsSelf DEF TypeOK
  <2>2. CASE database' = Append(database, conf)
    BY <2>2, <1>1, AppendProperties DEF TypeOK, Extends
  <2> QED
    BY <1>3, <2>1, <2>2
<1>6. verticesConfs' \in Seq(Confs)
  <2>1. CASE verticesConfs' = verticesConfs
    BY <2>1 DEF TypeOK
  <2>2. CASE verticesConfs' = Append(verticesConfs, conf)
    BY <2>2, <1>1, AppendProperties DEF TypeOK
  <2> QED
    BY <1>3, <2>1, <2>2 DEF Recorded
<1>7. databaseEdges' \subseteq (1 .. Len(database')) \X (1 .. Len(database'))
  <2>1. CASE databaseEdges' = databaseEdges /\ database' = database
    BY <2>1 DEF EdgesInRange
  <2>2. ASSUME NEW linked \in SUBSET DOMAIN database,
               databaseEdges' = databaseEdges \cup (linked \X {vertex}),
               database' = Append(database, conf)
        PROVE  databaseEdges' \subseteq
                   (1 .. Len(database')) \X (1 .. Len(database'))
    <3>1. Len(database') = vertex
      BY <2>2, <1>1 DEF TypeOK
    <3>2. DOMAIN database \subseteq 1 .. vertex /\ vertex \in 1 .. vertex
          /\ 1 .. Len(database) \subseteq 1 .. vertex
      BY <1>2 DEF TypeOK
    <3> HIDE DEF vertex
    <3> QED
      BY <2>2, <3>1, <3>2 DEF EdgesInRange
  <2> QED
    BY <1>3, <2>1, <2>2
<1>8. 1 .. Len(database') \subseteq Vertex /\ Len(database') \in Nat
  BY <1>5 DEF Vertex
<1>9. TypeOK'
  <2>1. databaseEdges' \subseteq Vertex \X Vertex
    BY <1>7, <1>8
  <2>2. disturbed' \subseteq {"replaced", "outgrown"}
    BY <1>4 DEF TypeOK
  <2> QED
    BY <1>1, <1>4, <1>5, <1>6, <1>8, <2>1, <2>2 DEF TypeOK, artifactVars
<1>10. EdgesInRange'
  BY <1>4, <1>7 DEF EdgesInRange
<1>11. VertexConfsAligned'
  <2> SUFFICES ASSUME "outgrown" \notin disturbed'
               PROVE  /\ Len(verticesConfs') = planSize'
                      /\ planSize' <= Len(database')
                      /\ \A v \in 1 .. planSize' : verticesConfs'[v] = database'[v]
    BY DEF VertexConfsAligned
  <2>1. "outgrown" \notin disturbed /\ ~(Len(database) > planSize)
    BY <1>4
  <2>2. Len(verticesConfs) = planSize /\ planSize = Len(database)
        /\ \A v \in 1 .. planSize : verticesConfs[v] = database[v]
    BY <2>1, <1>2 DEF VertexConfsAligned
  <2>3. CASE database' = database
             /\ verticesConfs' = Recorded(verticesConfs, planSize, Len(database), conf)
    BY <2>2, <2>3, <1>2, <1>4 DEF Recorded
  <2>4. CASE database' = Append(database, conf)
             /\ verticesConfs' = Recorded(verticesConfs, planSize, vertex, conf)
    <3>1. verticesConfs' = Append(verticesConfs, conf)
      BY <2>2, <2>4, <1>2 DEF Recorded
    <3>2. /\ Len(verticesConfs') = planSize + 1 /\ Len(database') = planSize + 1
          /\ \A v \in 1 .. planSize :
                verticesConfs'[v] = verticesConfs[v] /\ database'[v] = database[v]
          /\ verticesConfs'[planSize + 1] = conf /\ database'[planSize + 1] = conf
      <4>1. database \in Seq(Confs) /\ verticesConfs \in Seq(Confs)
        BY DEF TypeOK
      <4>2. /\ Len(verticesConfs') = planSize + 1
            /\ \A v \in 1 .. planSize : verticesConfs'[v] = verticesConfs[v]
            /\ verticesConfs'[planSize + 1] = conf
        BY <4>1, <3>1, <2>2, <1>1, AppendProperties
      <4>3. /\ Len(database') = planSize + 1
            /\ \A v \in 1 .. planSize : database'[v] = database[v]
            /\ database'[planSize + 1] = conf
        BY <4>1, <2>2, <2>4, <1>1, AppendProperties
      <4> QED
        BY <4>2, <4>3
    <3> QED
      BY <3>2, <2>2, <1>2, <1>4
  <2> QED
    BY <1>3, <2>3, <2>4
<1>12. SoundUntilDisturbed'
  <2> SUFFICES ASSUME disturbed' = {}
               PROVE  CorrespondenceSound'
    BY DEF SoundUntilDisturbed
  <2>1. disturbed = {}
    BY <1>4
  <2>2. regions' \in Seq(Shapes) /\ Extends(regions', regions)
        /\ correspondence' = correspondence
    BY <1>4, ExtendsSelf DEF TypeOK, artifactVars
  <2> QED
    BY <2>1, <2>2, <1>5, PopulateSound
<1>13. VisitedHeld'
  BY <1>4 DEF VisitedHeld
<1> QED
  BY <1>9, <1>10, <1>11, <1>12, <1>13

(* Replacing the regions marks the state as disturbed. *)
LEMMA ReplaceKeepsInv ==
    ASSUME Inv, NEW new \in Seq(Shapes), ReplaceRegions(new)
    PROVE  Inv'
<1> USE DEF Inv
<1>1. /\ regions' = new /\ Populate /\ at = "Idle" /\ "replaced" \in disturbed'
      /\ disturbed' = disturbed \cup {"replaced"}
      /\ UNCHANGED <<roadmapVars, snapshotVars, saved, controlVars, missed>>
  BY DEF ReplaceRegions
<1>2. correspondence' \subseteq Vertex \X Vertex
  BY <1>1, PopulateTyped
<1>3. TypeOK'
  BY <1>1, <1>2 DEF TypeOK, roadmapVars, snapshotVars, controlVars
<1>4. EdgesInRange' /\ VertexConfsAligned'
  BY <1>1 DEF EdgesInRange, VertexConfsAligned, roadmapVars, snapshotVars
<1>5. SoundUntilDisturbed' /\ VisitedHeld'
  BY <1>1 DEF SoundUntilDisturbed, VisitedHeld
<1> QED
  BY <1>3, <1>4, <1>5

(* The repaired regions are a sequence of shapes. *)
LEMMA RepairedTyped == Repaired(regions) \subseteq Seq(Shapes)
BY DEF Repaired

(* A roadmap build starts with nothing visited. *)
LEMMA BeginRoadmapKeepsInv ==
    ASSUME Inv, BeginBuildRegionsFromRoadmap
    PROVE  Inv'
<1> USE DEF Inv, BeginBuildRegionsFromRoadmap
<1>1. TypeOK'
  BY DEF TypeOK, Operations, roadmapVars, snapshotVars, artifactVars
<1>2. EdgesInRange' /\ VertexConfsAligned' /\ SoundUntilDisturbed'
  BY DEF EdgesInRange, VertexConfsAligned, SoundUntilDisturbed,
         CorrespondenceSound, roadmapVars, snapshotVars, artifactVars
<1>3. VisitedHeld'
  BY DEF VisitedHeld, snapshotVars
<1> QED
  BY <1>1, <1>2, <1>3

(* A visited edge lies inside the regions or is recorded as missed: the       *)
(* correspondence that lets the loop skip it is sound.                        *)
LEMMA VisitHolds ==
    ASSUME Inv, disturbed = {}, NEW from \in Nat, NEW to \in Nat,
           <<from, to>> \in planEdges, VisitEdge(from, to),
           UNCHANGED roadmapVars
    PROVE  <<from, to>> \in missed' \/ EdgeHeld(<<from, to>>)'
<1> USE DEF Inv
<1> DEFINE u == database[from]
           v == database[to]
<1>1. CorrespondenceSound
  BY DEF SoundUntilDisturbed
<1>2. planSize \in Nat /\ planSize <= Len(database)
      /\ \A i \in 1 .. planSize : verticesConfs[i] = database[i]
  BY DEF VertexConfsAligned, TypeOK
<1>3. from \in 1 .. planSize /\ to \in 1 .. planSize
  BY DEF EdgesInRange
<1>4. u = verticesConfs[from] /\ v = verticesConfs[to]
      /\ u \in Confs /\ v \in Confs
  BY <1>2, <1>3 DEF TypeOK
<1>5. database' = database
  BY DEF roadmapVars
<1>6. ASSUME NEW r \in DOMAIN regions, NEW i \in {from, to}, VertexInside(i, r)
      PROVE  Point(database[i], database[i]) \in regions[r]
  <2>1. CASE <<i, r>> \in correspondence
    BY <2>1, <1>1 DEF CorrespondenceSound
  <2>2. CASE Point(verticesConfs[i], verticesConfs[i]) \in regions[r]
    BY <2>2, <1>4
  <2> QED
    BY <1>6, <2>1, <2>2 DEF VertexInside
<1>7. CASE EdgeCovered(from, to) /\ UNCHANGED <<artifactVars, missed>>
  <2>1. PICK r \in DOMAIN regions : VertexInside(from, r) /\ VertexInside(to, r)
    BY <1>7 DEF EdgeCovered
  <2>2. Point(u, u) \in regions[r] /\ Point(v, v) \in regions[r]
    BY <2>1, <1>6
  <2>3. IsEdgeCoveredByRegions(regions, u, v)
    BY <2>2, <1>4, HeldByOne DEF TypeOK
  <2> QED
    BY <2>3, <1>5, <1>7 DEF EdgeHeld, artifactVars
<1>8. CASE missed' = IF IsEdgeCoveredByRegions(regions', verticesConfs[from],
                                               verticesConfs[to])
                     THEN missed ELSE missed \cup {<<from, to>>}
  BY <1>4, <1>5, <1>8 DEF EdgeHeld
<1> QED
  BY <1>7, <1>8 DEF VisitEdge

(* What one visit does to the types, with or without an exception. *)
LEMMA VisitTyped ==
    ASSUME TypeOK, NEW from \in Vertex, NEW to \in Vertex, VisitEdge(from, to)
    PROVE  /\ regions' \in Seq(Shapes) /\ Extends(regions', regions)
           /\ Populate \/ correspondence' = correspondence
           /\ correspondence' \subseteq Vertex \X Vertex
           /\ missed' \subseteq Vertex \X Vertex /\ missed \subseteq missed'
<1>1. CASE UNCHANGED <<artifactVars, missed>>
  BY <1>1, ExtendsSelf DEF TypeOK, artifactVars
<1>2. CASE /\ BuildFromEdge(verticesConfs[from], verticesConfs[to])
           /\ Populate
           /\ missed' = missed \/ missed' = missed \cup {<<from, to>>}
  <2>1. regions' \in Seq(Shapes) /\ Extends(regions', regions)
    BY <1>2, BuildTyped
  <2>2. correspondence' \subseteq Vertex \X Vertex
    BY <1>2, <2>1, PopulateTyped
  <2> QED
    BY <1>2, <2>1, <2>2 DEF TypeOK
<1> QED
  BY <1>1, <1>2 DEF VisitEdge

(* One iteration of the roadmap build. *)
LEMMA VisitKeepsInv ==
    ASSUME Inv, NEW from \in 1 .. planSize, NEW to \in 1 .. planSize,
           BuildRegionsFromRoadmap(from, to)
    PROVE  Inv'
<1> USE DEF Inv
<1>1. /\ at = "Roadmap" /\ <<from, to>> \in edgesLeft
      /\ UNCHANGED <<roadmapVars, snapshotVars, saved, disturbed>>
  BY DEF BuildRegionsFromRoadmap
<1>2. from \in Vertex /\ to \in Vertex /\ from \in Nat /\ to \in Nat
  BY DEF TypeOK, Vertex
<1>3. \/ Return /\ UNCHANGED <<artifactVars, missed>>
      \/ VisitEdge(from, to) /\ Return
      \/ /\ VisitEdge(from, to)
         /\ edgesLeft' = edgesLeft \ {<<from, to>>}
         /\ UNCHANGED <<at, confsLeft, segments, problemsLeft>>
  BY DEF BuildRegionsFromRoadmap
<1>4. /\ regions' \in Seq(Shapes) /\ Extends(regions', regions)
      /\ Populate \/ correspondence' = correspondence
      /\ correspondence' \subseteq Vertex \X Vertex
      /\ missed' \subseteq Vertex \X Vertex
  BY <1>2, <1>3, VisitTyped, ExtendsSelf DEF TypeOK, artifactVars
<1>5. database' = database /\ Extends(database', database)
  BY <1>1, ExtendsSelf DEF TypeOK, roadmapVars
<1>6. CASE Return
  <2>1. TypeOK'
    BY <1>1, <1>4, <1>6 DEF TypeOK, Return, Operations, roadmapVars, snapshotVars
  <2>2. Growing
    BY <1>1, <1>4, <1>5, <1>6 DEF Growing, Return, EdgesInRange, roadmapVars
  <2> QED
    BY <2>1, <2>2, GrowingKeepsInv
<1>7. CASE /\ VisitEdge(from, to)
           /\ edgesLeft' = edgesLeft \ {<<from, to>>}
           /\ UNCHANGED <<at, confsLeft, segments, problemsLeft>>
  <2>1. TypeOK'
    BY <1>1, <1>4, <1>7 DEF TypeOK, roadmapVars, snapshotVars
  <2>2. EdgesInRange' /\ VertexConfsAligned'
    BY <1>1 DEF EdgesInRange, VertexConfsAligned, roadmapVars, snapshotVars
  <2>3. SoundUntilDisturbed'
    BY <1>1, <1>4, <1>5, PopulateSound DEF SoundUntilDisturbed, TypeOK
  <2>4. VisitedHeld'
    <3> SUFFICES ASSUME disturbed = {}, NEW e \in planEdges \ edgesLeft'
                 PROVE  e \in missed' \/ EdgeHeld(e)'
      BY <1>1 DEF VisitedHeld, snapshotVars
    <3>1. CASE e = <<from, to>>
      BY <3>1, <1>1, <1>2, <1>7, VisitHolds
    <3>2. CASE e \in missed
      BY <3>2, <1>2, <1>7, VisitTyped
    <3>3. CASE EdgeHeld(e)
      BY <3>3, <1>4, <1>5, HeldByMore DEF EdgeHeld, TypeOK
    <3>4. e \notin edgesLeft \/ e = <<from, to>>
      BY <1>7
    <3> QED
      BY <3>1, <3>2, <3>3, <3>4, <1>1 DEF VisitedHeld
  <2> QED
    BY <2>1, <2>2, <2>3, <2>4
<1> QED
  BY <1>3, <1>6, <1>7

(* One edge of a list of edges. *)
LEMMA BuildSegmentKeepsInv ==
    ASSUME Inv, BuildSegment
    PROVE  Inv'
<1> USE DEF Inv
<1>1. /\ BuildFromEdge(Head(segments)[1], Head(segments)[2])
      /\ at \in {"Segments", "SavedSegments"}
      /\ segments # <<>> /\ segments' = Tail(segments)
      /\ UNCHANGED <<at, confsLeft, edgesLeft, problemsLeft, correspondence,
                     roadmapVars, snapshotVars, saved, missed, disturbed>>
  BY DEF BuildSegment
<1>2. regions' \in Seq(Shapes) /\ Extends(regions', regions)
  BY <1>1, BuildTyped
<1>3. segments' \in Seq(Confs \X Confs)
  BY <1>1 DEF TypeOK
<1>4. TypeOK'
  BY <1>1, <1>2, <1>3 DEF TypeOK, roadmapVars, snapshotVars
<1>5. Growing
  BY <1>1, <1>2, ExtendsSelf DEF Growing, TypeOK, EdgesInRange, roadmapVars
<1> QED
  BY <1>4, <1>5, GrowingKeepsInv

(* The four operations that solve problems. *)
LEMMA SolvingKeepsInv ==
    ASSUME Inv, NEW problem \in Problems, NEW recall \in BOOLEAN, NEW save \in BOOLEAN,
           \/ GetSampleBasedSolution(problem, recall, save)
           \/ UpdateRoadmapFromSavedProblems(problem)
           \/ SolveProblemAndBuildRegions(problem, save)
           \/ BuildFromSavedProblem(problem)
    PROVE  Inv'
<1> USE DEF Inv
<1>1. /\ <<>> \in Seq(Confs) /\ <<>> \in Seq(Confs \X Confs)
      /\ at \in Operations /\ confsLeft \in Seq(Confs)
      /\ edgesLeft \subseteq Vertex \X Vertex
      /\ segments \in Seq(Confs \X Confs) /\ problemsLeft \subseteq Problems
      /\ saved \subseteq Problems
  BY DEF TypeOK
<1>2. ASSUME Return
      PROVE  /\ at' \in Operations \ {"Roadmap"}
             /\ confsLeft' \in Seq(Confs) /\ edgesLeft' \subseteq Vertex \X Vertex
             /\ segments' \in Seq(Confs \X Confs) /\ problemsLeft' \subseteq Problems
  BY <1>1, <1>2 DEF Return, Operations
<1>3. ASSUME NEW s, NEW building \in {"Segments", "SavedSegments"},
             SolveAndBuild(problem, s, building)
      PROVE  /\ SolveSteps
             /\ at' \in Operations \ {"Roadmap"}
             /\ confsLeft' \in Seq(Confs) /\ edgesLeft' \subseteq Vertex \X Vertex
             /\ segments' \in Seq(Confs \X Confs) /\ problemsLeft' \subseteq Problems
  <2>1. CASE SolveThrows(problem, s) /\ Return
    BY <2>1, <1>2, ThrowIsSolveStep
  <2>2. CASE /\ \E plan \in Plans(problem) :
                     Solved(problem, ~s, s, plan) /\ segments' = EdgesOf(plan)
             /\ at' = building
             /\ problemsLeft' = problemsLeft \ {problem}
             /\ UNCHANGED <<confsLeft, edgesLeft>>
    <3>1. PICK plan \in Plans(problem) :
                   Solved(problem, ~s, s, plan) /\ segments' = EdgesOf(plan)
      BY <2>2
    <3>2. SolveSteps
      BY <3>1, SolvedIsSolveStep
    <3>3. segments' \in Seq(Confs \X Confs)
      BY <3>1, PlanTyped
    <3> QED
      BY <2>2, <3>2, <3>3, <1>1 DEF Operations
  <2> QED
    BY <1>3, <2>1, <2>2 DEF SolveAndBuild
<1>4. CASE GetSampleBasedSolution(problem, recall, save)
  <2>1. SolveSteps
    BY <1>4, SolvedIsSolveStep, ThrowIsSolveStep
       DEF GetSampleBasedSolution, SolveSteps
  <2> QED
    BY <1>1, <1>4, <2>1, SolveGrows DEF GetSampleBasedSolution, controlVars, Operations
<1>5. CASE UpdateRoadmapFromSavedProblems(problem)
  <2>1. SolveSteps
    BY <1>5, SolvedIsSolveStep, ThrowIsSolveStep
       DEF UpdateRoadmapFromSavedProblems, SolveSteps
  <2>2. /\ UNCHANGED <<snapshotVars, saved, missed, disturbed>>
        /\ \/ Return
           \/ /\ at = "UpdateRoadmap" /\ at' \in {"Idle", at}
              /\ problemsLeft' = problemsLeft \ {problem}
              /\ UNCHANGED <<confsLeft, edgesLeft, segments>>
    BY <1>5 DEF UpdateRoadmapFromSavedProblems
  <2>3. CASE Return
    BY <2>1, <2>2, <2>3, <1>1, <1>2, SolveGrows
  <2>4. CASE /\ at = "UpdateRoadmap" /\ at' \in {"Idle", at}
             /\ problemsLeft' = problemsLeft \ {problem}
             /\ UNCHANGED <<confsLeft, edgesLeft, segments>>
    BY <2>1, <2>2, <2>4, <1>1, SolveGrows DEF Operations
  <2> QED
    BY <2>2, <2>3, <2>4
<1>6. CASE SolveProblemAndBuildRegions(problem, save)
  <2>1. /\ at = "Idle" /\ saved' \subseteq Problems
        /\ UNCHANGED <<snapshotVars, missed, disturbed>>
        /\ \/ SolveAndBuild(problem, save, "Segments")
           \/ UNCHANGED <<roadmapVars, artifactVars, controlVars>>
    BY <1>1, <1>6 DEF SolveProblemAndBuildRegions
  <2>2. CASE SolveAndBuild(problem, save, "Segments")
    BY <2>1, <2>2, <1>3, SolveGrows
  <2>3. CASE UNCHANGED <<roadmapVars, artifactVars, controlVars>>
    BY <2>1, <2>3, <1>1, SolveGrows DEF SolveSteps, controlVars, Operations
  <2> QED
    BY <2>1, <2>2, <2>3
<1>7. CASE BuildFromSavedProblem(problem)
  <2>1. /\ at = "SavedProblems"
        /\ UNCHANGED <<snapshotVars, saved, missed, disturbed>>
        /\ \/ /\ problemsLeft' = problemsLeft \ {problem}
              /\ UNCHANGED <<at, confsLeft, edgesLeft, segments, roadmapVars,
                             artifactVars>>
           \/ SolveAndBuild(problem, FALSE, "SavedSegments")
    BY <1>7 DEF BuildFromSavedProblem
  <2>2. CASE SolveAndBuild(problem, FALSE, "SavedSegments")
    BY <2>1, <2>2, <1>1, <1>3, SolveGrows
  <2>3. CASE /\ problemsLeft' = problemsLeft \ {problem}
             /\ UNCHANGED <<at, confsLeft, edgesLeft, segments, roadmapVars,
                            artifactVars>>
    BY <2>1, <2>3, <1>1, SolveGrows DEF SolveSteps, Operations
  <2> QED
    BY <2>1, <2>2, <2>3
<1> QED
  BY <1>4, <1>5, <1>6, <1>7

(* The steps that begin and end operations and the queries. *)
LEMMA BeginEndKeepsInv ==
    ASSUME Inv,
           \/ \E confs \in ConfLists : BeginAddConfs(confs)
           \/ EndAddConfs
           \/ \E ps \in SUBSET saved : BeginProblems("UpdateRoadmap", ps)
           \/ \E ps \in SUBSET saved : BeginProblems("SavedProblems", ps)
           \/ \E list \in SegmentLists : BeginSegments(list)
           \/ EndSegments
           \/ EndSavedProblems
           \/ EndBuildRegionsFromRoadmap
           \/ GetNumCoveredVerticesAndEdges
    PROVE  Inv'
<1> USE DEF Inv
<1>1. /\ <<>> \in Seq(Confs) /\ <<>> \in Seq(Confs \X Confs)
      /\ at \in Operations /\ confsLeft \in Seq(Confs)
      /\ edgesLeft \subseteq Vertex \X Vertex
      /\ segments \in Seq(Confs \X Confs) /\ problemsLeft \subseteq Problems
      /\ saved \subseteq Problems /\ missed \subseteq Vertex \X Vertex
  BY DEF TypeOK
<1>2. UNCHANGED <<roadmapVars, snapshotVars, regions, saved, disturbed, missed>>
      /\ (Populate \/ correspondence' = correspondence)
  BY DEF BeginAddConfs, EndAddConfs, BeginProblems, BeginSegments, EndSegments,
         EndSavedProblems, EndBuildRegionsFromRoadmap,
         GetNumCoveredVerticesAndEdges, artifactVars
<1>3. \/ Return
      \/ UNCHANGED controlVars /\ at = "Idle"
      \/ /\ at' \in Operations \ {"Roadmap"}
         /\ edgesLeft' = edgesLeft
         /\ confsLeft' \in Seq(Confs)
         /\ segments' \in Seq(Confs \X Confs)
         /\ problemsLeft' \subseteq Problems
  <2>1. CASE \E confs \in ConfLists : BeginAddConfs(confs)
    BY <1>1, <2>1, BoundsAssumption DEF BeginAddConfs, Operations
  <2>2. CASE \/ \E ps \in SUBSET saved : BeginProblems("UpdateRoadmap", ps)
             \/ \E ps \in SUBSET saved : BeginProblems("SavedProblems", ps)
    <3>1. PICK ps \in SUBSET saved, op \in {"UpdateRoadmap", "SavedProblems"} :
               BeginProblems(op, ps)
      BY <2>2
    <3> QED
      BY <1>1, <3>1 DEF BeginProblems, Operations
  <2>3. CASE \E list \in SegmentLists : BeginSegments(list)
    BY <1>1, <2>3, BoundsAssumption DEF BeginSegments, Operations
  <2>4. CASE EndSegments
    BY <1>1, <2>4 DEF EndSegments, AfterSegments, Operations
  <2>5. CASE EndAddConfs \/ EndSavedProblems \/ EndBuildRegionsFromRoadmap
    BY <2>5 DEF EndAddConfs, EndSavedProblems, EndBuildRegionsFromRoadmap
  <2>6. CASE GetNumCoveredVerticesAndEdges
    BY <2>6 DEF GetNumCoveredVerticesAndEdges
  <2> QED
    BY <2>1, <2>2, <2>3, <2>4, <2>5, <2>6
<1>4. CASE Return
  BY <1>1, <1>2, <1>4, QuietKeepsInv DEF Return, Operations
<1>5. CASE UNCHANGED controlVars /\ at = "Idle"
  BY <1>1, <1>2, <1>5, QuietKeepsInv DEF controlVars
<1>6. CASE /\ at' \in Operations \ {"Roadmap"}
           /\ edgesLeft' = edgesLeft
           /\ confsLeft' \in Seq(Confs)
           /\ segments' \in Seq(Confs \X Confs)
           /\ problemsLeft' \subseteq Problems
  BY <1>1, <1>2, <1>6, QuietKeepsInv
<1> QED
  BY <1>3, <1>4, <1>5, <1>6

-----------------------------------------------------------------------------
(* The invariant holds at the start, whatever roadmap is on disk. *)
LEMMA InitEstablishesInv == Init => Inv
<1> SUFFICES ASSUME Init
             PROVE  Inv
  OBVIOUS
<1>1. database \in Seq(Confs)
  <2>1. PICK n \in 0 .. MaxVertices : database \in [1 .. n -> Confs]
    BY DEF Init
  <2>2. n \in Nat
    BY <2>1, BoundsAssumption
  <2> QED
    BY <2>1, <2>2
<1>2. DOMAIN database = 1 .. Len(database) /\ Len(database) \in Nat
  BY <1>1
<1>3. databaseEdges \subseteq (1 .. Len(database)) \X (1 .. Len(database))
  BY <1>2 DEF Init
<1>4. 1 .. Len(database) \subseteq Vertex
  BY <1>2 DEF Vertex
<1>5. regions \in Seq(Shapes)
  <2>1. CASE regions = <<>>
    BY <2>1
  <2>2. CASE regions # <<>>
    <3>1. PICK shape \in Shapes : regions = <<shape>>
      BY <2>2 DEF Init
    <3> QED
      BY <3>1, ShortSeqs
  <2> QED
    BY <2>1, <2>2
<1>6. TypeOK
  BY <1>1, <1>2, <1>3, <1>4, <1>5 DEF Init, TypeOK, Operations
<1>7. EdgesInRange /\ VertexConfsAligned
  BY <1>2, <1>3 DEF Init, EdgesInRange, VertexConfsAligned
<1>8. SoundUntilDisturbed /\ VisitedHeld
  BY DEF Init, SoundUntilDisturbed, CorrespondenceSound, VisitedHeld
<1> QED
  BY <1>6, <1>7, <1>8 DEF Inv

(* No step of any operation breaks the invariant. *)
LEMMA NextKeepsInv == Inv /\ [Next]_vars => Inv'
<1> SUFFICES ASSUME Inv, [Next]_vars
             PROVE  Inv'
  OBVIOUS
<1>1. CASE AddConf
  BY <1>1, AddConfKeepsInv
<1>2. CASE \/ \E p \in Problems, recall, save \in BOOLEAN :
                  GetSampleBasedSolution(p, recall, save)
           \/ \E p \in Problems : UpdateRoadmapFromSavedProblems(p)
           \/ \E p \in Problems, save \in BOOLEAN :
                  SolveProblemAndBuildRegions(p, save)
           \/ \E p \in Problems : BuildFromSavedProblem(p)
  BY <1>2, SolvingKeepsInv
<1>3. CASE BuildSegment
  BY <1>3, BuildSegmentKeepsInv
<1>4. CASE BeginBuildRegionsFromRoadmap
  BY <1>4, BeginRoadmapKeepsInv
<1>5. CASE \E from, to \in 1 .. planSize : BuildRegionsFromRoadmap(from, to)
  BY <1>5, VisitKeepsInv
<1>6. CASE RepairRegions
  BY <1>6, RepairedTyped, ReplaceKeepsInv DEF RepairRegions
<1>7. CASE SetIrisRegionsAdapter
  <2>1. PICK new \in {<<>>} \cup {<<shape>> : shape \in Shapes} : ReplaceRegions(new)
    BY <1>7 DEF SetIrisRegionsAdapter
  <2>2. CASE new = <<>>
    BY <2>1, <2>2, EmptySeq, ReplaceKeepsInv
  <2>3. CASE new # <<>>
    <3>1. PICK shape \in Shapes : new = <<shape>>
      BY <2>1, <2>3
    <3>2. new \in Seq(Shapes)
      BY <3>1, ShortSeqs
    <3> QED
      BY <2>1, <3>2, ReplaceKeepsInv
  <2> QED
    BY <2>2, <2>3
<1>8. CASE \/ \E confs \in ConfLists : BeginAddConfs(confs)
           \/ EndAddConfs
           \/ \E ps \in SUBSET saved : BeginProblems("UpdateRoadmap", ps)
           \/ \E ps \in SUBSET saved : BeginProblems("SavedProblems", ps)
           \/ \E list \in SegmentLists : BeginSegments(list)
           \/ EndSegments
           \/ EndSavedProblems
           \/ EndBuildRegionsFromRoadmap
           \/ GetNumCoveredVerticesAndEdges
  BY <1>8, BeginEndKeepsInv
<1>9. CASE UNCHANGED vars
  BY <1>9 DEF vars, roadmapVars, snapshotVars, artifactVars, controlVars, Inv,
              TypeOK, EdgesInRange, VertexConfsAligned, SoundUntilDisturbed,
              CorrespondenceSound, VisitedHeld, EdgeHeld
<1> QED
  BY <1>1, <1>2, <1>3, <1>4, <1>5, <1>6, <1>7, <1>8, <1>9 DEF Next

(* The invariant holds in every reachable state. *)
LEMMA SpecKeepsInv == Spec => []Inv
BY InitEstablishesInv, NextKeepsInv, PTL DEF Spec

(* Every variable keeps its type. *)
THEOREM TypeCorrect == Spec => []TypeOK
<1>1. Inv => TypeOK
  BY DEF Inv
<1> QED
  BY <1>1, SpecKeepsInv, PTL

(* ThunderPlanner::vertices_confs_ gives every vertex of the snapshot its own *)
(* configuration, until AddConfsToRoadmap runs after a plan was saved.        *)
THEOREM ConfsAligned == Spec => []VertexConfsAligned
<1>1. Inv => VertexConfsAligned
  BY DEF Inv
<1> QED
  BY <1>1, SpecKeepsInv, PTL

(* Until the regions are replaced or AddConfsToRoadmap runs after a plan was  *)
(* saved, a recorded vertex is inside its recorded region, whatever is added, *)
(* solved, saved or built and however it fails.                               *)
THEOREM CorrespondenceStaysSound == Spec => []SoundUntilDisturbed
<1>1. Inv => SoundUntilDisturbed
  BY DEF Inv
<1> QED
  BY <1>1, SpecKeepsInv, PTL

(* BuildRegionsFromRoadmap skips no edge of the snapshot that the regions do  *)
(* not hold, unless IRIS failed on it.                                        *)
THEOREM RoadmapBuildCovers == Spec => []SnapshotCovered
<1>1. Inv => SnapshotCovered
  BY DEF Inv, SnapshotCovered, VisitedHeld, EdgeHeld
<1> QED
  BY <1>1, SpecKeepsInv, PTL

-----------------------------------------------------------------------------
(* GcsPlanner. *)

USE DEF Q1, SeenFromQ1, SeenFromQ2, Q2

(* The nodes of the terminals differ.                                      *)
LEMMA TerminalsApart ==
    /\ Q1 # SeenFromQ1 /\ Q1 # SeenFromQ2 /\ Q1 # Q2
    /\ SeenFromQ1 # SeenFromQ2 /\ SeenFromQ1 # Q2 /\ SeenFromQ2 # Q2
<1>1. Q1[3] = 1 /\ SeenFromQ1[3] = 2 /\ SeenFromQ2[3] = 3 /\ Q2[3] = 4
  OBVIOUS
<1> QED BY <1>1

(* The nodes of the terminals are told from the vertices and from one      *)
(* another.                                                                *)
LEMMA NodesApart ==
    ASSUME samples \in Worlds
    PROVE  /\ Q1 \notin Vertices /\ SeenFromQ1 \notin Vertices
           /\ SeenFromQ2 \notin Vertices /\ Q2 \notin Vertices
           /\ Q1 # SeenFromQ1 /\ Q1 # SeenFromQ2 /\ Q1 # Q2
           /\ SeenFromQ1 # SeenFromQ2 /\ SeenFromQ1 # Q2 /\ SeenFromQ2 # Q2
<1>1. \A v \in Vertices : v[1] # 0
  <2>1. \A v \in samples : v[1] \in Nat \ {0}
    BY WorldsAssumption, RegionsAssumption
  <2>2. \A r \in Regions : <<r, r, 1>>[1] # 0
    BY RegionsAssumption
  <2> QED BY <2>1, <2>2 DEF Vertices
<1>2. Q1[1] = 0 /\ SeenFromQ1[1] = 0 /\ SeenFromQ2[1] = 0 /\ Q2[1] = 0
  OBVIOUS
<1>3. Q1[3] = 1 /\ SeenFromQ1[3] = 2 /\ SeenFromQ2[3] = 3 /\ Q2[3] = 4
  OBVIOUS
<1> QED BY <1>1, <1>2, <1>3

(* Where the search can go from each kind of node.                         *)
LEMMA SuccessorsOf ==
    ASSUME samples \in Worlds, NEW es
    PROVE  /\ Successors(Q1, es) = EntryOf(call.start, SeenFromQ1)
           /\ Successors(SeenFromQ1, es) = At(call.start.at)
           /\ Successors(SeenFromQ2, es) = {Q2}
           /\ \A v \in Vertices :
                 /\ \A w : <<v, w>> \in es => w \in Successors(v, es)
                 /\ v \in At(call.end.at) =>
                       (IF call.end.via THEN SeenFromQ2 ELSE Q2)
                           \in Successors(v, es)
<1>1. Successors(Q1, es) = EntryOf(call.start, SeenFromQ1)
  BY NodesApart DEF Successors
<1>2. Successors(SeenFromQ1, es) = At(call.start.at)
  BY NodesApart DEF Successors
<1>3. Successors(SeenFromQ2, es) = {Q2}
  BY NodesApart DEF Successors
<1>4. ASSUME NEW v \in Vertices
      PROVE  Successors(v, es) =
                {e[2] : e \in {x \in es : x[1] = v}}
                \cup (IF v \in At(call.end.at)
                      THEN {IF call.end.via THEN SeenFromQ2 ELSE Q2} ELSE {})
  <2>1. v # Q1 /\ v # SeenFromQ1 /\ v # SeenFromQ2 /\ v # Q2
    BY NodesApart
  <2> QED BY <2>1 DEF Successors
<1>5. ASSUME NEW v \in Vertices, NEW w, <<v, w>> \in es
      PROVE  w \in {e[2] : e \in {x \in es : x[1] = v}}
  <2>1. <<v, w>>[1] = v /\ <<v, w>>[2] = w
    OBVIOUS
  <2> QED BY <1>5, <2>1
<1> QED BY <1>1, <1>2, <1>3, <1>4, <1>5

-----------------------------------------------------------------------------
(* The inductive invariant.  What has been visited has had all it leads to *)
(* found; a vertex that does not touch the goal leads to all the vertices  *)
(* it shares a region with.                                                *)
GraphInv ==
    /\ samples \in Worlds
    /\ lazy \in BOOLEAN
    /\ edges \subseteq AllEdges(Vertices)
    /\ AllEdgesOrNone
    /\ ~lazy => edges = AllEdges(Vertices)

Visited == DOMAIN call.found \ call.open
GoalEntry == IF call.end.via THEN SeenFromQ2 ELSE Q2
Complete == ~lazy \/ NoEndLeft
SearchInv ==
    call # Idle =>
        /\ call = [start |-> call.start, end |-> call.end,
                   found |-> call.found, open |-> call.open]
        /\ call.start.type = "start"
        /\ Q1 \in DOMAIN call.found
        /\ call.open \subseteq DOMAIN call.found
        /\ Q2 \notin Visited
        /\ Q1 \in Visited =>
              EntryOf(call.start, SeenFromQ1) \subseteq DOMAIN call.found
        /\ SeenFromQ1 \in Visited => At(call.start.at) \subseteq DOMAIN call.found
        /\ SeenFromQ2 \in Visited => Q2 \in DOMAIN call.found
        /\ \A v \in Visited \cap Vertices :
              IF v \in At(call.end.at) THEN GoalEntry \in DOMAIN call.found
              ELSE Complete =>
                      \A w \in Vertices : Share(v, w) => w \in DOMAIN call.found

IInv == GraphInv /\ SearchInv /\ NoPathIsDisconnected

LEMMA InitInv == GcsInit => IInv
<1> SUFFICES ASSUME GcsInit PROVE IInv
  OBVIOUS
<1>1. GraphInv
  <2>1. \A v, w \in Vertices : Share(v, w) => <<v, w>> \in AllEdges(Vertices)
    BY DEF AllEdges
  <2>2. AllEdgesOrNone
    BY <2>1 DEF GcsInit, AllEdgesOrNone
  <2> QED BY <2>2, OptionsAssumption DEF GcsInit, GraphInv
<1>2. SearchInv
  BY DEF GcsInit, SearchInv
<1>3. NoPathIsDisconnected
  BY DEF GcsInit, NoPathIsDisconnected, NoAnswer
<1> QED BY <1>1, <1>2, <1>3 DEF IInv

-----------------------------------------------------------------------------
(* AddEdges keeps the graph sound, and gives a vertex away from the goal   *)
(* all of its edges, unless a goal left earlier stands in the way.         *)
LEMMA AddEdgesSound ==
    ASSUME GraphInv, NEW v
    PROVE  /\ AddEdges(v) \subseteq AllEdges(Vertices)
           /\ edges \subseteq AddEdges(v)
           /\ \A u, w \in Vertices :
                 Share(u, w) /\ <<u, w>> \notin AddEdges(v) =>
                    \A e \in AddEdges(v) : e[1] # u
           /\ ~lazy => AddEdges(v) = AllEdges(Vertices)
<1>1. CASE ~lazy \/ v \notin Vertices \/ EdgesSeen(v, edges)
  BY <1>1 DEF AddEdges, GraphInv, AllEdgesOrNone
<1>2. CASE ~(~lazy \/ v \notin Vertices \/ EdgesSeen(v, edges))
  <2> DEFINE Own == {<<v, w>> : w \in {x \in Vertices : Share(v, x)}}
  <2>1. AddEdges(v) = edges \cup Own
    BY <1>2 DEF AddEdges
  <2>2. Own \subseteq AllEdges(Vertices)
    BY <1>2 DEF AllEdges
  <2>3. ASSUME NEW u \in Vertices, NEW w \in Vertices, Share(u, w),
               <<u, w>> \notin edges \cup Own, NEW e \in edges \cup Own
        PROVE  e[1] # u
    <3>1. u # v
      BY <2>3
    <3>2. CASE e \in edges
      BY <2>3, <3>2 DEF GraphInv, AllEdgesOrNone
    <3>3. CASE e \in Own
      BY <3>1, <3>3
    <3> QED BY <3>2, <3>3
  <2> HIDE DEF Own
  <2> QED BY <1>2, <2>1, <2>2, <2>3 DEF GraphInv
<1> QED BY <1>1, <1>2

LEMMA AddEdgesComplete ==
    ASSUME GraphInv, Complete, NEW v \in Vertices,
           call # Idle, call.start.type = "start", v \notin At(call.end.at),
           NEW w \in Vertices, Share(v, w)
    PROVE  <<v, w>> \in AddEdges(v)
<1>1. <<v, w>> \in AllEdges(Vertices)
  BY DEF AllEdges
<1>2. CASE ~lazy
  BY <1>1, <1>2, AddEdgesSound
<1>3. CASE lazy /\ ~EdgesSeen(v, edges)
  BY <1>3 DEF AddEdges
<1>4. CASE lazy /\ EdgesSeen(v, edges)
  <2>1. HasOutgoing(v, edges)
    BY <1>4 DEF EdgesSeen
  <2>2. ~\E t \in Present : t.type = "end" /\ t.joined /\ v \in At(t.at)
    <3> SUFFICES ASSUME NEW t \in Present, t.type = "end", v \in At(t.at)
                 PROVE  FALSE
      OBVIOUS
    <3>1. t \notin left
      BY <1>4 DEF Complete, NoEndLeft
    <3>2. t = call.end
      BY <3>1 DEF Present
    <3> QED BY <3>2
  <2>3. PICK e \in edges : e[1] = v
    BY <2>1, <2>2 DEF HasOutgoing
  <2>4. <<v, w>> \in edges
    BY <2>3 DEF GraphInv, AllEdgesOrNone
  <2> QED BY <2>4, AddEdgesSound
<1> QED BY <1>2, <1>3, <1>4

-----------------------------------------------------------------------------
(* An empty search has found everything that the start is connected to.    *)
LEMMA ExhaustedIsDisconnected ==
    ASSUME GraphInv, SearchInv, call # Idle, call.open = {}, Complete
    PROVE  ~Connected(call.start, call.end)
<1> DEFINE S == DOMAIN call.found \cap Vertices
<1>1. \A n \in DOMAIN call.found : n \in Visited
  BY DEF Visited
<1>2. Q2 \notin DOMAIN call.found
  BY <1>1 DEF SearchInv
<1>3. At(call.start.at) \subseteq S
  <2>1. EntryOf(call.start, SeenFromQ1) \subseteq DOMAIN call.found
    BY <1>1 DEF SearchInv
  <2>2. At(call.start.at) \subseteq DOMAIN call.found
    BY <1>1, <2>1 DEF SearchInv, EntryOf
  <2> QED BY <2>2 DEF At
<1>4. S \cap At(call.end.at) = {}
  <2> SUFFICES ASSUME NEW v \in S, v \in At(call.end.at) PROVE FALSE
    OBVIOUS
  <2>1. GoalEntry \in DOMAIN call.found
    BY <1>1 DEF SearchInv
  <2> QED BY <1>1, <1>2, <2>1 DEF SearchInv, GoalEntry
<1>5. Closed(S)
  BY <1>1, <1>4 DEF SearchInv, Closed
<1>6. S \in SUBSET Vertices
  OBVIOUS
<1> HIDE DEF S
<1> QED BY <1>3, <1>4, <1>5, <1>6 DEF Connected

-----------------------------------------------------------------------------
(* Leaving the graph and the samples alone keeps what is said of them.     *)
LEMMA GraphUnchanged ==
    ASSUME GraphInv, UNCHANGED <<samples, lazy, edges>>
    PROVE  GraphInv' /\ Vertices' = Vertices
<1>1. Vertices' = Vertices
  BY DEF Vertices, Meets
<1> QED BY <1>1 DEF GraphInv, AllEdgesOrNone

LEMMA AnswerReset ==
    ASSUME answer' = NoAnswer
    PROVE  NoPathIsDisconnected'
BY DEF NoPathIsDisconnected, NoAnswer

LEMMA AnswerOther ==
    ASSUME NEW outcome, NEW along, Close(outcome, along),
           outcome # "no path"
    PROVE  NoPathIsDisconnected' /\ SearchInv'
BY DEF NoPathIsDisconnected, SearchInv, Close

(* The configurations begin a search with the start open.                  *)
LEMMA BeginInv ==
    ASSUME IInv, NEW q1, NEW q2, Begin(q1, q2)
    PROVE  IInv'
<1>1. GraphInv' /\ Vertices' = Vertices
  BY GraphUnchanged DEF IInv, Begin, Fixed
<1>2. NoPathIsDisconnected'
  BY AnswerReset DEF Begin
<1>3. SearchInv'
  <2>1. Q1 \in DOMAIN call'.found /\ Visited' = {}
    BY DEF Begin, Visited
  <2>2. Q2 \notin Visited' /\ Q1 \notin Visited' /\ SeenFromQ1 \notin Visited'
        /\ SeenFromQ2 \notin Visited' /\ Visited' \cap Vertices' = {}
    BY <2>1
  <2>3. call' = [start |-> call'.start, end |-> call'.end,
                 found |-> call'.found, open |-> call'.open]
    BY DEF Begin
  <2>4. call'.start.type = "start"
    BY DEF Begin, Terminal
  <2>5. call'.open \subseteq DOMAIN call'.found
    BY DEF Begin
  <2> QED BY <2>1, <2>2, <2>3, <2>4, <2>5 DEF SearchInv
<1> QED BY <1>1, <1>2, <1>3 DEF IInv

(* What a turn of the loop does to the search.                             *)
Onward(v) == Successors(v, AddEdges(v))
Fresh(v) == Onward(v) \ DOMAIN call.found
LEMMA VisitFacts ==
    ASSUME IInv, NEW v, Visit(v)
    PROVE  /\ call # Idle /\ v \in call.open /\ v # Q2
           /\ Vertices' = Vertices /\ edges' = AddEdges(v)
           /\ UNCHANGED <<samples, lazy, left, answer>>
           /\ call'.start = call.start /\ call'.end = call.end
           /\ call'.open = (call.open \ {v}) \cup Fresh(v)
           /\ DOMAIN call'.found = DOMAIN call.found \cup Fresh(v)
           /\ call' = [start |-> call'.start, end |-> call'.end,
                       found |-> call'.found, open |-> call'.open]
           /\ Visited' = Visited \cup {v}
           /\ \A w \in DOMAIN call'.found :
                 \/ w \in DOMAIN call.found /\ call'.found[w] = call.found[w]
                 \/ /\ call'.found[w] = Append(call.found[v], w)
                    /\ w \in Onward(v)
                    /\ \/ w \notin DOMAIN call.found
                       \/ w \in call.open /\ ~Shortcut(v, w, AddEdges(v))
<1>0. samples \in Worlds /\ GraphInv /\ SearchInv
  BY DEF IInv, GraphInv
<1>1. call # Idle /\ v \in call.open /\ v # Q2
  BY DEF Visit, Idle
<1>2. Vertices' = Vertices
  BY DEF Visit, Fixed, Vertices, Meets
<1>3. edges' = AddEdges(v) /\ UNCHANGED <<samples, lazy, left, answer>>
  BY DEF Visit, Fixed
<1>4. PICK better \in SUBSET {w \in Onward(v) \cap call.open :
                                 ~Shortcut(v, w, AddEdges(v))} :
         call' = [call EXCEPT
                    !.open = (@ \ {v}) \cup Fresh(v),
                    !.found = [w \in DOMAIN @ \cup Fresh(v) |->
                                  IF w \in Fresh(v) \cup better
                                  THEN Append(call.found[v], w)
                                  ELSE call.found[w]]]
  BY DEF Visit, Onward, Fresh
<1>5. call = [start |-> call.start, end |-> call.end,
              found |-> call.found, open |-> call.open]
  BY <1>0, <1>1 DEF SearchInv
<1>6. /\ call'.start = call.start /\ call'.end = call.end
      /\ call'.open = (call.open \ {v}) \cup Fresh(v)
      /\ call'.found = [w \in DOMAIN call.found \cup Fresh(v) |->
                           IF w \in Fresh(v) \cup better
                           THEN Append(call.found[v], w)
                           ELSE call.found[w]]
      /\ call' = [start |-> call'.start, end |-> call'.end,
                  found |-> call'.found, open |-> call'.open]
  BY <1>4, <1>5
<1>7. Visited' = Visited \cup {v}
  <2>1. Fresh(v) \cap DOMAIN call.found = {}
    BY DEF Fresh
  <2>2. v \in DOMAIN call.found /\ v \notin Fresh(v)
    BY <1>0, <1>1, <2>1 DEF SearchInv
  <2> QED BY <1>1, <1>6, <2>1, <2>2 DEF Visited
<1>8. ASSUME NEW w \in DOMAIN call'.found
      PROVE  \/ w \in DOMAIN call.found /\ call'.found[w] = call.found[w]
             \/ /\ call'.found[w] = Append(call.found[v], w)
                /\ w \in Onward(v)
                /\ \/ w \notin DOMAIN call.found
                   \/ w \in call.open /\ ~Shortcut(v, w, AddEdges(v))
  <2>1. w \in DOMAIN call.found \cup Fresh(v)
    BY <1>6
  <2>2. CASE w \in Fresh(v) \cup better
    <3>1. call'.found[w] = Append(call.found[v], w)
      BY <1>6, <2>1, <2>2
    <3> QED BY <2>2, <3>1 DEF Fresh
  <2>3. CASE w \notin Fresh(v) \cup better
    BY <1>6, <2>1, <2>3
  <2> QED BY <2>2, <2>3
<1>9. DOMAIN call'.found = DOMAIN call.found \cup Fresh(v)
  BY <1>6
<1> QED BY <1>1, <1>2, <1>3, <1>6, <1>7, <1>8, <1>9

(* One turn of the search loop.                                            *)
LEMMA VisitInv ==
    ASSUME IInv, NEW v, Visit(v)
    PROVE  IInv'
<1> DEFINE es == AddEdges(v)
           next == Successors(v, es)
           fresh == next \ DOMAIN call.found
<1>0. samples \in Worlds /\ GraphInv /\ SearchInv
  BY DEF IInv, GraphInv
<1> HIDE DEF es
<1>1. /\ call # Idle /\ v \in call.open /\ v # Q2
      /\ Vertices' = Vertices /\ edges' = es
      /\ UNCHANGED <<samples, lazy, left, answer>>
  BY VisitFacts DEF es
<1>2. GraphInv'
  BY <1>0, <1>1, AddEdgesSound DEF GraphInv, AllEdgesOrNone, es
<1>3. NoPathIsDisconnected'
  <2>1. At(answer.start.at)' = At(answer.start.at)
        /\ At(answer.end.at)' = At(answer.end.at)
    BY <1>1 DEF At
  <2>2. Connected(answer.start, answer.end)' = Connected(answer.start, answer.end)
    BY <1>1, <2>1 DEF Connected, Closed
  <2> QED BY <1>1, <2>2 DEF IInv, NoPathIsDisconnected
<1>4. /\ call'.start = call.start /\ call'.end = call.end
      /\ call'.open = (call.open \ {v}) \cup fresh
      /\ DOMAIN call'.found = DOMAIN call.found \cup fresh
      /\ call' = [start |-> call'.start, end |-> call'.end,
                  found |-> call'.found, open |-> call'.open]
      /\ Visited' = Visited \cup {v}
  BY VisitFacts DEF Fresh, Onward, es
<1> HIDE DEF next, fresh
<1>5. next \subseteq DOMAIN call'.found /\ DOMAIN call.found \subseteq DOMAIN call'.found
  BY <1>4 DEF fresh
<1>6. /\ EntryOf(call.start, SeenFromQ1)' = EntryOf(call.start, SeenFromQ1)
       /\ At(call.start.at)' = At(call.start.at)
       /\ At(call.end.at)' = At(call.end.at)
       /\ GoalEntry' = GoalEntry
       /\ Complete' = Complete
  BY <1>1, <1>4 DEF EntryOf, At, GoalEntry, Complete, NoEndLeft
<1>7. v = Q1 => EntryOf(call.start, SeenFromQ1) \subseteq DOMAIN call'.found
  BY <1>0, <1>5, SuccessorsOf DEF next
<1>8. v = SeenFromQ1 => At(call.start.at) \subseteq DOMAIN call'.found
  BY <1>0, <1>5, SuccessorsOf DEF next
<1>9. v = SeenFromQ2 => Q2 \in DOMAIN call'.found
  BY <1>0, <1>5, SuccessorsOf DEF next
<1>10. v \in Vertices =>
          IF v \in At(call.end.at) THEN GoalEntry \in DOMAIN call'.found
          ELSE Complete =>
                  \A w \in Vertices : Share(v, w) => w \in DOMAIN call'.found
  <2> SUFFICES ASSUME v \in Vertices
               PROVE  IF v \in At(call.end.at) THEN GoalEntry \in DOMAIN call'.found
                      ELSE Complete => \A w \in Vertices :
                              Share(v, w) => w \in DOMAIN call'.found
    OBVIOUS
  <2>1. CASE v \in At(call.end.at)
    <3>1. GoalEntry \in next
      BY <1>0, <2>1, SuccessorsOf DEF next, GoalEntry
    <3> QED BY <1>5, <2>1, <3>1
  <2>2. CASE v \notin At(call.end.at)
    <3> SUFFICES ASSUME Complete, NEW w \in Vertices, Share(v, w)
                 PROVE  w \in DOMAIN call'.found
      BY <2>2
    <3>1. call.start.type = "start"
      BY <1>0, <1>1 DEF SearchInv
    <3>2. <<v, w>> \in es
      BY <1>0, <1>1, <2>2, <3>1, AddEdgesComplete DEF es
    <3>3. w \in next
      BY <1>0, <3>2, SuccessorsOf DEF next
    <3> QED BY <1>5, <3>3
  <2> QED BY <2>1, <2>2
<1>11. SearchInv'
  <2>1. call'.start.type = "start" /\ Q1 \in DOMAIN call'.found
    BY <1>0, <1>1, <1>4, <1>5 DEF SearchInv
  <2>2. call'.open \subseteq DOMAIN call'.found
    BY <1>0, <1>1, <1>4 DEF SearchInv
  <2>3. Q2 \notin Visited'
    BY <1>0, <1>1, <1>4 DEF SearchInv
  <2>4. /\ Q1 \in Visited' =>
              EntryOf(call.start, SeenFromQ1)' \subseteq DOMAIN call'.found
        /\ SeenFromQ1 \in Visited' =>
              At(call.start.at)' \subseteq DOMAIN call'.found
        /\ SeenFromQ2 \in Visited' => Q2 \in DOMAIN call'.found
    BY <1>0, <1>1, <1>4, <1>5, <1>6, <1>7, <1>8, <1>9 DEF SearchInv
  <2>5. ASSUME NEW u \in Visited' \cap Vertices'
        PROVE  IF u \in At(call.end.at)' THEN GoalEntry' \in DOMAIN call'.found
               ELSE Complete' =>
                       \A w \in Vertices' : Share(u, w) => w \in DOMAIN call'.found
    <3>1. CASE u = v
      BY <1>1, <1>6, <1>10, <2>5, <3>1
    <3>2. CASE u # v
      <4>1. u \in Visited \cap Vertices
        BY <1>1, <1>4, <2>5, <3>2
      <4>2. IF u \in At(call.end.at) THEN GoalEntry \in DOMAIN call.found
            ELSE Complete =>
                    \A w \in Vertices : Share(u, w) => w \in DOMAIN call.found
        BY <1>0, <1>1, <4>1 DEF SearchInv
      <4> QED BY <1>1, <1>5, <1>6, <4>2
    <3> QED BY <3>1, <3>2
  <2> QED BY <1>4, <2>1, <2>2, <2>3, <2>4, <2>5 DEF SearchInv
<1> QED BY <1>2, <1>3, <1>11 DEF IInv

(* The search ends without a path.                                         *)
LEMMA NoPathInv ==
    ASSUME IInv, NoPath
    PROVE  IInv'
<1>1. GraphInv' /\ Vertices' = Vertices
  BY GraphUnchanged DEF IInv, NoPath, Fixed
<1>2. SearchInv'
  BY DEF NoPath, Close, SearchInv
<1>3. NoPathIsDisconnected'
  <2> SUFFICES ASSUME ~lazy \/ NoEndLeft
               PROVE  ~Connected(answer.start, answer.end)'
    BY DEF NoPathIsDisconnected, NoPath, Close, Fixed
  <2>1. ~Connected(call.start, call.end)
    BY ExhaustedIsDisconnected DEF IInv, NoPath, Complete
  <2>2. answer'.start = call.start /\ answer'.end = call.end
    BY DEF NoPath, Close
  <2>3. Connected(answer.start, answer.end)' =
           \A set \in SUBSET Vertices :
               {x \in Vertices : Touches(x) \cap call.start.at # {}} \subseteq set
               /\ (\A a \in set : \A b \in Vertices : Share(a, b) => b \in set)
               => set \cap {x \in Vertices : Touches(x) \cap call.end.at # {}} # {}
    BY <1>1, <2>2 DEF Connected, Closed, At
  <2> QED BY <2>1, <2>3 DEF Connected, Closed, At
<1> QED BY <1>1, <1>2, <1>3 DEF IInv


(* A call that is answered at once leaves the edges alone.                 *)
LEMMA EndInv ==
    ASSUME IInv, NEW outcome, NEW along, Close(outcome, along),
           outcome # "no path", UNCHANGED <<samples, lazy, edges>>
    PROVE  IInv'
BY GraphUnchanged, AnswerOther DEF IInv

LEMMA RefuseInv ==
    ASSUME IInv, call = Idle, answer' = NoAnswer,
           UNCHANGED <<samples, lazy, edges, call>>
    PROVE  IInv'
<1>1. SearchInv'
  BY DEF SearchInv
<1> QED BY <1>1, GraphUnchanged, AnswerReset DEF IInv

LEMMA StutterInv ==
    ASSUME IInv, UNCHANGED gcsVars
    PROVE  IInv'
<1>1. GraphInv' /\ Vertices' = Vertices
  BY GraphUnchanged DEF IInv, gcsVars
<1>2. SearchInv'
  <2>1. /\ EntryOf(call.start, SeenFromQ1)' = EntryOf(call.start, SeenFromQ1)
        /\ At(call.start.at)' = At(call.start.at)
        /\ At(call.end.at)' = At(call.end.at)
        /\ GoalEntry' = GoalEntry /\ Complete' = Complete
        /\ Visited' = Visited
    BY <1>1 DEF gcsVars, EntryOf, At, GoalEntry, Complete, NoEndLeft, Visited
  <2> QED BY <1>1, <2>1 DEF IInv, SearchInv, gcsVars
<1>3. NoPathIsDisconnected'
  <2>1. Connected(answer.start, answer.end)' = Connected(answer.start, answer.end)
    BY <1>1 DEF Connected, Closed, At, gcsVars
  <2> QED BY <2>1 DEF IInv, NoPathIsDisconnected, gcsVars
<1> QED BY <1>1, <1>2, <1>3 DEF IInv

-----------------------------------------------------------------------------
LEMMA NextInv == IInv /\ [GcsNext]_gcsVars => IInv'
<1> SUFFICES ASSUME IInv, [GcsNext]_gcsVars PROVE IInv'
  OBVIOUS
<1>1. ASSUME NEW q1 \in Configs, NEW q2 \in Configs, Begin(q1, q2)
      PROVE  IInv'
  BY <1>1, BeginInv
<1>2. ASSUME NEW q1 \in Configs, NEW q2 \in Configs,
             GiveUp(q1, q2) \/ StartFails(q1) \/ EndFails(q1, q2)
      PROVE  IInv'
  BY <1>2, RefuseInv DEF GiveUp, StartFails, EndFails, Ready, Fixed
<1>3. ASSUME NEW v \in Nodes, Visit(v)
      PROVE  IInv'
  BY <1>3, VisitInv
<1>4. CASE NoPath
  BY <1>4, NoPathInv
<1>5. CASE EstimateLength
  BY <1>5, EndInv DEF EstimateLength, Fixed
<1>6. CASE OptimalPath
  BY <1>6, EndInv DEF OptimalPath, Fixed
<1>7. CASE HullPath
  BY <1>7, EndInv DEF HullPath, Fixed
<1>8. CASE UNCHANGED gcsVars
  BY <1>8, StutterInv
<1> QED BY <1>1, <1>2, <1>3, <1>4, <1>5, <1>6, <1>7, <1>8 DEF GcsNext

LEMMA AlwaysIInv == GcsSpec => []IInv
<1> QED BY InitInv, NextInv, PTL DEF GcsSpec

(* A vertex has all of its edges in the graph of configurations or none,   *)
(* whatever calls have come and gone.                                      *)
THEOREM EdgesWhole == GcsSpec => []AllEdgesOrNone
<1>1. IInv => AllEdgesOrNone
  BY DEF IInv, GraphInv
<1> QED BY <1>1, AlwaysIInv, PTL

(* When the search of a call ends without a path, the regions do not       *)
(* connect its terminals, unless an earlier call has left a goal and edges *)
(* are added lazily.                                                       *)
THEOREM SearchIsComplete == GcsSpec => []NoPathIsDisconnected
<1>1. IInv => NoPathIsDisconnected
  BY DEF IInv
<1> QED BY <1>1, AlwaysIInv, PTL

-----------------------------------------------------------------------------
(***************************************************************************)
(* IkPlanner: the seeds of a call and its verdict.                         *)
(***************************************************************************)
(* Every set of numbers has a least one; a set that holds 0 and the        *)
(* successors of its elements holds all numbers.                           *)
LEMMA LeastNat ==
    ASSUME NEW T \in SUBSET Nat, T # {}
    PROVE  \E x \in T : \A y \in T : x <= y
<1>1. IsWellFoundedOn(OpToRel(<, Nat), Nat)
  BY NatLessThanWellFounded
<1>2. PICK x \in T : \A y \in T : ~(<<y, x>> \in OpToRel(<, Nat))
  BY <1>1, WFMin
<1>3. \A y \in T : ~(y < x)
  BY <1>2 DEF OpToRel
<1>4. \A y \in T : y \in Nat /\ x \in Nat
  OBVIOUS
<1> QED
  BY <1>3, <1>4

LEMMA SetInduction ==
    ASSUME NEW S, 0 \in S, \A n \in Nat : n \in S => n + 1 \in S
    PROVE  Nat \subseteq S
<1> SUFFICES ASSUME ~(Nat \subseteq S) PROVE FALSE
  OBVIOUS
<1> DEFINE T == Nat \ S
<1>1. PICK x \in T : \A y \in T : x <= y
  <2>1. T \in SUBSET Nat /\ T # {}
    OBVIOUS
  <2> HIDE DEF T
  <2> QED
    BY <2>1, LeastNat
<1>2. x # 0 /\ x \in Nat
  OBVIOUS
<1>3. x - 1 \in Nat /\ x - 1 \notin T
  BY <1>1, <1>2
<1> QED
  BY <1>1, <1>2, <1>3

(* A sequence of steps has its results, one after each step.               *)
Results(S, a, n, step) ==
    {f \in [0 .. n -> S] : f[0] = a /\ \A i \in 1 .. n : f[i] = step[<<i, f[i - 1]>>]}

LEMMA ResultsExist ==
    ASSUME NEW S, NEW a \in S, NEW n \in Nat, NEW step \in [(1 .. n) \X S -> S]
    PROVE  Results(S, a, n, step) # {}
<1> DEFINE P(k) == \E f \in [0 .. k -> S] :
              f[0] = a /\ \A i \in 1 .. k : f[i] = step[<<i, f[i - 1]>>]
           K == {k \in Nat : k <= n => P(k)}
<1>1. 0 \in K
  <2>1. [i \in 0 .. 0 |-> a] \in [0 .. 0 -> S]
    OBVIOUS
  <2>2. 1 .. 0 = {}
    OBVIOUS
  <2> QED
    <3> DEFINE f == [i \in 0 .. 0 |-> a]
    <3>1. f \in [0 .. 0 -> S] /\ f[0] = a
      OBVIOUS
    <3>2. \A i \in 1 .. 0 : f[i] = step[<<i, f[i - 1]>>]
      OBVIOUS
    <3> HIDE DEF f
    <3>3. P(0)
      BY <3>1, <3>2
    <3> QED
      BY <3>3
<1>2. ASSUME NEW k \in Nat, k \in K PROVE k + 1 \in K
  <2> SUFFICES ASSUME k + 1 <= n PROVE P(k + 1)
    OBVIOUS
  <2>1. PICK f \in [0 .. k -> S] :
              f[0] = a /\ \A i \in 1 .. k : f[i] = step[<<i, f[i - 1]>>]
    BY <1>2
  <2> DEFINE g == [i \in 0 .. (k + 1) |-> IF i = k + 1 THEN step[<<k + 1, f[k]>>] ELSE f[i]]
  <2>2. step[<<k + 1, f[k]>>] \in S
    OBVIOUS
  <2>3. g \in [0 .. (k + 1) -> S]
    BY <2>2
  <2>4. g[0] = a
    BY <2>1
  <2>5. ASSUME NEW i \in 1 .. (k + 1) PROVE g[i] = step[<<i, g[i - 1]>>]
    <3>1. CASE i = k + 1
      <4>1. k \in 0 .. (k + 1) /\ k # k + 1 /\ (k + 1) - 1 = k
        OBVIOUS
      <4>2. g[k] = f[k] /\ g[k + 1] = step[<<k + 1, f[k]>>]
        BY <4>1
      <4> HIDE DEF g
      <4> QED
        BY <3>1, <4>1, <4>2
    <3>2. CASE i # k + 1
      <4>1. i \in 1 .. k /\ i - 1 \in 0 .. k
        BY <3>2
      <4> QED
        BY <2>1, <3>2, <4>1
    <3> QED
      BY <3>1, <3>2
  <2> HIDE DEF g
  <2> QED
    BY <2>3, <2>4, <2>5
<1> HIDE DEF K
<1>3. Nat \subseteq K
  BY <1>1, <1>2, SetInduction
<1>4. P(n)
  BY <1>3 DEF K
<1> QED
  BY <1>4 DEF Results

-----------------------------------------------------------------------------
(***************************************************************************)
(* GcsPlanner: the path that the search finds, and what the solver is      *)
(* given of it.                                                            *)
(***************************************************************************)
(* A walk goes from the start to members of a kind and from these to the   *)
(* goal.  In both graphs the kind is what stands between the terminals.    *)
Between(K) == Q1 \notin K /\ SeenFromQ1 \notin K /\ SeenFromQ2 \notin K /\ Q2 \notin K
Leads(K, n, m) ==
    \/ n = Q1 /\ (IF call.start.via THEN m = SeenFromQ1 ELSE m \in K)
    \/ n = SeenFromQ1 /\ m \in K
    \/ n \in K /\ (m \in K \/ m = GoalEntry)
    \/ n = SeenFromQ2 /\ m = Q2
Walk(K, p) ==
    /\ p \in Seq(K \cup {Q1, SeenFromQ1, SeenFromQ2, Q2})
    /\ Len(p) > 0
    /\ p[1] = Q1
    /\ \A k \in 1 .. (Len(p) - 1) : Leads(K, p[k], p[k + 1])

USE DEF GoalEntry

(* It begins at the start, and does not return to it.                      *)
LEMMA WalkBegins ==
    ASSUME NEW K, Between(K), NEW p, Walk(K, p)
    PROVE  \A k \in 1 .. Len(p) :
              (p[k] = Q1 => k = 1) /\ (p[k] = SeenFromQ1 => k = 2)
<1>0. Len(p) \in Nat
  BY DEF Walk
<1> HIDE DEF Q1, SeenFromQ1, SeenFromQ2, Q2
<1>1. ASSUME NEW k \in 1 .. Len(p), k # 1
      PROVE  p[k] # Q1 /\ (p[k] = SeenFromQ1 => p[k - 1] = Q1)
  <2>1. k - 1 \in 1 .. (Len(p) - 1) /\ (k - 1) + 1 = k
    BY <1>0, <1>1
  <2>2. Leads(K, p[k - 1], p[k])
    BY <2>1 DEF Walk
  <2> QED BY <2>2, TerminalsApart DEF Leads, Between
<1>2. ASSUME NEW k \in 1 .. Len(p), p[k] = SeenFromQ1
      PROVE  k = 2
  <2>1. k # 1
    BY <1>2, TerminalsApart DEF Walk
  <2>2. p[k - 1] = Q1 /\ k - 1 \in 1 .. Len(p)
    BY <1>0, <1>1, <1>2, <2>1
  <2>3. k - 1 = 1
    BY <1>1, <2>2
  <2> QED BY <2>3
<1> QED BY <1>1, <1>2

(* When it ends at the goal, its places tell what is between them.         *)
Entrance == IF call.start.via THEN 3 ELSE 2
Exit(p) == Len(p) - (IF call.end.via THEN 2 ELSE 1)
LEMMA WalkShape ==
    ASSUME NEW K, Between(K), NEW p, Walk(K, p), p[Len(p)] = Q2
    PROVE  /\ Entrance \in 2 .. Len(p) /\ Exit(p) \in 1 .. (Len(p) - 1)
           /\ Entrance <= Exit(p)
           /\ \A k \in Entrance .. Exit(p) : p[k] \in K
           /\ p[Entrance - 1] = IF call.start.via THEN SeenFromQ1 ELSE Q1
           /\ p[Exit(p) + 1] = GoalEntry
<1> DEFINE n == Len(p)
<1>0. n \in Nat /\ n > 0 /\ p[1] = Q1
  BY DEF Walk
<1>1. \A k \in 1 .. (n - 1) : Leads(K, p[k], p[k + 1])
  BY DEF Walk
<1> HIDE DEF Q1, SeenFromQ1, SeenFromQ2, Q2, n
<1>2. ASSUME NEW k \in 1 .. n, k # 1
      PROVE  /\ k - 1 \in 1 .. (n - 1) /\ (k - 1) + 1 = k
             /\ Leads(K, p[k - 1], p[k])
  <2>1. k - 1 \in 1 .. (n - 1) /\ (k - 1) + 1 = k
    BY <1>0, <1>2
  <2> QED BY <1>1, <2>1
<1>3. \A k \in 1 .. (n - 1) : p[k] # Q2
  BY <1>1, TerminalsApart DEF Leads, Between
<1>4. p[n] = Q2
  BY DEF n
<1>5. \A k \in 1 .. n : p[k] = SeenFromQ2 => k = n - 1
  <2> SUFFICES ASSUME NEW k \in 1 .. n, p[k] = SeenFromQ2 PROVE k = n - 1
    OBVIOUS
  <2>1. k # n
    BY <1>4, TerminalsApart
  <2>2. k \in 1 .. (n - 1) /\ k + 1 \in 1 .. n
    BY <1>0, <2>1
  <2>3. p[k + 1] = Q2
    BY <1>1, <2>2, TerminalsApart DEF Leads, Between
  <2>4. k + 1 \notin 1 .. (n - 1)
    BY <1>3, <2>3
  <2> QED BY <1>0, <2>2, <2>4
<1>6. n # 1
  BY <1>0, <1>4, TerminalsApart
<1>7. Leads(K, p[n - 1], Q2) /\ n - 1 \in 1 .. (n - 1)
  BY <1>0, <1>2, <1>4, <1>6
<1>8. IF call.end.via THEN p[n - 1] = SeenFromQ2 ELSE p[n - 1] \in K
  <2>1. p[n - 1] = SeenFromQ2 => call.end.via
    <3> SUFFICES ASSUME p[n - 1] = SeenFromQ2 PROVE call.end.via
      OBVIOUS
    <3>1. n - 1 # 1 /\ n - 1 \in 1 .. n
      BY <1>0, <1>6, TerminalsApart
    <3>2. Leads(K, p[(n - 1) - 1], SeenFromQ2)
      BY <1>2, <3>1
    <3> QED BY <3>2, TerminalsApart DEF Leads, Between
  <2> QED BY <1>7, <2>1, TerminalsApart DEF Leads, Between
<1>9. call.end.via => n - 2 \in 1 .. (n - 1) /\ p[n - 2] \in K
  <2> SUFFICES ASSUME call.end.via PROVE n - 2 \in 1 .. (n - 1) /\ p[n - 2] \in K
    OBVIOUS
  <2>1. n - 1 # 1
    BY <1>0, <1>8, TerminalsApart
  <2>2. n - 1 \in 1 .. n /\ (n - 1) - 1 = n - 2
    BY <1>0, <1>6
  <2>3. Leads(K, p[n - 2], SeenFromQ2) /\ n - 2 \in 1 .. (n - 1)
    BY <1>2, <1>8, <2>1, <2>2
  <2> QED BY <2>3, TerminalsApart DEF Leads, Between
<1>10. Exit(p) \in 1 .. (n - 1) /\ p[Exit(p)] \in K /\ p[Exit(p) + 1] = GoalEntry
  <2>1. Exit(p) = IF call.end.via THEN n - 2 ELSE n - 1
    BY DEF Exit, n
  <2>2. (n - 1) + 1 = n /\ (n - 2) + 1 = n - 1
    BY <1>0
  <2> QED BY <1>4, <1>7, <1>8, <1>9, <2>1, <2>2
<1>11. p[2] = SeenFromQ1 \/ p[2] \in K
  BY <1>0, <1>1, <1>6, TerminalsApart DEF Leads, Between
<1>12. Entrance \in 2 .. n /\ p[Entrance] \in K
       /\ p[Entrance - 1] = IF call.start.via THEN SeenFromQ1 ELSE Q1
  <2>1. Leads(K, p[1], p[2]) /\ 2 \in 1 .. n
    BY <1>0, <1>1, <1>6
  <2>2. IF call.start.via THEN p[2] = SeenFromQ1 ELSE p[2] \in K
    BY <1>0, <2>1, TerminalsApart DEF Leads, Between
  <2>3. CASE ~call.start.via
    BY <1>0, <2>1, <2>2, <2>3 DEF Entrance
  <2>4. CASE call.start.via
    <3>1. n # 2
      BY <1>4, <2>2, <2>4, TerminalsApart
    <3>2. 2 \in 1 .. (n - 1) /\ 3 \in 2 .. n
      BY <1>0, <1>6, <3>1
    <3>3. Leads(K, p[2], p[3])
      BY <1>1, <3>2
    <3>4. p[3] \in K
      BY <2>2, <2>4, <3>3, TerminalsApart DEF Leads, Between
    <3> QED BY <2>2, <2>4, <3>2, <3>4 DEF Entrance
  <2> QED BY <2>3, <2>4
<1>13. Entrance <= Exit(p)
  <2> SUFFICES ASSUME Exit(p) < Entrance PROVE FALSE
    BY <1>0, <1>10, <1>12
  <2>1. Exit(p) = 1 \/ (Exit(p) = 2 /\ call.start.via)
    BY <1>0, <1>10 DEF Entrance
  <2>2. p[2] = SeenFromQ1 \/ ~call.start.via
    BY <1>12 DEF Entrance
  <2> QED BY <1>0, <1>10, <2>1, <2>2 DEF Between
<1>14. ASSUME NEW k \in Entrance .. Exit(p) PROVE p[k] \in K
  <2>1. k \in 1 .. n /\ k \in Int /\ k >= Entrance /\ k <= Exit(p) /\ k # 1
    BY <1>0, <1>10, <1>12
  <2>2. p[k] # Q1 /\ (p[k] = SeenFromQ1 => k = 2)
    BY <2>1, WalkBegins DEF n
  <2>3. p[k] # SeenFromQ1
    <3> SUFFICES ASSUME p[k] = SeenFromQ1 PROVE FALSE
      OBVIOUS
    <3>1. k = 2
      BY <2>2
    <3>2. Entrance = 2
      BY <2>1, <3>1 DEF Entrance
    <3> QED BY <1>12, <3>1, <3>2 DEF Between
  <2>4. p[k] # Q2
    BY <1>0, <1>3, <1>10, <2>1
  <2>5. p[k] # SeenFromQ2
    <3> SUFFICES ASSUME p[k] = SeenFromQ2 PROVE FALSE
      OBVIOUS
    <3>1. k = n - 1
      BY <1>5, <2>1
    <3>2. Exit(p) = n - 1
      BY <1>0, <1>10, <2>1, <3>1
    <3> QED BY <1>10, <3>1, <3>2 DEF Between
  <2>6. p[k] \in K \cup {Q1, SeenFromQ1, SeenFromQ2, Q2}
    BY <2>1 DEF Walk, n
  <2> QED BY <2>2, <2>3, <2>4, <2>5, <2>6, <2>1
<1> QED BY <1>10, <1>12, <1>13, <1>14 DEF n

(* Where a step of the search comes from.                                  *)
LEMMA StepFrom ==
    ASSUME samples \in Worlds, NEW es \in SUBSET AllEdges(Vertices),
           NEW v, NEW w \in Successors(v, es)
    PROVE  /\ v = Q1 => IF call.start.via THEN w = SeenFromQ1
                        ELSE w \in At(call.start.at)
           /\ v = SeenFromQ1 => w \in At(call.start.at)
           /\ v = SeenFromQ2 => w = Q2
           /\ v # Q2
           /\ v \notin {Q1, SeenFromQ1, SeenFromQ2} =>
                 \/ v \in At(call.end.at) /\ w = GoalEntry
                 \/ /\ v \in Vertices /\ w \in Vertices
                    /\ <<v, w>> \in es /\ Share(v, w)
<1>1. v = Q1 => IF call.start.via THEN w = SeenFromQ1 ELSE w \in At(call.start.at)
  BY SuccessorsOf DEF EntryOf
<1>2. (v = SeenFromQ1 => w \in At(call.start.at)) /\ (v = SeenFromQ2 => w = Q2)
  BY SuccessorsOf
<1>3. v # Q2
  <2>1. Successors(Q2, es) = {}
    BY TerminalsApart DEF Successors
  <2> QED BY <2>1
<1>4. ASSUME v \notin {Q1, SeenFromQ1, SeenFromQ2}
      PROVE  \/ v \in At(call.end.at) /\ w = GoalEntry
             \/ /\ v \in Vertices /\ w \in Vertices
                /\ <<v, w>> \in es /\ Share(v, w)
  <2>1. Successors(v, es) =
                {e[2] : e \in {x \in es : x[1] = v}}
                \cup (IF v \in At(call.end.at)
                      THEN {IF call.end.via THEN SeenFromQ2 ELSE Q2} ELSE {})
    BY <1>3, <1>4 DEF Successors
  <2>2. CASE w \in {e[2] : e \in {x \in es : x[1] = v}}
    <3>1. PICK e \in es : e[1] = v /\ w = e[2]
      BY <2>2
    <3>2. e \in Vertices \X Vertices /\ Share(e[1], e[2])
      BY DEF AllEdges
    <3>3. e = <<v, w>>
      BY <3>1, <3>2
    <3> QED BY <3>1, <3>2, <3>3
  <2>3. CASE w \notin {e[2] : e \in {x \in es : x[1] = v}}
    BY <2>1, <2>3
  <2> QED BY <2>2, <2>3
<1> QED BY <1>1, <1>2, <1>3, <1>4

(* The path to a node that the search has found.  All but the last of it   *)
(* have been visited, and no vertex of it touches one that comes later,    *)
(* except for the next: of the regions two neighbours share, none is left  *)
(* and entered again.                                                      *)
IsPath(p, w) ==
    /\ p \in Seq(Nodes) /\ Len(p) > 0 /\ p[1] = Q1 /\ p[Len(p)] = w
    /\ \A k \in 1 .. (Len(p) - 1) :
          p[k] \in Visited /\ p[k + 1] \in Successors(p[k], edges)
    /\ \A k \in 1 .. Len(p) : \A j \in 1 .. Len(p) :
          k < j /\ p[k] \in Vertices /\ p[j] \in Vertices =>
             /\ <<p[k], p[k + 1]>> \in edges
             /\ k + 1 < j => Touches(p[k]) \cap Touches(p[j]) = {}
PathInv ==
    call # Idle =>
        /\ call.start \in Terminals /\ call.end \in Terminals
        /\ \A u \in Visited \cap Vertices : \A w \in Vertices :
              <<u, w>> \in edges => w \in DOMAIN call.found
        /\ \A w \in DOMAIN call.found : \A p \in {call.found[w]} : IsPath(p, w)

(* A path is a walk through vertices.                                      *)
LEMMA PathIsWalk ==
    ASSUME GraphInv, NEW p, NEW w, IsPath(p, w)
    PROVE  Walk(Vertices, p) /\ Between(Vertices)
<1>1. samples \in Worlds /\ edges \in SUBSET AllEdges(Vertices)
  BY DEF GraphInv
<1>2. Between(Vertices)
  BY <1>1, NodesApart DEF Between
<1>3. p \in Seq(Vertices \cup {Q1, SeenFromQ1, SeenFromQ2, Q2})
  BY DEF IsPath, Nodes
<1>4. ASSUME NEW k \in 1 .. (Len(p) - 1) PROVE Leads(Vertices, p[k], p[k + 1])
  <2>1. p[k + 1] \in Successors(p[k], edges) /\ p[k] \in Nodes
    <3>1. Len(p) \in Nat /\ k \in 1 .. Len(p)
      BY <1>3
    <3> QED BY <3>1 DEF IsPath
  <2> DEFINE a == p[k]
             b == p[k + 1]
  <2>2. a \in Nodes /\ b \in Successors(a, edges)
    BY <2>1
  <2> HIDE DEF a, b
  <2>3. At(call.start.at) \subseteq Vertices /\ At(call.end.at) \subseteq Vertices
    BY DEF At
  <2>4. Leads(Vertices, a, b)
    BY <1>1, <2>2, <2>3, StepFrom, TerminalsApart DEF Leads, Nodes
  <2> QED BY <2>4 DEF a, b
<1> QED BY <1>2, <1>3, <1>4 DEF Walk, IsPath

(* The edges that are added are those of the vertex visited.               *)
LEMMA AddEdgesOwn ==
    ASSUME NEW v, NEW u, u # v, NEW w, <<u, w>> \in AddEdges(v)
    PROVE  <<u, w>> \in edges
BY DEF AddEdges

(* A longer path: it leads to a vertex that the earlier ones on it do not  *)
(* touch, or that vertex would have been found, or reached by a shortcut.  *)
LEMMA PathGrows ==
    ASSUME IInv, PathInv, NEW v, Visit(v), NEW w \in Onward(v),
           w \notin DOMAIN call.found \/ w \in call.open,
           w \in DOMAIN call.found => ~Shortcut(v, w, AddEdges(v)),
           NEW k \in 1 .. (Len(call.found[v]) - 1),
           call.found[v][k] \in Vertices, w \in Vertices
    PROVE  v \in Vertices /\ Touches(call.found[v][k]) \cap Touches(w) = {}
<1> DEFINE p == call.found[v]
           u == p[k]
           n == Len(p)
           es == AddEdges(v)
<1>1. /\ samples \in Worlds /\ GraphInv /\ SearchInv /\ call # Idle
      /\ v \in call.open /\ v # Q2
  BY VisitFacts DEF IInv, GraphInv
<1>2. v \in DOMAIN call.found /\ IsPath(p, v)
  BY <1>1 DEF SearchInv, PathInv
<1>3. n \in Nat /\ n > 0 /\ p[n] = v /\ k \in 1 .. n /\ n \in 1 .. n /\ k < n
  BY <1>2 DEF IsPath
<1>4. Walk(Vertices, p) /\ Between(Vertices)
  BY <1>1, <1>2, PathIsWalk
<1>5. u \in Vertices /\ u \in Visited
  BY <1>2, <1>3 DEF IsPath
<1>6. es \in SUBSET AllEdges(Vertices)
  BY <1>1, AddEdgesSound
<1> HIDE DEF p, n, es
<1>7. v \in Vertices
  <2>1. w \in Successors(v, es)
    BY DEF Onward, es
  <2>2. v # SeenFromQ2
    BY <1>1, <1>4, <1>6, <2>1, StepFrom DEF Between
  <2>3. v # Q1
    BY <1>3, <1>4, WalkBegins DEF n
  <2>4. v # SeenFromQ1
    <3> SUFFICES ASSUME v = SeenFromQ1 PROVE FALSE
      OBVIOUS
    <3>1. p[n] = SeenFromQ1 => n = 2
      BY <1>3, <1>4, WalkBegins DEF n
    <3>2. n = 2 /\ k = 1
      BY <1>3, <3>1
    <3> QED BY <1>2, <1>4, <1>5, <3>2 DEF IsPath, Between
  <2> QED BY <1>1, <1>4, <1>6, <2>1, <2>2, <2>3, <2>4, StepFrom DEF Between
<1>8. <<u, p[k + 1]>> \in edges
  BY <1>2, <1>3, <1>5, <1>7 DEF IsPath, n
<1>9. u # w
  BY <1>5, <1>1 DEF Visited, SearchInv
<1>10. ~Share(u, w)
  <2> SUFFICES ASSUME Share(u, w) PROVE FALSE
    OBVIOUS
  <2> HIDE DEF u
  <2>1. CASE w \notin DOMAIN call.found
    <3>1. <<u, w>> \in edges
      <4>1. <<u, p[k + 1]>>[1] = u
        OBVIOUS
      <4> QED BY <1>1, <1>5, <1>8, <4>1 DEF GraphInv, AllEdgesOrNone
    <3> QED BY <1>1, <1>5, <2>1, <3>1 DEF PathInv
  <2>2. CASE w \in DOMAIN call.found
    <3>1. <<u, p[k + 1]>> \in es
      BY <1>1, <1>8, AddEdgesSound DEF es
    <3>2. <<u, p[k + 1]>>[1] = u
      OBVIOUS
    <3>3. <<u, w>> \in es
      BY <1>1, <1>5, <3>1, <3>2, AddEdgesSound DEF es
    <3>4. w \in Successors(u, es)
      BY <1>1, <1>5, <3>3, SuccessorsOf
    <3>5. Shortcut(v, w, es)
      BY <3>4 DEF Shortcut, u, p
    <3> QED BY <2>2, <3>5 DEF es
  <2> QED BY <2>1, <2>2
<1> QED BY <1>7, <1>9, <1>10 DEF Share, u, p

LEMMA OnwardPrimed ==
    ASSUME IInv, NEW v, Visit(v), NEW a
    PROVE  /\ Successors(a, edges)' = Successors(a, AddEdges(v))
           /\ Successors(a, edges) \subseteq Successors(a, edges)'
<1>1. /\ Vertices' = Vertices /\ edges' = AddEdges(v)
      /\ call'.start = call.start /\ call'.end = call.end
  BY VisitFacts
<1>2. At(call.start.at)' = At(call.start.at) /\ At(call.end.at)' = At(call.end.at)
  BY <1>1 DEF At
<1>3. EntryOf(call.start, SeenFromQ1)' = EntryOf(call.start, SeenFromQ1)
  BY <1>1, <1>2 DEF EntryOf
<1>4. Successors(a, edges)' = Successors(a, AddEdges(v))
  BY <1>1, <1>2, <1>3 DEF Successors
<1>5. edges \subseteq AddEdges(v)
  BY AddEdgesSound DEF IInv
<1>6. Successors(a, edges) \subseteq Successors(a, AddEdges(v))
  BY <1>5 DEF Successors
<1> QED BY <1>4, <1>6

LEMMA PathStays ==
    ASSUME IInv, NEW v, Visit(v), NEW p, NEW w, IsPath(p, w)
    PROVE  IsPath(p, w)'
<1>1. Vertices' = Vertices /\ Nodes' = Nodes /\ Visited \subseteq Visited'
  BY VisitFacts DEF Nodes
<1>2. edges \subseteq edges'
  BY VisitFacts, AddEdgesSound DEF IInv
<1>3. ASSUME NEW k \in 1 .. (Len(p) - 1)
      PROVE  p[k] \in Visited' /\ p[k + 1] \in Successors(p[k], edges)'
  <2>1. p[k] \in Visited /\ p[k + 1] \in Successors(p[k], edges)
    BY DEF IsPath
  <2> QED BY <1>1, <2>1, OnwardPrimed
<1>4. ASSUME NEW k \in 1 .. Len(p), NEW j \in 1 .. Len(p), k < j,
             p[k] \in Vertices, p[j] \in Vertices
      PROVE  /\ <<p[k], p[k + 1]>> \in edges'
             /\ k + 1 < j => Touches(p[k]) \cap Touches(p[j]) = {}
  BY <1>2, <1>4 DEF IsPath
<1> QED BY <1>1, <1>3, <1>4 DEF IsPath, Touches

LEMMA VisitPathInv ==
    ASSUME IInv, PathInv, NEW v, Visit(v)
    PROVE  PathInv'
<1>1. /\ samples \in Worlds /\ GraphInv /\ SearchInv /\ call # Idle
      /\ v \in call.open /\ v # Q2
  BY VisitFacts DEF IInv, GraphInv
<1>2. v \in DOMAIN call.found /\ IsPath(call.found[v], v)
  BY <1>1 DEF SearchInv, PathInv
<1>3. call'.start \in Terminals /\ call'.end \in Terminals
  BY <1>1, VisitFacts DEF PathInv
<1>4. ASSUME NEW u \in Visited' \cap Vertices', NEW w \in Vertices', <<u, w>> \in edges'
      PROVE  w \in DOMAIN call'.found
  <2>1. u \in Vertices /\ w \in Vertices /\ <<u, w>> \in AddEdges(v)
    BY <1>4, VisitFacts
  <2>2. CASE u = v
    <3>1. w \in Onward(v)
      BY <1>1, <2>1, <2>2, SuccessorsOf DEF Onward
    <3> QED BY <3>1, VisitFacts DEF Fresh
  <2>3. CASE u # v
    <3>0. u \in Visited
      BY <1>4, <2>3, VisitFacts
    <3>1. <<u, w>> \in edges /\ u \in Visited
      BY <2>1, <2>3, <3>0, AddEdgesOwn
    <3>2. w \in DOMAIN call.found
      BY <1>1, <2>1, <3>1 DEF PathInv
    <3> QED BY <3>2, VisitFacts
  <2> QED BY <2>2, <2>3
<1>5. ASSUME NEW w, w \in Onward(v),
             w \notin DOMAIN call.found \/ w \in call.open,
             w \in DOMAIN call.found => ~Shortcut(v, w, AddEdges(v)),
             NEW p, p = call.found[v], NEW q, q = Append(p, w)
      PROVE  IsPath(q, w)'
  <2> DEFINE n == Len(p)
             es == AddEdges(v)
  <2>1. p \in Seq(Nodes) /\ n \in Nat /\ n > 0 /\ p[1] = Q1 /\ p[n] = v
    BY <1>2, <1>5 DEF IsPath
  <2>2. es \in SUBSET AllEdges(Vertices) /\ edges \subseteq es
    BY <1>1, AddEdgesSound
  <2>3. w \in Nodes
    <3>1. v \in Nodes
      BY <2>1
    <3>2. At(call.start.at) \subseteq Vertices
      BY DEF At
    <3>3. w \in Successors(v, es)
      BY <1>5 DEF Onward
    <3> HIDE DEF es
    <3> QED BY <1>1, <2>2, <3>1, <3>2, <3>3, StepFrom DEF Nodes
  <2> HIDE DEF es
  <2>4. /\ q \in Seq(Nodes) /\ Len(q) = n + 1 /\ q[n + 1] = w
        /\ \A k \in 1 .. n : q[k] = p[k]
    BY <1>5, <2>1, <2>3
  <2> HIDE DEF n
  <2>5. /\ Nodes' = Nodes /\ Vertices' = Vertices /\ edges' = es
        /\ Visited' = Visited \cup {v}
    BY VisitFacts DEF Nodes, es
  <2>6. ASSUME NEW k \in 1 .. n
        PROVE  q[k] \in Visited' /\ q[k + 1] \in Successors(q[k], edges)'
    <3>1. CASE k = n
      <4>1. q[k] = v /\ q[k + 1] = w
        BY <2>1, <2>4, <3>1
      <4>2. w \in Successors(v, edges)'
        BY <1>5, OnwardPrimed DEF Onward
      <4> QED BY <2>5, <4>1, <4>2
    <3>2. CASE k # n
      <4>1. k \in 1 .. (n - 1) /\ k + 1 \in 1 .. n
        BY <2>1, <3>2
      <4>2. p[k] \in Visited /\ p[k + 1] \in Successors(p[k], edges)
        BY <1>2, <1>5, <4>1 DEF IsPath, n
      <4>3. p[k + 1] \in Successors(p[k], edges)'
        BY <4>2, OnwardPrimed
      <4> QED BY <2>4, <2>5, <4>1, <4>2, <4>3
    <3> QED BY <3>1, <3>2
  <2>7. ASSUME NEW k \in 1 .. (n + 1), NEW j \in 1 .. (n + 1), k < j,
               q[k] \in Vertices, q[j] \in Vertices
        PROVE  /\ <<q[k], q[k + 1]>> \in es
               /\ k + 1 < j => Touches(q[k]) \cap Touches(q[j]) = {}
    <3>0. k \in 1 .. n /\ q[k] = p[k]
      BY <2>1, <2>4, <2>7
    <3>1. CASE j \in 1 .. n
      <4>1. q[j] = p[j] /\ k + 1 \in 1 .. n /\ q[k + 1] = p[k + 1]
        BY <2>1, <2>4, <2>7, <3>0, <3>1
      <4>2. /\ <<p[k], p[k + 1]>> \in edges
            /\ k + 1 < j => Touches(p[k]) \cap Touches(p[j]) = {}
        BY <1>2, <1>5, <2>7, <3>0, <3>1, <4>1 DEF IsPath, n
      <4> QED BY <2>2, <3>0, <4>1, <4>2
    <3>2. CASE j = n + 1
      <4>1. w \in Vertices
        BY <2>4, <2>7, <3>2
      <4>2. CASE k = n
        <5>1. q[k] = v /\ q[k + 1] = w
          BY <2>1, <2>4, <4>2
        <5>2. v \in Vertices
          BY <2>7, <5>1
        <5>3. w \in Successors(v, es) /\ w # GoalEntry
          BY <1>1, <1>5, <4>1, NodesApart DEF Onward, es
        <5>4. v \notin {Q1, SeenFromQ1, SeenFromQ2}
          BY <1>1, <5>2, NodesApart
        <5>5. <<v, w>> \in es
          BY <1>1, <2>2, <5>3, <5>4, StepFrom
        <5> QED BY <2>1, <2>7, <3>2, <4>2, <5>1, <5>5
      <4>3. CASE k # n
        <5>1. k \in 1 .. (n - 1) /\ p[k] \in Vertices
          BY <2>1, <2>7, <3>0, <4>3
        <5>2. v \in Vertices /\ Touches(p[k]) \cap Touches(w) = {}
          BY <1>5, <4>1, <5>1, PathGrows DEF n
        <5>3. <<p[k], p[k + 1]>> \in edges
          <6>1. n \in 1 .. n /\ k < n /\ p[n] \in Vertices
            BY <2>1, <5>1, <5>2
          <6> QED BY <1>2, <1>5, <3>0, <5>1, <6>1 DEF IsPath, n
        <5>4. q[k + 1] = p[k + 1]
          BY <2>1, <2>4, <5>1
        <5> QED BY <2>2, <2>4, <3>0, <3>2, <5>2, <5>3, <5>4
      <4> QED BY <4>2, <4>3
    <3> QED BY <2>1, <3>1, <3>2
  <2>8. /\ q \in Seq(Nodes') /\ Len(q) > 0 /\ q[1] = Q1 /\ q[Len(q)] = w
        /\ Len(q) = n + 1 /\ (n + 1) - 1 = n
    <3>1. Len(q) > 0 /\ (n + 1) - 1 = n /\ 1 \in 1 .. n
      BY <2>1, <2>4
    <3>2. q[1] = Q1
      BY <2>1, <2>4, <3>1
    <3>3. q \in Seq(Nodes') /\ q[Len(q)] = w
      BY <2>4, <2>5
    <3> QED BY <2>4, <3>1, <3>2, <3>3
  <2> QED BY <2>5, <2>6, <2>7, <2>8 DEF IsPath, Touches
<1>6. ASSUME NEW w \in DOMAIN call'.found, NEW q \in {call'.found[w]}
      PROVE  IsPath(q, w)'
  <2>1. CASE w \in DOMAIN call.found /\ call'.found[w] = call.found[w]
    <3>1. IsPath(q, w)
      BY <1>1, <1>6, <2>1 DEF PathInv
    <3> QED BY <3>1, PathStays
  <2>2. CASE ~(w \in DOMAIN call.found /\ call'.found[w] = call.found[w])
    <3>1. /\ call'.found[w] = Append(call.found[v], w)
          /\ w \in Onward(v)
          /\ \/ w \notin DOMAIN call.found
             \/ w \in call.open /\ ~Shortcut(v, w, AddEdges(v))
      BY <2>2, VisitFacts
    <3> QED BY <1>5, <1>6, <3>1
  <2> QED BY <2>1, <2>2
<1> QED BY <1>3, <1>4, <1>6 DEF PathInv

-----------------------------------------------------------------------------
(* What lies between the terminals of a walk.                              *)
LEMMA CrossedFacts ==
    ASSUME NEW K, Between(K), NEW p, Walk(K, p), p[Len(p)] = Q2
    PROVE  /\ Crossed(p) \in Seq(K)
           /\ Len(Crossed(p)) = Exit(p) - Entrance + 1
           /\ Len(Crossed(p)) \in Nat /\ Len(Crossed(p)) > 0
           /\ \A i \in 1 .. Len(Crossed(p)) :
                 /\ i + Entrance - 1 \in Entrance .. Exit(p)
                 /\ Crossed(p)[i] = p[i + Entrance - 1]
<1>1. /\ Entrance \in 2 .. Len(p) /\ Exit(p) \in 1 .. (Len(p) - 1)
      /\ Entrance <= Exit(p) /\ \A k \in Entrance .. Exit(p) : p[k] \in K
  BY WalkShape
<1>2. Crossed(p) = SubSeq(p, Entrance, Exit(p))
  BY DEF Crossed, Entrance, Exit
<1> DEFINE a == Entrance
           b == Exit(p)
           n == b - a + 1
<1>3. a \in Nat /\ b \in Nat /\ a <= b
  BY <1>1
<1> HIDE DEF a, b
<1>4. ASSUME NEW i \in 1 .. n PROVE i + a - 1 \in a .. b /\ i + a - 1 = a + i - 1
  BY <1>3
<1>5. \A i \in a .. b : p[i] \in K
  BY <1>1 DEF a, b
<1>6. n \in Nat /\ n > 0
  BY <1>3
<1>7. /\ SubSeq(p, a, b) \in Seq(K) /\ Len(SubSeq(p, a, b)) = n
      /\ \A i \in 1 .. n : SubSeq(p, a, b)[i] = p[a + i - 1]
  BY <1>3, <1>5, SubSeqProperties
<1>8. \A i \in 1 .. n : SubSeq(p, a, b)[i] = p[i + a - 1]
  BY <1>4, <1>7
<1> QED BY <1>2, <1>4, <1>6, <1>7, <1>8 DEF a, b

(* The regions of a vertex.                                                *)
LEMMA VertexFacts ==
    ASSUME samples \in Worlds, NEW v \in Vertices
    PROVE  /\ v[1] \in Regions /\ v[2] \in Regions
           /\ v[1] # v[2] => v \in samples /\ Overlap(v[1], v[2])
           /\ v[1] = v[2] => \A w \in Vertices : ~Share(v, w)
<1>1. CASE v \in samples
  <2>1. v \in Regions \X Regions \X (Nat \ {0}) /\ v[1] < v[2]
    BY <1>1, WorldsAssumption
  <2>2. v[1] \in Nat /\ v[2] \in Nat
    BY <2>1, RegionsAssumption
  <2> QED BY <1>1, <2>1, <2>2 DEF Overlap, Touches
<1>2. CASE v \notin samples
  <2>1. PICK r \in {s \in Regions : Meets(s) = {}} : v = <<r, r, 1>>
    BY <1>2 DEF Vertices
  <2>2. v[1] = r /\ v[2] = r
    BY <2>1
  <2>3. ASSUME NEW w \in Vertices, Share(v, w) PROVE FALSE
    <3>1. r \in Touches(w) /\ v # w
      BY <2>2, <2>3 DEF Share, Touches
    <3>2. w \notin samples
      BY <2>1, <3>1 DEF Meets
    <3>3. PICK s \in Regions : w = <<s, s, 1>>
      BY <3>2 DEF Vertices
    <3>4. w[1] = s /\ w[2] = s
      BY <3>3
    <3> QED BY <2>1, <3>1, <3>3, <3>4 DEF Touches
  <2> QED BY <2>1, <2>2, <2>3
<1> QED BY <1>1, <1>2

(* The vertices a path crosses: neighbours share a region, others do not.  *)
Corridor(c) ==
    /\ c \in Seq(Vertices) /\ Len(c) > 0
    /\ \A i \in 1 .. (Len(c) - 1) : Share(c[i], c[i + 1])
    /\ \A i \in 1 .. Len(c) : \A j \in 1 .. Len(c) :
          i + 1 < j => Touches(c[i]) \cap Touches(c[j]) = {}
LEMMA CrossedIsCorridor ==
    ASSUME GraphInv, NEW p, IsPath(p, Q2)
    PROVE  /\ Corridor(Crossed(p))
           /\ Crossed(p)[1] \in At(call.start.at)
           /\ Crossed(p)[Len(Crossed(p))] \in At(call.end.at)
           /\ \A i \in 1 .. Len(Crossed(p)) :
                 \E k \in DOMAIN p : Crossed(p)[i] = p[k]
<1> DEFINE c == Crossed(p)
           n == Len(c)
           a == Entrance
           b == Exit(p)
<1>1. /\ samples \in Worlds /\ edges \in SUBSET AllEdges(Vertices)
      /\ Walk(Vertices, p) /\ Between(Vertices) /\ p[Len(p)] = Q2
  BY PathIsWalk DEF GraphInv, IsPath
<1>2. /\ c \in Seq(Vertices) /\ n = b - a + 1 /\ n \in Nat /\ n > 0
      /\ \A i \in 1 .. n : /\ i + a - 1 \in a .. b /\ c[i] = p[i + a - 1]
                          /\ c[i] \in Vertices
  BY <1>1, CrossedFacts
<1>3. /\ a \in 2 .. Len(p) /\ b \in 1 .. (Len(p) - 1) /\ a <= b
      /\ \A k \in a .. b : p[k] \in Vertices
      /\ p[a - 1] = IF call.start.via THEN SeenFromQ1 ELSE Q1
      /\ p[b + 1] = GoalEntry
  BY <1>1, WalkShape
<1>4. Len(p) \in Nat /\ a \in Nat /\ b \in Nat
  BY <1>3 DEF IsPath
<1>5. \A k \in 1 .. (Len(p) - 1) : p[k + 1] \in Successors(p[k], edges)
  BY DEF IsPath
<1> HIDE DEF a, b, c, n, Q1, SeenFromQ1, SeenFromQ2, Q2
<1>6. ASSUME NEW i \in 1 .. n, NEW j \in 1 .. n, i + 1 < j
      PROVE  Touches(c[i]) \cap Touches(c[j]) = {}
  <2>1. /\ i + a - 1 \in 1 .. Len(p) /\ j + a - 1 \in 1 .. Len(p)
        /\ (i + a - 1) + 1 < j + a - 1 /\ i + a - 1 < j + a - 1
    BY <1>2, <1>3, <1>4, <1>6, SMTT(30)
  <2>2. /\ c[i] = p[i + a - 1] /\ c[j] = p[j + a - 1]
        /\ c[i] \in Vertices /\ c[j] \in Vertices
    BY <1>2
  <2> QED BY <2>1, <2>2 DEF IsPath
<1>7. ASSUME NEW i \in 1 .. (n - 1) PROVE Share(c[i], c[i + 1])
  <2>1. i \in 1 .. n /\ i + 1 \in 1 .. n
    BY <1>2
  <2>2. /\ i + a - 1 \in a .. b /\ (i + 1) + a - 1 \in a .. b
        /\ c[i] = p[i + a - 1] /\ c[i + 1] = p[(i + 1) + a - 1]
    BY <1>2, <2>1
  <2>3. /\ i + a - 1 \in 1 .. (Len(p) - 1)
        /\ (i + a - 1) + 1 = (i + 1) + a - 1
    BY <1>3, <1>4, <2>2
  <2>4. /\ c[i] \in Vertices /\ c[i + 1] \in Vertices
        /\ c[i + 1] \in Successors(c[i], edges)
    BY <1>3, <1>5, <2>2, <2>3
  <2>5. c[i] \notin {Q1, SeenFromQ1, SeenFromQ2} /\ c[i + 1] # GoalEntry
    BY <1>1, <2>4 DEF Between
  <2> QED BY <1>1, <2>4, <2>5, StepFrom
<1>8. c[1] \in At(call.start.at)
  <2>1. 1 \in 1 .. n /\ 1 + a - 1 = a
    BY <1>2, <1>4
  <2>2. c[1] = p[a] /\ c[1] \in Vertices
    BY <1>2, <2>1
  <2>3. a - 1 \in 1 .. (Len(p) - 1) /\ (a - 1) + 1 = a
    BY <1>3, <1>4
  <2>4. c[1] \in Successors(p[a - 1], edges)
    BY <1>5, <2>2, <2>3
  <2> QED BY <1>1, <1>3, <2>2, <2>4, StepFrom DEF Between
<1>9. c[n] \in At(call.end.at)
  <2>1. n \in 1 .. n /\ n + a - 1 = b
    BY <1>2, <1>4
  <2>2. c[n] = p[b] /\ c[n] \in Vertices
    BY <1>2, <2>1
  <2>3. GoalEntry \in Successors(c[n], edges)
    BY <1>3, <1>5, <2>2
  <2>4. c[n] \notin {Q1, SeenFromQ1, SeenFromQ2} /\ GoalEntry \notin Vertices
    BY <1>1, <2>2 DEF Between
  <2> QED BY <1>1, <2>3, <2>4, StepFrom
<1>10. ASSUME NEW i \in 1 .. n PROVE \E k \in DOMAIN p : c[i] = p[k]
  <2>0. i + a - 1 \in a .. b /\ c[i] = p[i + a - 1]
    BY <1>2
  <2>1. i + a - 1 \in 1 .. Len(p) /\ c[i] = p[i + a - 1]
    BY <1>3, <1>4, <2>0
  <2>2. DOMAIN p = 1 .. Len(p)
    BY DEF IsPath
  <2> QED BY <2>1, <2>2
<1>11. Corridor(c)
  BY <1>2, <1>6, <1>7 DEF Corridor, n
<1> QED BY <1>8, <1>9, <1>10, <1>11 DEF c, n

(* The chain of regions: two in a row are those of one vertex, whichever   *)
(* way round, and the later of them is one of the next vertex.             *)
LEMMA ChainFacts ==
    ASSUME samples \in Worlds, NEW c, Corridor(c)
    PROVE  /\ HullChain(c) \in Seq(Regions)
           /\ IF Len(c) = 1 /\ c[1][1] = c[1][2]
              THEN Len(HullChain(c)) = 1 /\ HullChain(c)[1] \in Touches(c[1])
              ELSE /\ Len(HullChain(c)) = Len(c) + 1
                   /\ \A i \in 1 .. Len(c) :
                         /\ {HullChain(c)[i], HullChain(c)[i + 1]} = Touches(c[i])
                         /\ Overlap(HullChain(c)[i], HullChain(c)[i + 1])
<1> DEFINE n == Len(c)
           Link(k, h) == HullNext(h, c[k + 1])
           step == [z \in (1 .. (n - 1)) \X Seq(Regions) |-> Link(z[1], z[2])]
           Chain(f) == f = [k \in 1 .. n |-> IF k = 1 THEN HullStart(c)
                                             ELSE HullNext(f[k - 1], c[k])]
           chain == CHOOSE f : Chain(f)
<1>1. n \in Nat /\ n > 0 /\ c \in Seq(Vertices)
  BY DEF Corridor
<1>2. \A i \in 1 .. n : c[i] \in Vertices /\ c[i][1] \in Regions /\ c[i][2] \in Regions
  BY <1>1, VertexFacts
<1>3. HullStart(c) \in Seq(Regions)
  <2>1. c[1][1] \in Regions /\ c[1][2] \in Regions
    BY <1>1, <1>2
  <2>2. \A r, s \in Regions : <<r>> \in Seq(Regions) /\ <<r, s>> \in Seq(Regions)
    OBVIOUS
  <2> QED BY <2>1, <2>2 DEF HullStart
<1>4. ASSUME NEW k \in 1 .. (n - 1), NEW h \in Seq(Regions)
      PROVE  Link(k, h) \in Seq(Regions)
  <2>1. k + 1 \in 1 .. n
    BY <1>1
  <2>2. c[k + 1][1] \in Regions /\ c[k + 1][2] \in Regions
    BY <1>2, <2>1
  <2> QED BY <2>2 DEF HullNext
<1>5. step \in [(1 .. (n - 1)) \X Seq(Regions) -> Seq(Regions)]
  <2> SUFFICES ASSUME NEW z \in (1 .. (n - 1)) \X Seq(Regions)
               PROVE  Link(z[1], z[2]) \in Seq(Regions)
    OBVIOUS
  <2> HIDE DEF Link
  <2> QED BY <1>4
<1>6. \A k \in 1 .. (n - 1) : \A h \in Seq(Regions) : step[<<k, h>>] = Link(k, h)
  OBVIOUS
<1> HIDE DEF step, Link
<1>7. PICK g \in [0 .. (n - 1) -> Seq(Regions)] :
         g[0] = HullStart(c) /\ \A i \in 1 .. (n - 1) : g[i] = step[<<i, g[i - 1]>>]
  <2>1. Results(Seq(Regions), HullStart(c), n - 1, step) # {}
    <3>1. n - 1 \in Nat
      BY <1>1
    <3> QED BY <1>3, <1>5, <3>1, ResultsExist
  <2> QED BY <2>1 DEF Results
<1>8. Chain([k \in 1 .. n |-> g[k - 1]])
  <2> DEFINE f == [k \in 1 .. n |-> g[k - 1]]
  <2>1. ASSUME NEW k \in 1 .. n
        PROVE  f[k] = IF k = 1 THEN HullStart(c) ELSE HullNext(f[k - 1], c[k])
    <3>1. CASE k = 1
      BY <1>1, <1>7, <3>1
    <3>2. CASE k # 1
      <4>1. k - 1 \in 1 .. (n - 1) /\ (k - 1) + 1 = k /\ k - 1 \in 1 .. n
            /\ (k - 1) - 1 \in 0 .. (n - 1)
        BY <1>1, <3>2
      <4>2. g[k - 1] = Link(k - 1, g[(k - 1) - 1])
        BY <1>6, <1>7, <4>1
      <4>3. f[k] = g[k - 1] /\ f[k - 1] = g[(k - 1) - 1]
        BY <4>1
      <4> HIDE DEF f
      <4> QED BY <3>2, <4>1, <4>2, <4>3 DEF Link
    <3> QED BY <3>1, <3>2
  <2>2. f = [k \in 1 .. n |-> f[k]]
    OBVIOUS
  <2> HIDE DEF f
  <2>3. Chain(f)
    BY <2>1, <2>2
  <2> QED BY <2>3 DEF f
<1>9. Chain(chain)
  <2> HIDE DEF Chain
  <2> QED BY <1>8
<1>10. HullChain(c) = chain[n]
  BY DEF HullChain
<1> HIDE DEF chain
<1>11. /\ chain[1] = HullStart(c)
       /\ \A k \in 1 .. (n - 1) : chain[k + 1] = HullNext(chain[k], c[k + 1])
  <2>1. 1 \in 1 .. n
    BY <1>1
  <2>2. \A k \in 1 .. (n - 1) : k + 1 \in 1 .. n /\ k + 1 # 1 /\ (k + 1) - 1 = k
    BY <1>1
  <2> QED BY <1>9, <2>1, <2>2
<1> HIDE DEF Chain
<1>12. CASE n = 1 /\ c[1][1] = c[1][2]
  <2>1. HullChain(c) = <<c[1][1]>>
    BY <1>10, <1>11, <1>12 DEF HullStart
  <2> QED BY <1>1, <1>2, <1>12, <2>1 DEF Touches
<1>13. CASE ~(n = 1 /\ c[1][1] = c[1][2])
  <2>1. ASSUME NEW i \in 1 .. n PROVE c[i][1] # c[i][2]
    <3>1. CASE n = 1
      BY <1>13, <3>1
    <3>2. CASE n # 1 /\ i < n
      <4>1. i \in 1 .. (n - 1) /\ i + 1 \in 1 .. n
        BY <1>1, <3>2
      <4>2. Share(c[i], c[i + 1]) /\ c[i] \in Vertices /\ c[i + 1] \in Vertices
        BY <1>2, <4>1 DEF Corridor
      <4> QED BY <4>2, VertexFacts
    <3>3. CASE n # 1 /\ ~(i < n)
      <4>1. i - 1 \in 1 .. (n - 1) /\ i - 1 \in 1 .. n /\ (i - 1) + 1 = i
        BY <1>1, <3>3
      <4>2. Share(c[i], c[i - 1]) /\ c[i] \in Vertices /\ c[i - 1] \in Vertices
        BY <1>2, <4>1 DEF Corridor, Share
      <4> QED BY <4>2, VertexFacts
    <3> QED BY <3>1, <3>2, <3>3
  <2> DEFINE Good(k) ==
         /\ chain[k] \in Seq(Regions) /\ Len(chain[k]) = k + 1
         /\ \A i \in 1 .. k : {chain[k][i], chain[k][i + 1]} = Touches(c[i])
         /\ k < n => chain[k][k + 1] \in Touches(c[k + 1])
  <2>2. Good(1)
    <3> DEFINE v == c[1]
    <3>1. v[1] \in Regions /\ v[2] \in Regions
      BY <1>1, <1>2
    <3>2. n > 1 => Touches(v) \cap Touches(c[2]) # {}
      <4>1. n > 1 => Share(c[1], c[1 + 1])
        BY <1>1 DEF Corridor
      <4> QED BY <4>1 DEF Share
    <3>3. chain[1] = IF n > 1 /\ v[1] \in Touches(c[2]) THEN <<v[2], v[1]>>
                     ELSE <<v[1], v[2]>>
      BY <1>11, <1>13, <2>1 DEF HullStart
    <3>4. \A i \in 1 .. 1 : i = 1 /\ i + 1 = 2
      OBVIOUS
    <3> HIDE DEF v
    <3>5. CASE n > 1 /\ v[1] \in Touches(c[2])
      <4>1. chain[1] = <<v[2], v[1]>>
        BY <3>3, <3>5
      <4>2. /\ chain[1] \in Seq(Regions) /\ Len(chain[1]) = 2
            /\ chain[1][1] = v[2] /\ chain[1][2] = v[1]
        BY <3>1, <4>1
      <4> QED BY <3>4, <3>5, <4>2 DEF Touches, v
    <3>6. CASE ~(n > 1 /\ v[1] \in Touches(c[2]))
      <4>1. chain[1] = <<v[1], v[2]>>
        BY <3>3, <3>6
      <4>2. /\ chain[1] \in Seq(Regions) /\ Len(chain[1]) = 2
            /\ chain[1][1] = v[1] /\ chain[1][2] = v[2]
        BY <3>1, <4>1
      <4>3. n > 1 => v[2] \in Touches(c[2])
        BY <3>2, <3>6 DEF Touches
      <4> QED BY <1>1, <3>4, <4>2, <4>3 DEF Touches, v
    <3> QED BY <3>5, <3>6
  <2>3. ASSUME NEW k \in Nat, k >= 1, k + 1 <= n, Good(k) PROVE Good(k + 1)
    <3> DEFINE h == chain[k]
               l == h[k + 1]
               v == c[k + 1]
               o == IF v[1] = l THEN v[2] ELSE v[1]
               m == chain[k + 1]
    <3>1. /\ k \in 1 .. (n - 1) /\ k \in 1 .. n /\ k + 1 \in 1 .. n /\ k < n
          /\ (k + 1) + 1 = k + 2
      BY <1>1, <2>3
    <3>2. /\ h \in Seq(Regions) /\ Len(h) = k + 1 /\ l \in Touches(v)
          /\ \A i \in 1 .. k : {h[i], h[i + 1]} = Touches(c[i])
      BY <2>3, <3>1
    <3>3. v[1] \in Regions /\ v[2] \in Regions /\ v[1] # v[2]
      BY <1>2, <2>1, <3>1
    <3>4. m = Append(h, o)
      BY <1>11, <3>1, <3>2 DEF HullNext
    <3>5. o \in Regions /\ {l, o} = Touches(v) /\ o # l
      <4> HIDE DEF l, v
      <4> QED BY <3>2, <3>3 DEF Touches
    <3> HIDE DEF o, h, m
    <3>6. /\ m \in Seq(Regions) /\ Len(m) = k + 2 /\ m[k + 2] = o
          /\ \A i \in 1 .. (k + 1) : m[i] = h[i]
      BY <3>2, <3>4, <3>5
    <3>7. ASSUME NEW i \in 1 .. (k + 1)
          PROVE  {m[i], m[i + 1]} = Touches(c[i])
      <4>1. CASE i = k + 1
        <5>1. m[i] = l /\ m[i + 1] = o
          BY <3>1, <3>6, <4>1
        <5> HIDE DEF l
        <5> QED BY <3>5, <4>1, <5>1
      <4>2. CASE i # k + 1
        <5>1. i \in 1 .. k /\ i + 1 \in 1 .. (k + 1)
          BY <4>2
        <5> QED BY <3>2, <3>6, <5>1
      <4> QED BY <4>1, <4>2
    <3>8. k + 1 < n => m[k + 2] \in Touches(c[k + 2])
      <4> SUFFICES ASSUME k + 1 < n PROVE o \in Touches(c[k + 2])
        BY <3>6
      <4>1. /\ k + 1 \in 1 .. (n - 1) /\ k + 2 \in 1 .. n /\ k + 1 < k + 2
        BY <1>1
      <4>2. Share(v, c[k + 2])
        BY <3>1, <4>1 DEF Corridor
      <4>3. Touches(c[k]) \cap Touches(c[k + 2]) = {}
        BY <3>1, <4>1 DEF Corridor
      <4>4. l \in Touches(c[k])
        <5>1. k \in 1 .. k
          BY <2>3
        <5> QED BY <3>2, <5>1
      <4> HIDE DEF l, v
      <4> QED BY <3>5, <4>2, <4>3, <4>4 DEF Share
    <3> QED BY <3>1, <3>6, <3>7, <3>8 DEF m
  <2> DEFINE K == {k \in Nat : k + 1 <= n => Good(k + 1)}
  <2>4. Good(n)
    <3> HIDE DEF Good
    <3>1. 0 \in K
      BY <2>2
    <3>2. ASSUME NEW k \in Nat, k \in K PROVE k + 1 \in K
      <4>1. k + 1 \in Nat /\ k + 1 >= 1 /\ ((k + 1) + 1 <= n => k + 1 <= n)
        BY <1>1
      <4>2. (k + 1) + 1 <= n => Good((k + 1) + 1)
        BY <2>3, <3>2, <4>1
      <4> QED BY <4>1, <4>2
    <3> HIDE DEF K
    <3>3. Nat \subseteq K
      BY <3>1, <3>2, SetInduction
    <3>4. n - 1 \in Nat /\ (n - 1) + 1 = n
      BY <1>1
    <3>5. n - 1 \in K
      BY <3>3, <3>4
    <3> QED BY <1>1, <3>4, <3>5 DEF K
  <2>5. ASSUME NEW i \in 1 .. n
        PROVE  Overlap(HullChain(c)[i], HullChain(c)[i + 1])
    <3>1. {HullChain(c)[i], HullChain(c)[i + 1]} = {c[i][1], c[i][2]}
      BY <1>10, <2>4 DEF Touches
    <3>2. c[i] \in Vertices /\ c[i][1] # c[i][2]
      BY <1>2, <2>1
    <3>3. c[i] \in samples
      BY <3>2, VertexFacts
    <3>4. HullChain(c)[i] # HullChain(c)[i + 1]
      BY <3>1, <3>2
    <3> QED BY <3>1, <3>3, <3>4 DEF Overlap, Touches
  <2> QED BY <1>10, <1>13, <2>4, <2>5
<1> QED BY <1>12, <1>13

-----------------------------------------------------------------------------
(* The hops are counted over part of the nodes, which holds all that have  *)
(* an edge into it; each but the goal has one to a node with fewer hops.   *)
Counted(h, important) ==
    /\ DOMAIN h \subseteq important \cup {Q2}
    /\ Q2 \in DOMAIN h
    /\ \A n \in DOMAIN h : h[n] \in Nat /\ (h[n] = 0 <=> n = Q2)
    /\ \A n \in DOMAIN h : n # Q2 =>
          \E m \in DOMAIN h : m \in GcsSuccessors(n) /\ h[m] < h[n]
Saturated(h, important) ==
    \A n \in important : GcsSuccessors(n) \cap DOMAIN h # {} => n \in DOMAIN h

Reached(h, important) ==
    {n \in important \ DOMAIN h : GcsSuccessors(n) \cap DOMAIN h # {}}
NextHops(k, h, important) ==
    [n \in DOMAIN h \cup Reached(h, important) |->
        IF n \in Reached(h, important) THEN k ELSE h[n]]

LEMMA HopsStep ==
    ASSUME NEW important, IsFiniteSet(important),
           NEW k \in Nat, NEW h, Counted(h, important),
           \A n \in DOMAIN h : h[n] <= k,
           Saturated(h, important) \/ Cardinality(DOMAIN h) >= k + 1
    PROVE  LET g == NextHops(k + 1, h, important)
           IN  /\ Counted(g, important)
               /\ \A n \in DOMAIN g : g[n] <= k + 1
               /\ Saturated(g, important) \/ Cardinality(DOMAIN g) >= k + 2
<1> DEFINE R == Reached(h, important)
           g == NextHops(k + 1, h, important)
<1>1. R \cap DOMAIN h = {} /\ R \subseteq important
  BY DEF Reached
<1>2. DOMAIN g = DOMAIN h \cup R
  BY DEF NextHops
<1>3. /\ \A n \in R : g[n] = k + 1
      /\ \A n \in DOMAIN h : g[n] = h[n]
  BY <1>1 DEF NextHops
<1>4. \A n \in R : \E m \in DOMAIN h : m \in GcsSuccessors(n)
  BY DEF Reached
<1> HIDE DEF g, Q2
<1>5. Counted(g, important)
  <2>1. DOMAIN g \subseteq important \cup {Q2} /\ Q2 \in DOMAIN g
    BY <1>1, <1>2 DEF Counted
  <2>2. Q2 \in DOMAIN h
    BY DEF Counted
  <2>3. ASSUME NEW n \in DOMAIN g
        PROVE  g[n] \in Nat /\ (g[n] = 0 <=> n = Q2)
    BY <1>1, <1>2, <1>3, <2>2, <2>3 DEF Counted
  <2>4. ASSUME NEW n \in DOMAIN g, n # Q2
        PROVE  \E m \in DOMAIN g : m \in GcsSuccessors(n) /\ g[m] < g[n]
    <3>1. CASE n \in DOMAIN h
      <4>1. PICK m \in DOMAIN h : m \in GcsSuccessors(n) /\ h[m] < h[n]
        BY <2>4, <3>1 DEF Counted
      <4> QED BY <1>2, <1>3, <3>1, <4>1
    <3>2. CASE n \in R
      <4>1. PICK m \in DOMAIN h : m \in GcsSuccessors(n)
        BY <1>4, <3>2
      <4>2. h[m] <= k /\ h[m] \in Nat
        BY DEF Counted
      <4>3. g[m] < g[n]
        BY <1>3, <3>2, <4>2
      <4> QED BY <1>2, <4>1, <4>3
    <3> QED BY <1>2, <2>4, <3>1, <3>2
  <2> QED BY <2>1, <2>3, <2>4 DEF Counted
<1>6. \A n \in DOMAIN g : g[n] <= k + 1
  <2> SUFFICES ASSUME NEW n \in DOMAIN g PROVE g[n] <= k + 1
    OBVIOUS
  <2>1. n \in DOMAIN h => h[n] <= k /\ h[n] \in Nat
    BY DEF Counted
  <2> QED BY <1>2, <1>3, <2>1
<1>7. Saturated(g, important) \/ Cardinality(DOMAIN g) >= k + 2
  <2>1. CASE R = {}
    <3>1. DOMAIN g = DOMAIN h
      BY <1>2, <2>1
    <3>2. Saturated(h, important)
      BY <2>1 DEF Saturated, Reached
    <3> QED BY <3>1, <3>2 DEF Saturated
  <2>2. CASE R # {}
    <3>1. PICK n : n \in R
      BY <2>2
    <3>2. Cardinality(DOMAIN h) >= k + 1
      BY <3>1 DEF Saturated, Reached
    <3>3. IsFiniteSet(DOMAIN g) /\ IsFiniteSet(DOMAIN h)
      <4>1. IsFiniteSet(important \cup {Q2})
        BY FS_AddElement
      <4> QED BY <1>5, <4>1, FS_Subset DEF Counted
    <3>4. IsFiniteSet(DOMAIN h \cup {n})
          /\ Cardinality(DOMAIN h \cup {n}) = Cardinality(DOMAIN h) + 1
      BY <1>1, <3>1, <3>3, FS_AddElement
    <3>5. DOMAIN h \cup {n} \subseteq DOMAIN g
      BY <1>2, <3>1
    <3>6. Cardinality(DOMAIN h \cup {n}) <= Cardinality(DOMAIN g)
      BY <3>3, <3>5, FS_Subset
    <3>7. Cardinality(DOMAIN h) \in Nat /\ Cardinality(DOMAIN g) \in Nat
      BY <3>3, FS_CardinalityType
    <3> QED BY <3>2, <3>4, <3>6, <3>7
  <2> QED BY <2>1, <2>2
<1> QED BY <1>5, <1>6, <1>7 DEF g

LEMMA HopsFacts ==
    ASSUME NEW p, IsFiniteSet(Participating(p))
    PROVE  /\ Counted(HopsFromGoal(p), Participating(p))
           /\ Saturated(HopsFromGoal(p), Participating(p))
<1> DEFINE I == Participating(p)
           N == Cardinality(I)
           S == UNION {[A -> Nat] : A \in SUBSET (I \cup {Q2})}
           Start == [n \in {Q2} |-> 0]
           step == [z \in (1 .. N) \X S |-> NextHops(z[1], z[2], I)]
           Hops(f) == f = [k \in 0 .. N |->
                         IF k = 0 THEN [n \in {Q2} |-> 0]
                         ELSE LET before == f[k - 1]
                                  reached == {n \in I \ DOMAIN before :
                                     GcsSuccessors(n) \cap DOMAIN before # {}}
                              IN  [n \in DOMAIN before \cup reached |->
                                     IF n \in reached THEN k ELSE before[n]]]
           hops == CHOOSE f : Hops(f)
<1>1. N \in Nat
  BY FS_CardinalityType
<1>2. HopsFromGoal(p) = hops[N]
  BY DEF HopsFromGoal
<1> HIDE DEF I, N, Q2
<1>3. Start \in S
  <2>1. Start \in [{Q2} -> Nat] /\ {Q2} \in SUBSET (I \cup {Q2})
    OBVIOUS
  <2> HIDE DEF Start
  <2> QED BY <2>1
<1>4. ASSUME NEW k \in 1 .. N, NEW h \in S PROVE NextHops(k, h, I) \in S
  <2>1. PICK A \in SUBSET (I \cup {Q2}) : h \in [A -> Nat]
    BY <1>4
  <2>2. DOMAIN h \cup Reached(h, I) \in SUBSET (I \cup {Q2})
    BY <2>1 DEF Reached
  <2>3. NextHops(k, h, I) \in [DOMAIN h \cup Reached(h, I) -> Nat]
    BY <2>1 DEF NextHops
  <2> QED BY <2>2, <2>3
<1>5. step \in [(1 .. N) \X S -> S]
  <2> SUFFICES ASSUME NEW z \in (1 .. N) \X S PROVE NextHops(z[1], z[2], I) \in S
    OBVIOUS
  <2> HIDE DEF S
  <2> QED BY <1>4
<1>6. \A k \in 1 .. N : \A h \in S : step[<<k, h>>] = NextHops(k, h, I)
  OBVIOUS
<1> HIDE DEF step, S
<1>7. PICK f \in [0 .. N -> S] :
         f[0] = Start /\ \A i \in 1 .. N : f[i] = step[<<i, f[i - 1]>>]
  <2>1. Results(S, Start, N, step) # {}
    BY <1>1, <1>3, <1>5, ResultsExist
  <2> QED BY <2>1 DEF Results
<1>8. Hops(f)
  <2>1. ASSUME NEW k \in 1 .. N PROVE f[k] = NextHops(k, f[k - 1], I)
    <3>1. k - 1 \in 0 .. N
      BY <1>1
    <3> QED BY <1>6, <1>7, <3>1
  <2>2. \A k \in 0 .. N : k # 0 => k \in 1 .. N
    BY <1>1
  <2>3. \A k \in 0 .. N : f[k] = IF k = 0 THEN Start ELSE NextHops(k, f[k - 1], I)
    BY <1>7, <2>1, <2>2
  <2>4. f = [k \in 0 .. N |-> IF k = 0 THEN Start ELSE NextHops(k, f[k - 1], I)]
    BY <1>7, <2>3
  <2> QED BY <2>4 DEF NextHops, Reached
<1>9. Hops(hops)
  <2> HIDE DEF Hops
  <2> QED BY <1>8
<1> HIDE DEF hops
<1>10. hops = [k \in 0 .. N |-> IF k = 0 THEN Start ELSE NextHops(k, hops[k - 1], I)]
  BY <1>9 DEF NextHops, Reached
<1> HIDE DEF Hops
<1>11. /\ hops[0] = Start
       /\ \A k \in Nat : k + 1 <= N => hops[k + 1] = NextHops(k + 1, hops[k], I)
  <2>1. 0 \in 0 .. N
    BY <1>1
  <2>2. ASSUME NEW k \in Nat, k + 1 <= N
        PROVE  hops[k + 1] = NextHops(k + 1, hops[k], I)
    <3>1. k + 1 \in 0 .. N /\ k + 1 # 0 /\ (k + 1) - 1 = k
      BY <1>1, <2>2
    <3> QED BY <1>10, <3>1
  <2> QED BY <1>10, <2>1, <2>2
<1> DEFINE Good(k) ==
       /\ Counted(hops[k], I) /\ \A n \in DOMAIN hops[k] : hops[k][n] <= k
       /\ Saturated(hops[k], I) \/ Cardinality(DOMAIN hops[k]) >= k + 1
           K == {k \in Nat : k <= N => Good(k)}
<1>12. Good(0)
  <2>1. DOMAIN Start = {Q2} /\ Start[Q2] = 0
    OBVIOUS
  <2> HIDE DEF Start
  <2>2. Cardinality({Q2}) = 1
    BY FS_Singleton
  <2>3. Counted(Start, I)
    BY <2>1 DEF Counted
  <2> QED BY <1>11, <2>1, <2>2, <2>3
<1>13. ASSUME NEW k \in Nat, k + 1 <= N, Good(k) PROVE Good(k + 1)
  <2>1. hops[k + 1] = NextHops(k + 1, hops[k], I)
    BY <1>11, <1>13
  <2>2. IsFiniteSet(I)
    BY DEF I
  <2> DEFINE h == hops[k]
             g == hops[k + 1]
  <2>3. /\ Counted(h, I) /\ \A n \in DOMAIN h : h[n] <= k
        /\ Saturated(h, I) \/ Cardinality(DOMAIN h) >= k + 1
    BY <1>13
  <2>4. g = NextHops(k + 1, h, I)
    BY <2>1
  <2> HIDE DEF h, g
  <2>5. /\ Counted(g, I) /\ \A n \in DOMAIN g : g[n] <= k + 1
        /\ Saturated(g, I) \/ Cardinality(DOMAIN g) >= k + 2
    BY <2>2, <2>3, <2>4, HopsStep
  <2>6. (k + 1) + 1 = k + 2
    OBVIOUS
  <2> QED BY <2>5, <2>6 DEF g
<1>14. Good(N)
  <2> HIDE DEF Good
  <2>1. 0 \in K
    BY <1>12
  <2>2. ASSUME NEW k \in Nat, k \in K PROVE k + 1 \in K
    <3>1. k + 1 <= N => Good(k)
      BY <1>1, <2>2
    <3> QED BY <1>13, <3>1
  <2> HIDE DEF K
  <2>3. Nat \subseteq K
    BY <2>1, <2>2, SetInduction
  <2> QED BY <1>1, <2>3 DEF K
<1>15. Saturated(hops[N], I)
  <2> DEFINE h == hops[N]
             D == DOMAIN h
  <2>1. Counted(h, I) /\ (Saturated(h, I) \/ Cardinality(D) >= N + 1)
    BY <1>14
  <2> HIDE DEF h
  <2>2. CASE Cardinality(D) >= N + 1
    <3>1. IsFiniteSet(I) /\ N = Cardinality(I)
      BY DEF I, N
    <3>2. /\ IsFiniteSet(I \cup {Q2})
          /\ Cardinality(I \cup {Q2}) = N \/ Cardinality(I \cup {Q2}) = N + 1
      BY <3>1, FS_AddElement
    <3>3. D \subseteq I \cup {Q2}
      BY <2>1 DEF Counted
    <3> HIDE DEF D
    <3>4. IsFiniteSet(D) /\ Cardinality(D) <= Cardinality(I \cup {Q2})
      BY <3>2, <3>3, FS_Subset
    <3>5. Cardinality(D) = Cardinality(I \cup {Q2})
      BY <1>1, <2>2, <3>2, <3>4, FS_CardinalityType
    <3>6. D = I \cup {Q2}
      BY <3>2, <3>3, <3>5, FS_Subset
    <3> QED BY <3>6 DEF Saturated, D, h
  <2> QED BY <2>1, <2>2 DEF h
<1> QED BY <1>2, <1>14, <1>15 DEF I

-----------------------------------------------------------------------------
(* The nodes of the graph of convex sets that stand for regions.           *)
RegionNodes == {<<r>> : r \in Regions}
LEMMA RegionsApart == Between(RegionNodes)
<1>1. \A r \in Regions : Len(<<r>>) = 1
  OBVIOUS
<1>2. Len(Q1) = 3 /\ Len(SeenFromQ1) = 3 /\ Len(SeenFromQ2) = 3 /\ Len(Q2) = 3
  OBVIOUS
<1> QED BY <1>1, <1>2 DEF Between, RegionNodes

LEMMA GcsSuccessorsOf ==
    /\ GcsSuccessors(Q1) = IF call.start.via THEN {SeenFromQ1}
                           ELSE {<<r>> : r \in call.start.at}
    /\ GcsSuccessors(SeenFromQ1) = {<<r>> : r \in call.start.at}
    /\ GcsSuccessors(SeenFromQ2) = {Q2}
    /\ GcsSuccessors(Q2) = {}
    /\ \A r \in Regions :
          GcsSuccessors(<<r>>) =
             {<<s>> : s \in {t \in Regions : Overlap(r, t)}}
             \cup (IF r \in call.end.at THEN {GoalEntry} ELSE {})
<1>1. \A r \in Regions : <<r>> # Q1 /\ <<r>> # SeenFromQ1 /\ <<r>> # SeenFromQ2 /\ <<r>> # Q2
  BY RegionsApart DEF Between, RegionNodes
<1>2. \A r : <<r>>[1] = r
  OBVIOUS
<1> HIDE DEF Q1, SeenFromQ1, SeenFromQ2, Q2
<1>3. GcsSuccessors(Q1) = IF call.start.via THEN {SeenFromQ1}
                           ELSE {<<r>> : r \in call.start.at}
  BY TerminalsApart DEF GcsSuccessors
<1>4. /\ GcsSuccessors(SeenFromQ1) = {<<r>> : r \in call.start.at}
      /\ GcsSuccessors(SeenFromQ2) = {Q2} /\ GcsSuccessors(Q2) = {}
  BY TerminalsApart DEF GcsSuccessors
<1>5. ASSUME NEW r \in Regions
      PROVE  GcsSuccessors(<<r>>) =
             {<<s>> : s \in {t \in Regions : Overlap(r, t)}}
             \cup (IF r \in call.end.at THEN {GoalEntry} ELSE {})
  BY <1>1, <1>2 DEF GcsSuccessors
<1> QED BY <1>3, <1>4, <1>5

(* The nodes that may take part are finitely many, and every region of     *)
(* what the path crosses is one of them.                                   *)
LEMMA ParticipatingFacts ==
    ASSUME NEW p, p \in Seq(Nodes)
    PROVE  /\ IsFiniteSet(Participating(p))
           /\ \A k \in DOMAIN p : p[k] \in Vertices =>
                 /\ <<p[k][1]>> \in Participating(p)
                 /\ <<p[k][2]>> \in Participating(p)
           /\ call.start.via => SeenFromQ1 \in Participating(p)
           /\ call.end.via => SeenFromQ2 \in Participating(p)
<1> DEFINE n == Len(p)
           First == {<<p[k][1]>> : k \in 1 .. n}
           Second == {<<p[k][2]>> : k \in 1 .. n}
           Passed == {<<r>> : r \in RegionsOf(p)}
<1>1. n \in Nat /\ DOMAIN p = 1 .. n
  OBVIOUS
<1> HIDE DEF n
<1>2. IsFiniteSet(First) /\ IsFiniteSet(Second)
  <2> DEFINE f == [k \in 1 .. n |-> <<p[k][1]>>]
             g == [k \in 1 .. n |-> <<p[k][2]>>]
  <2>1. f \in [1 .. n -> First] /\ \A t \in First : \E k \in 1 .. n : f[k] = t
    OBVIOUS
  <2>2. g \in [1 .. n -> Second] /\ \A t \in Second : \E k \in 1 .. n : g[k] = t
    OBVIOUS
  <2> HIDE DEF f, g, First, Second
  <2>3. f \in Surjection(1 .. n, First) /\ g \in Surjection(1 .. n, Second)
    BY <2>1, <2>2, Fun_IsSurj
  <2>4. ExistsSurjection(1 .. n, First) /\ ExistsSurjection(1 .. n, Second)
    BY <2>3 DEF ExistsSurjection
  <2> QED BY <1>1, <2>4, FS_NatSurjection
<1>3. Passed \subseteq First \cup Second
  <2> SUFFICES ASSUME NEW r \in RegionsOf(p) PROVE <<r>> \in First \cup Second
    OBVIOUS
  <2>1. PICK k \in 1 .. n : r \in {p[k][1], p[k][2]}
    BY <1>1 DEF RegionsOf, Touches
  <2> QED BY <2>1
<1>4. ASSUME NEW k \in 1 .. n, p[k] \in Vertices
      PROVE  <<p[k][1]>> \in Passed /\ <<p[k][2]>> \in Passed
  <2>1. Touches(p[k]) \subseteq RegionsOf(p)
    BY <1>1, <1>4 DEF RegionsOf
  <2> QED BY <2>1 DEF Touches
<1>5. IsFiniteSet(Passed)
  <2> HIDE DEF Passed, First, Second
  <2>1. IsFiniteSet(First \cup Second)
    BY <1>2, FS_Union
  <2> QED BY <1>3, <2>1, FS_Subset
<1> DEFINE A == IF call.start.via THEN {SeenFromQ1} ELSE {}
           B == IF call.end.via THEN {SeenFromQ2} ELSE {}
<1>6. IsFiniteSet(A) /\ IsFiniteSet(B)
  BY FS_EmptySet, FS_Singleton
<1>7. Participating(p) = Passed \cup A \cup B
  BY DEF Participating
<1>8. IsFiniteSet(Passed \cup A \cup B)
  <2> HIDE DEF Passed, A, B
  <2>1. IsFiniteSet(Passed \cup A)
    BY <1>5, <1>6, FS_Union
  <2> QED BY <1>6, <2>1, FS_Union
<1> HIDE DEF Passed
<1> QED BY <1>1, <1>4, <1>7, <1>8

-----------------------------------------------------------------------------
(* The hops reach back to the start along the path.                        *)
LEMMA StartCounted ==
    ASSUME GraphInv, NEW p, IsPath(p, Q2)
    PROVE  GcsSuccessors(Q1) \cap DOMAIN HopsFromGoal(p) # {}
<1> DEFINE D == DOMAIN HopsFromGoal(p)
           I == Participating(p)
           c == Crossed(p)
           n == Len(c)
           Both(v) == <<v[1]>> \in D /\ <<v[2]>> \in D
<1>1. samples \in Worlds
  BY DEF GraphInv
<1>2. p \in Seq(Nodes)
  BY DEF IsPath
<1>3. /\ \A k \in DOMAIN p : p[k] \in Vertices => <<p[k][1]>> \in I /\ <<p[k][2]>> \in I
      /\ call.start.via => SeenFromQ1 \in I
      /\ call.end.via => SeenFromQ2 \in I
      /\ IsFiniteSet(I)
  BY <1>2, ParticipatingFacts
<1>4. Q2 \in D /\ \A m \in I : GcsSuccessors(m) \cap D # {} => m \in D
  BY <1>3, HopsFacts DEF Counted, Saturated
<1>5. /\ Corridor(c) /\ c[1] \in At(call.start.at) /\ c[n] \in At(call.end.at)
      /\ \A i \in 1 .. n : \E k \in DOMAIN p : c[i] = p[k]
  BY CrossedIsCorridor
<1> HIDE DEF D, I, c, Q1, SeenFromQ1, SeenFromQ2, Q2
<1>6. n \in Nat /\ n > 0 /\ \A i \in 1 .. n : c[i] \in Vertices
  BY <1>5 DEF Corridor
<1>7. ASSUME NEW i \in 1 .. n
      PROVE  /\ <<c[i][1]>> \in I /\ <<c[i][2]>> \in I
             /\ c[i][1] \in Regions /\ c[i][2] \in Regions
             /\ c[i][1] # c[i][2] =>
                   Overlap(c[i][1], c[i][2]) /\ Overlap(c[i][2], c[i][1])
  <2>1. PICK k \in DOMAIN p : c[i] = p[k]
    BY <1>5
  <2>2. c[i] \in Vertices
    BY <1>6
  <2>3. Overlap(c[i][1], c[i][2]) => Overlap(c[i][2], c[i][1])
    BY DEF Overlap
  <2> QED BY <1>1, <1>3, <2>1, <2>2, <2>3, VertexFacts
<1> HIDE DEF n
<1>8. ASSUME NEW i \in 1 .. n, NEW r \in Touches(c[i]), <<r>> \in D
      PROVE  Both(c[i])
  <2> DEFINE a == c[i][1]
             b == c[i][2]
  <2>1. /\ <<a>> \in I /\ <<b>> \in I /\ a \in Regions /\ b \in Regions
        /\ a # b => Overlap(a, b) /\ Overlap(b, a)
    BY <1>7
  <2>2. r = a \/ r = b
    BY <1>8 DEF Touches
  <2> HIDE DEF a, b
  <2>3. CASE a = b
    BY <1>8, <2>2, <2>3 DEF a, b
  <2>4. CASE a # b
    <3>1. <<b>> \in GcsSuccessors(<<a>>) /\ <<a>> \in GcsSuccessors(<<b>>)
      BY <2>1, <2>4, GcsSuccessorsOf
    <3>2. <<a>> \in D /\ <<b>> \in D
      BY <1>4, <1>8, <2>1, <2>2, <3>1
    <3> QED BY <3>2 DEF a, b
  <2> QED BY <2>3, <2>4
<1>9. Both(c[n])
  <2>1. n \in 1 .. n
    BY <1>6
  <2>2. PICK r \in Touches(c[n]) : r \in call.end.at
    BY <1>5 DEF At
  <2>3. <<r>> \in I /\ r \in Regions
    BY <1>7, <2>1, <2>2 DEF Touches
  <2>4. GoalEntry \in GcsSuccessors(<<r>>)
    BY <2>2, <2>3, GcsSuccessorsOf
  <2>5. GoalEntry \in D
    <3>1. CASE call.end.via
      <4>1. Q2 \in GcsSuccessors(SeenFromQ2)
        BY GcsSuccessorsOf
      <4>2. SeenFromQ2 \in D
        BY <1>3, <1>4, <3>1, <4>1
      <4> QED BY <3>1, <4>2
    <3>2. CASE ~call.end.via
      BY <1>4, <3>2
    <3> QED BY <3>1, <3>2
  <2>6. <<r>> \in D
    BY <1>4, <2>3, <2>4, <2>5
  <2> QED BY <1>8, <2>1, <2>2, <2>6
<1>10. ASSUME NEW i \in 1 .. (n - 1), Both(c[i + 1]) PROVE Both(c[i])
  <2>1. i \in 1 .. n /\ i + 1 \in 1 .. n
    BY <1>6
  <2>2. Touches(c[i]) \cap Touches(c[i + 1]) # {}
    BY <1>5 DEF Corridor, Share, n
  <2>3. PICK r \in Touches(c[i]) : r \in Touches(c[i + 1])
    BY <2>2
  <2>4. <<r>> \in D
    BY <1>10, <2>3 DEF Touches
  <2> HIDE DEF Both
  <2> QED BY <1>8, <2>1, <2>3, <2>4
<1>11. Both(c[1])
  <2> DEFINE K == {k \in Nat : k < n => Both(c[n - k])}
  <2> HIDE DEF Both
  <2>1. 0 \in K
    BY <1>6, <1>9
  <2>2. ASSUME NEW k \in Nat, k \in K PROVE k + 1 \in K
    <3> SUFFICES ASSUME k + 1 < n PROVE Both(c[n - (k + 1)])
      OBVIOUS
    <3>1. n - (k + 1) \in 1 .. (n - 1) /\ (n - (k + 1)) + 1 = n - k /\ k < n
      BY <1>6
    <3>2. Both(c[n - k])
      BY <2>2, <3>1
    <3> QED BY <1>10, <3>1, <3>2
  <2> HIDE DEF K
  <2>3. Nat \subseteq K
    BY <2>1, <2>2, SetInduction
  <2>4. n - 1 \in Nat /\ n - 1 < n /\ n - (n - 1) = 1
    BY <1>6
  <2>5. n - 1 \in K
    BY <2>3, <2>4
  <2> QED BY <2>4, <2>5 DEF K
<1>12. PICK r \in Touches(c[1]) : r \in call.start.at
  BY <1>5 DEF At
<1>13. <<r>> \in D
  BY <1>11, <1>12 DEF Touches
<1>14. <<r>> \in {<<s>> : s \in call.start.at}
  BY <1>12
<1>15. CASE ~call.start.via
  BY <1>13, <1>14, <1>15, GcsSuccessorsOf DEF D
<1>16. CASE call.start.via
  <2>1. <<r>> \in GcsSuccessors(SeenFromQ1)
    BY <1>14, GcsSuccessorsOf
  <2>2. SeenFromQ1 \in D
    BY <1>3, <1>4, <1>13, <1>16, <2>1
  <2>3. GcsSuccessors(Q1) = {SeenFromQ1}
    BY <1>16, GcsSuccessorsOf
  <2> QED BY <2>2, <2>3 DEF D
<1> QED BY <1>15, <1>16

(* From a node with an edge to a counted one there is a nearest, and from  *)
(* a counted one it has fewer hops.                                        *)
LEMMA NearestFacts ==
    ASSUME NEW h, NEW important, Counted(h, important), NEW node
    PROVE  /\ Nearest(node, h) \subseteq GcsSuccessors(node) \cap DOMAIN h
           /\ GcsSuccessors(node) \cap DOMAIN h # {} => Nearest(node, h) # {}
           /\ node \in DOMAIN h /\ node # Q2 =>
                 /\ Nearest(node, h) # {}
                 /\ \A m \in Nearest(node, h) : h[m] < h[node]
<1> DEFINE ahead == GcsSuccessors(node) \cap DOMAIN h
           T == {h[m] : m \in ahead}
<1>1. Nearest(node, h) = {m \in ahead : \A k \in ahead : h[m] <= h[k]}
  BY DEF Nearest
<1>2. \A m \in ahead : h[m] \in Nat
  BY DEF Counted
<1>3. ASSUME ahead # {} PROVE Nearest(node, h) # {}
  <2>1. T \in SUBSET Nat /\ T # {}
    BY <1>2, <1>3
  <2>2. PICK x \in T : \A y \in T : x <= y
    <3> HIDE DEF T
    <3> QED BY <2>1, LeastNat
  <2>3. PICK m \in ahead : h[m] = x
    OBVIOUS
  <2>4. \A k \in ahead : h[m] <= h[k]
    BY <2>2, <2>3
  <2> QED BY <1>1, <2>3, <2>4
<1>4. ASSUME node \in DOMAIN h, node # Q2
      PROVE  ahead # {} /\ \A m \in Nearest(node, h) : h[m] < h[node]
  <2>1. PICK k \in DOMAIN h : k \in GcsSuccessors(node) /\ h[k] < h[node]
    BY <1>4 DEF Counted
  <2>2. k \in ahead
    BY <2>1
  <2>3. ASSUME NEW m \in Nearest(node, h) PROVE h[m] < h[node]
    <3>1. h[m] <= h[k] /\ m \in ahead
      BY <1>1, <2>2
    <3>2. h[m] \in Nat /\ h[k] \in Nat /\ h[node] \in Nat
      BY <1>2, <1>4, <2>2, <3>1 DEF Counted
    <3> QED BY <2>1, <3>1, <3>2
  <2> QED BY <2>2, <2>3
<1> QED BY <1>1, <1>3, <1>4

-----------------------------------------------------------------------------
(* Where the routes are after k steps: at the goal, or after so many nodes *)
(* of fewer and fewer hops that at most the others are still before them.  *)
NotBelow(h, node) == {m \in DOMAIN h : h[m] >= h[node]}
OnRoute(r, k, h) ==
    /\ r \in Seq(DOMAIN h \cup {Q1}) /\ Len(r) > 0 /\ r[1] = Q1
    /\ \A i \in 1 .. (Len(r) - 1) : r[i + 1] \in GcsSuccessors(r[i])
    /\ \/ r[Len(r)] = Q2
       \/ k = 0 /\ r[Len(r)] = Q1
       \/ /\ k > 0 /\ r[Len(r)] \in DOMAIN h
          /\ Cardinality(NotBelow(h, r[Len(r)])) >= k
Extended(routes, h) ==
    UNION {IF r[Len(r)] = Q2 THEN {r}
           ELSE {Append(r, n) : n \in Nearest(r[Len(r)], h)} : r \in routes}

LEMMA RouteStep ==
    ASSUME NEW h, NEW important, Counted(h, important), IsFiniteSet(DOMAIN h),
           GcsSuccessors(Q1) \cap DOMAIN h # {},
           NEW k \in Nat, NEW r, OnRoute(r, k, h), r[Len(r)] # Q2
    PROVE  /\ Nearest(r[Len(r)], h) # {}
           /\ \A n \in Nearest(r[Len(r)], h) : OnRoute(Append(r, n), k + 1, h)
<1> DEFINE l == r[Len(r)]
           D == DOMAIN h
<1>1. /\ r \in Seq(D \cup {Q1}) /\ Len(r) > 0 /\ Len(r) \in Nat /\ r[1] = Q1
      /\ \A i \in 1 .. (Len(r) - 1) : r[i + 1] \in GcsSuccessors(r[i])
  BY DEF OnRoute
<1>2. \/ k = 0 /\ l = Q1
      \/ k > 0 /\ l \in D /\ Cardinality(NotBelow(h, l)) >= k
  BY DEF OnRoute
<1>3. l # Q2
  OBVIOUS
<1> HIDE DEF l, D, Q1, SeenFromQ1, SeenFromQ2, Q2
<1>4. Nearest(l, h) # {} /\ Nearest(l, h) \subseteq GcsSuccessors(l) \cap D
  BY <1>2, <1>3, NearestFacts DEF D
<1>5. ASSUME NEW n \in Nearest(l, h)
      PROVE  OnRoute(Append(r, n), k + 1, h)
  <2> DEFINE q == Append(r, n)
             j == Len(r)
  <2>1. n \in D /\ n \in GcsSuccessors(l)
    BY <1>4
  <2>2. /\ q \in Seq(D \cup {Q1}) /\ Len(q) = j + 1 /\ q[j + 1] = n
        /\ \A i \in 1 .. j : q[i] = r[i]
    BY <1>1, <2>1
  <2>3. j \in Nat /\ j > 0 /\ r[j] = l
    BY <1>1 DEF l
  <2>4. ASSUME NEW i \in 1 .. j PROVE q[i + 1] \in GcsSuccessors(q[i])
    <3> HIDE DEF q
    <3>1. CASE i = j
      BY <2>1, <2>2, <2>3, <3>1
    <3>2. CASE i # j
      <4>1. i \in 1 .. (j - 1) /\ i + 1 \in 1 .. j
        BY <2>3, <3>2
      <4> QED BY <1>1, <2>2, <4>1
    <3> QED BY <3>1, <3>2
  <2>5. Cardinality(NotBelow(h, n)) >= k + 1
    <3>1. h[n] \in Nat
      BY <2>1 DEF Counted, D
    <3>2. IsFiniteSet(NotBelow(h, n))
      BY FS_Subset DEF NotBelow
    <3>3. n \in NotBelow(h, n)
      BY <2>1, <3>1 DEF NotBelow, D
    <3>4. CASE k = 0
      <4>1. IsFiniteSet({n}) /\ Cardinality({n}) = 1
        BY FS_Singleton
      <4>2. {n} \subseteq NotBelow(h, n)
        BY <3>3
      <4>3. Cardinality({n}) <= Cardinality(NotBelow(h, n))
        BY <3>2, <4>2, FS_Subset
      <4> QED BY <3>2, <3>4, <4>1, <4>3, FS_CardinalityType
    <3>5. CASE k # 0
      <4>1. l \in D /\ Cardinality(NotBelow(h, l)) >= k
        BY <1>2, <3>5
      <4>2. h[n] < h[l] /\ h[l] \in Nat
        BY <1>3, <4>1, NearestFacts DEF D, Counted
      <4>3. IsFiniteSet(NotBelow(h, l))
        BY FS_Subset DEF NotBelow
      <4>4. n \notin NotBelow(h, l)
        BY <3>1, <4>2 DEF NotBelow
      <4>5. NotBelow(h, l) \subseteq NotBelow(h, n)
        <5> SUFFICES ASSUME NEW m \in NotBelow(h, l) PROVE m \in NotBelow(h, n)
          OBVIOUS
        <5>1. m \in DOMAIN h /\ h[m] >= h[l] /\ h[m] \in Nat
          BY DEF NotBelow, Counted
        <5> QED BY <3>1, <4>2, <5>1 DEF NotBelow
      <4>6. NotBelow(h, l) \cup {n} \subseteq NotBelow(h, n)
        BY <3>3, <4>5
      <4>7. /\ IsFiniteSet(NotBelow(h, l) \cup {n})
            /\ Cardinality(NotBelow(h, l) \cup {n}) = Cardinality(NotBelow(h, l)) + 1
        BY <4>3, <4>4, FS_AddElement
      <4>8. Cardinality(NotBelow(h, l) \cup {n}) <= Cardinality(NotBelow(h, n))
        BY <3>2, <4>6, FS_Subset
      <4>9. Cardinality(NotBelow(h, l)) \in Nat /\ Cardinality(NotBelow(h, n)) \in Nat
        BY <3>2, <4>3, FS_CardinalityType
      <4> QED BY <4>1, <4>7, <4>8, <4>9
    <3> QED BY <3>4, <3>5
  <2> HIDE DEF q, j
  <2>6. q[1] = Q1 /\ Len(q) > 0 /\ Len(q) - 1 = j /\ q[Len(q)] = n
    BY <1>1, <2>2, <2>3
  <2>7. k + 1 > 0
    OBVIOUS
  <2>8. OnRoute(q, k + 1, h)
    BY <2>1, <2>2, <2>4, <2>5, <2>6, <2>7 DEF OnRoute, D
  <2> QED BY <2>8 DEF q
<1> QED BY <1>4, <1>5 DEF l

(* All have arrived when as many steps have been made as there are nodes.  *)
LEMMA RoutesArrive ==
    ASSUME GraphInv, NEW p, IsPath(p, Q2)
    PROVE  /\ GcsRoutes(p) # {}
           /\ \A r \in GcsRoutes(p) :
                 /\ r \in Seq(DOMAIN HopsFromGoal(p) \cup {Q1})
                 /\ Len(r) > 0 /\ r[1] = Q1 /\ r[Len(r)] = Q2
                 /\ \A i \in 1 .. (Len(r) - 1) : r[i + 1] \in GcsSuccessors(r[i])
<1> DEFINE h == HopsFromGoal(p)
           I == Participating(p)
           D == DOMAIN h
           C == Cardinality(D)
           S == SUBSET Seq(D \cup {Q1})
           step == [z \in (1 .. C) \X S |-> Extended(z[2], h)]
           Routes(f) == f = [k \in 0 .. C |->
              IF k = 0 THEN {<<Q1>>}
              ELSE UNION {IF r[Len(r)] = Q2 THEN {r}
                          ELSE {Append(r, n) : n \in Nearest(r[Len(r)], h)} :
                             r \in f[k - 1]}]
           routes == CHOOSE f : Routes(f)
<1>1. IsFiniteSet(I)
  BY ParticipatingFacts DEF IsPath
<1>2. Counted(h, I) /\ GcsSuccessors(Q1) \cap D # {}
  BY <1>1, HopsFacts, StartCounted
<1>3. IsFiniteSet(D) /\ C \in Nat
  <2> HIDE DEF I, h
  <2>1. IsFiniteSet(I \cup {Q2})
    BY <1>1, FS_AddElement
  <2>2. D \subseteq I \cup {Q2}
    BY <1>2 DEF Counted
  <2>3. IsFiniteSet(D)
    BY <2>1, <2>2, FS_Subset
  <2> QED BY <2>3, FS_CardinalityType
<1>4. GcsRoutes(p) = {r \in routes[C] : r[Len(r)] = Q2}
  BY DEF GcsRoutes
<1> HIDE DEF h, I, C, Q1, SeenFromQ1, SeenFromQ2, Q2
<1>5. {<<Q1>>} \in S
  <2>1. Q1 \in D \cup {Q1}
    OBVIOUS
  <2>2. <<Q1>> \in Seq(D \cup {Q1})
    BY <2>1
  <2> QED BY <2>2
<1>6. ASSUME NEW R \in S PROVE Extended(R, h) \in S
  <2> SUFFICES ASSUME NEW q \in Extended(R, h) PROVE q \in Seq(D \cup {Q1})
    OBVIOUS
  <2>1. PICK r \in R : q \in (IF r[Len(r)] = Q2 THEN {r}
                              ELSE {Append(r, n) : n \in Nearest(r[Len(r)], h)})
    BY DEF Extended
  <2>2. r \in Seq(D \cup {Q1})
    OBVIOUS
  <2>3. CASE q = r
    BY <2>2, <2>3
  <2>4. CASE q # r
    <3>1. PICK n \in Nearest(r[Len(r)], h) : q = Append(r, n)
      BY <2>1, <2>4
    <3>2. n \in D
      BY DEF Nearest
    <3> HIDE DEF D
    <3>3. Append(r, n) \in Seq(D \cup {Q1})
      BY <2>2, <3>2
    <3> QED BY <3>1, <3>3
  <2> QED BY <2>3, <2>4
<1>7. step \in [(1 .. C) \X S -> S]
  <2> SUFFICES ASSUME NEW z \in (1 .. C) \X S PROVE Extended(z[2], h) \in S
    OBVIOUS
  <2> HIDE DEF S
  <2> QED BY <1>6
<1>8. \A k \in 1 .. C : \A R \in S : step[<<k, R>>] = Extended(R, h)
  OBVIOUS
<1> HIDE DEF step, S
<1>9. PICK f \in [0 .. C -> S] :
         f[0] = {<<Q1>>} /\ \A i \in 1 .. C : f[i] = step[<<i, f[i - 1]>>]
  <2>1. Results(S, {<<Q1>>}, C, step) # {}
    BY <1>3, <1>5, <1>7, ResultsExist
  <2> QED BY <2>1 DEF Results
<1>10. Routes(f)
  <2>1. ASSUME NEW k \in 1 .. C PROVE f[k] = Extended(f[k - 1], h)
    <3>1. k - 1 \in 0 .. C
      BY <1>3
    <3> QED BY <1>8, <1>9, <3>1
  <2>2. \A k \in 0 .. C : k # 0 => k \in 1 .. C
    BY <1>3
  <2>3. \A k \in 0 .. C : f[k] = IF k = 0 THEN {<<Q1>>} ELSE Extended(f[k - 1], h)
    BY <1>9, <2>1, <2>2
  <2>4. f = [k \in 0 .. C |-> IF k = 0 THEN {<<Q1>>} ELSE Extended(f[k - 1], h)]
    BY <1>9, <2>3
  <2> QED BY <2>4 DEF Extended
<1>11. Routes(routes)
  <2> HIDE DEF Routes
  <2> QED BY <1>10
<1> HIDE DEF routes
<1>12. routes = [k \in 0 .. C |-> IF k = 0 THEN {<<Q1>>} ELSE Extended(routes[k - 1], h)]
  BY <1>11 DEF Extended
<1> HIDE DEF Routes
<1>13. /\ routes[0] = {<<Q1>>}
       /\ \A k \in Nat : k + 1 <= C => routes[k + 1] = Extended(routes[k], h)
  <2>1. 0 \in 0 .. C
    BY <1>3
  <2>2. ASSUME NEW k \in Nat, k + 1 <= C
        PROVE  routes[k + 1] = Extended(routes[k], h)
    <3>1. k + 1 \in 0 .. C /\ k + 1 # 0 /\ (k + 1) - 1 = k
      BY <1>3, <2>2
    <3> QED BY <1>12, <3>1
  <2> QED BY <1>12, <2>1, <2>2
<1> DEFINE Good(k) == routes[k] # {} /\ \A r \in routes[k] : OnRoute(r, k, h)
           K == {k \in Nat : k <= C => Good(k)}
<1>14. Good(0)
  <2>1. /\ <<Q1>> \in Seq(D \cup {Q1}) /\ Len(<<Q1>>) = 1 /\ <<Q1>>[1] = Q1
        /\ 1 .. (1 - 1) = {}
    OBVIOUS
  <2>2. OnRoute(<<Q1>>, 0, h)
    BY <2>1 DEF OnRoute
  <2> QED BY <1>13, <2>2
<1>15. ASSUME NEW k \in Nat, k + 1 <= C, Good(k) PROVE Good(k + 1)
  <2>1. routes[k + 1] = Extended(routes[k], h)
    BY <1>13, <1>15
  <2>2. ASSUME NEW r \in routes[k]
        PROVE  /\ (IF r[Len(r)] = Q2 THEN {r}
                   ELSE {Append(r, n) : n \in Nearest(r[Len(r)], h)}) # {}
               /\ \A q \in (IF r[Len(r)] = Q2 THEN {r}
                            ELSE {Append(r, n) : n \in Nearest(r[Len(r)], h)}) :
                     OnRoute(q, k + 1, h)
    <3>1. OnRoute(r, k, h)
      BY <1>15
    <3>2. CASE r[Len(r)] = Q2
      <4>1. OnRoute(r, k + 1, h)
        BY <3>1, <3>2 DEF OnRoute
      <4> QED BY <3>2, <4>1
    <3>3. CASE r[Len(r)] # Q2
      <4>1. /\ Nearest(r[Len(r)], h) # {}
            /\ \A n \in Nearest(r[Len(r)], h) : OnRoute(Append(r, n), k + 1, h)
        BY <1>2, <1>3, <3>1, <3>3, RouteStep
      <4> QED BY <3>3, <4>1
    <3> QED BY <3>2, <3>3
  <2>3. PICK r \in routes[k] : TRUE
    BY <1>15
  <2>4. Extended(routes[k], h) # {}
    BY <2>2, <2>3 DEF Extended
  <2>5. \A q \in Extended(routes[k], h) : OnRoute(q, k + 1, h)
    BY <2>2 DEF Extended
  <2> QED BY <2>1, <2>4, <2>5
<1>16. Good(C)
  <2> HIDE DEF Good
  <2>1. 0 \in K
    BY <1>14
  <2>2. ASSUME NEW k \in Nat, k \in K PROVE k + 1 \in K
    <3>1. k + 1 <= C => Good(k)
      BY <1>3, <2>2
    <3> QED BY <1>15, <3>1
  <2> HIDE DEF K
  <2>3. Nat \subseteq K
    BY <2>1, <2>2, SetInduction
  <2> QED BY <1>3, <2>3 DEF K
<1>17. ASSUME NEW r \in routes[C] PROVE OnRoute(r, C, h) /\ r[Len(r)] = Q2
  <2>1. OnRoute(r, C, h)
    BY <1>16
  <2> SUFFICES ASSUME r[Len(r)] # Q2 PROVE FALSE
    BY <2>1
  <2> DEFINE l == r[Len(r)]
             N == NotBelow(h, l)
  <2>2. Q2 \in D
    BY <1>2 DEF Counted
  <2>3. C # 0
    <3>1. D = {} <=> C = 0
      BY <1>3, FS_EmptySet DEF C
    <3> QED BY <2>2, <3>1
  <2>4. l \in D /\ Cardinality(N) >= C /\ l # Q2
    BY <2>1, <2>3 DEF OnRoute
  <2> HIDE DEF l
  <2>5. Q2 \notin N
    <3>1. h[Q2] = 0 /\ h[l] \in Nat /\ h[l] # 0
      BY <1>2, <2>2, <2>4 DEF Counted
    <3> QED BY <3>1 DEF NotBelow
  <2>6. N \subseteq D
    BY DEF NotBelow
  <2> HIDE DEF N, D
  <2>7. IsFiniteSet(N)
    BY <1>3, <2>6, FS_Subset
  <2>8. IsFiniteSet(N \cup {Q2}) /\ Cardinality(N \cup {Q2}) = Cardinality(N) + 1
    BY <2>5, <2>7, FS_AddElement
  <2>9. N \cup {Q2} \subseteq D
    BY <2>2, <2>6
  <2>10. Cardinality(N \cup {Q2}) <= C
    BY <1>3, <2>9, FS_Subset DEF C
  <2>11. Cardinality(N) \in Nat
    BY <2>7, FS_CardinalityType
  <2> QED BY <1>3, <2>4, <2>8, <2>10, <2>11
<1> QED BY <1>4, <1>16, <1>17 DEF OnRoute, h

-----------------------------------------------------------------------------
(* A route through the convex sets is a walk through regions.              *)
LEMMA RouteIsWalk ==
    ASSUME GraphInv, call.start.at \subseteq Regions,
           NEW p, IsPath(p, Q2), NEW r \in GcsRoutes(p)
    PROVE  Walk(RegionNodes, r) /\ r[Len(r)] = Q2
<1> DEFINE h == HopsFromGoal(p)
           I == Participating(p)
<1>1. samples \in Worlds
  BY DEF GraphInv
<1>2. I \subseteq RegionNodes \cup {SeenFromQ1, SeenFromQ2}
  <2>1. RegionsOf(p) \subseteq Regions
    <3> SUFFICES ASSUME NEW s \in RegionsOf(p) PROVE s \in Regions
      OBVIOUS
    <3>1. PICK k \in DOMAIN p : p[k] \in Vertices /\ s \in {p[k][1], p[k][2]}
      BY DEF RegionsOf, Touches
    <3> QED BY <1>1, <3>1, VertexFacts
  <2> QED BY <2>1 DEF Participating, RegionNodes
<1>3. DOMAIN h \subseteq I \cup {Q2}
  <2>1. IsFiniteSet(I)
    BY ParticipatingFacts DEF IsPath
  <2> QED BY <2>1, HopsFacts DEF Counted
<1>4. /\ r \in Seq(DOMAIN h \cup {Q1})
      /\ Len(r) > 0 /\ r[1] = Q1 /\ r[Len(r)] = Q2
      /\ \A i \in 1 .. (Len(r) - 1) : r[i + 1] \in GcsSuccessors(r[i])
  BY RoutesArrive
<1> HIDE DEF h, I, Q1, SeenFromQ1, SeenFromQ2, Q2
<1> DEFINE A == DOMAIN h \cup {Q1}
           B == RegionNodes \cup {Q1, SeenFromQ1, SeenFromQ2, Q2}
<1>5. A \subseteq B
  BY <1>2, <1>3
<1>6. r \in Seq(B) /\ \A i \in 1 .. Len(r) : r[i] \in B
  <2>1. r \in Seq(A)
    BY <1>4
  <2> HIDE DEF A, B
  <2> QED BY <1>5, <2>1
<1>7. ASSUME NEW i \in 1 .. (Len(r) - 1) PROVE Leads(RegionNodes, r[i], r[i + 1])
  <2> DEFINE a == r[i]
             b == r[i + 1]
  <2>1. b \in GcsSuccessors(a)
    BY <1>4
  <2>2. a \in B
    <3>1. i \in 1 .. Len(r)
      BY <1>6
    <3> QED BY <1>6, <3>1
  <2> HIDE DEF a, b
  <2>3. {<<s>> : s \in call.start.at} \subseteq RegionNodes
    BY DEF RegionNodes
  <2>4. Leads(RegionNodes, a, b)
    <3>1. CASE a = Q1
      BY <2>1, <2>3, <3>1, GcsSuccessorsOf DEF Leads
    <3>2. CASE a = SeenFromQ1
      BY <2>1, <2>3, <3>2, GcsSuccessorsOf DEF Leads
    <3>3. CASE a = SeenFromQ2
      BY <2>1, <3>3, GcsSuccessorsOf DEF Leads
    <3>4. CASE a = Q2
      BY <2>1, <3>4, GcsSuccessorsOf
    <3>5. CASE a \in RegionNodes
      <4>1. PICK s \in Regions : a = <<s>>
        BY <3>5 DEF RegionNodes
      <4>2. b \in RegionNodes \/ b = GoalEntry
        BY <2>1, <4>1, GcsSuccessorsOf DEF RegionNodes
      <4> QED BY <3>5, <4>2 DEF Leads
    <3> QED BY <2>2, <3>1, <3>2, <3>3, <3>4, <3>5
  <2> QED BY <2>4 DEF a, b
<1> QED BY <1>4, <1>6, <1>7 DEF Walk

(* Its regions overlap one after the other, from one of the start to one   *)
(* of the goal.                                                            *)
LEMMA RouteFacts ==
    ASSUME GraphInv, call.start.at \subseteq Regions,
           NEW p, IsPath(p, Q2), NEW r \in GcsRoutes(p)
    PROVE  LET c == RegionsAlong(r)
           IN  /\ Len(c) \in Nat /\ Len(c) > 0
               /\ \A k \in 1 .. (Len(c) - 1) : Overlap(c[k], c[k + 1])
               /\ c[1] \in call.start.at /\ c[Len(c)] \in call.end.at
<1> DEFINE s == Crossed(r)
           n == Len(s)
           a == Entrance
           b == Exit(r)
           c == RegionsAlong(r)
<1>1. /\ Walk(RegionNodes, r) /\ r[Len(r)] = Q2 /\ Between(RegionNodes)
      /\ \A i \in 1 .. (Len(r) - 1) : r[i + 1] \in GcsSuccessors(r[i])
  BY RouteIsWalk, RegionsApart, RoutesArrive
<1>2. /\ s \in Seq(RegionNodes) /\ n = b - a + 1 /\ n \in Nat /\ n > 0
      /\ \A i \in 1 .. n : /\ i + a - 1 \in a .. b /\ s[i] = r[i + a - 1]
                          /\ s[i] \in RegionNodes
      /\ DOMAIN s = 1 .. n
  BY <1>1, CrossedFacts
<1>3. /\ a \in 2 .. Len(r) /\ b \in 1 .. (Len(r) - 1) /\ a <= b
      /\ r[a - 1] = IF call.start.via THEN SeenFromQ1 ELSE Q1
      /\ r[b + 1] = GoalEntry
  BY <1>1, WalkShape
<1>4. Len(r) \in Nat /\ a \in Nat /\ b \in Nat
  BY <1>1, <1>3 DEF Walk
<1>5. c = [k \in 1 .. n |-> s[k][1]]
  BY <1>2 DEF RegionsAlong
<1>6. \A i \in 1 .. n : c[i] \in Regions /\ s[i] = <<c[i]>>
  <2> SUFFICES ASSUME NEW i \in 1 .. n PROVE c[i] \in Regions /\ s[i] = <<c[i]>>
    OBVIOUS
  <2>1. PICK t \in Regions : s[i] = <<t>>
    BY <1>2 DEF RegionNodes
  <2>2. c[i] = t
    BY <1>5, <2>1
  <2> QED BY <2>1, <2>2
<1>7. Len(c) = n
  <2> HIDE DEF n
  <2> QED BY <1>2, <1>5
<1> HIDE DEF a, b, c, n, s, Q1, SeenFromQ1, SeenFromQ2, Q2
<1>8. ASSUME NEW i \in 1 .. (n - 1) PROVE Overlap(c[i], c[i + 1])
  <2>1. i \in 1 .. n /\ i + 1 \in 1 .. n
    BY <1>2
  <2>2. /\ i + a - 1 \in a .. b /\ (i + 1) + a - 1 \in a .. b
        /\ s[i] = r[i + a - 1] /\ s[i + 1] = r[(i + 1) + a - 1]
    BY <1>2, <2>1
  <2>3. i + a - 1 \in 1 .. (Len(r) - 1) /\ (i + a - 1) + 1 = (i + 1) + a - 1
    BY <1>3, <1>4, <2>2
  <2>4. s[i + 1] \in GcsSuccessors(s[i])
    BY <1>1, <2>2, <2>3
  <2>5. /\ c[i] \in Regions /\ s[i] = <<c[i]>>
        /\ c[i + 1] \in Regions /\ s[i + 1] = <<c[i + 1]>>
    BY <1>6, <2>1
  <2>6. <<c[i + 1]>> # GoalEntry
    BY <1>1, <2>5 DEF Between, RegionNodes
  <2>7. <<c[i + 1]>> \in {<<t>> : t \in {t \in Regions : Overlap(c[i], t)}}
    BY <2>4, <2>5, <2>6, GcsSuccessorsOf
  <2>8. PICK t \in Regions : Overlap(c[i], t) /\ <<c[i + 1]>> = <<t>>
    BY <2>7
  <2>9. <<c[i + 1]>>[1] = c[i + 1] /\ <<t>>[1] = t
    OBVIOUS
  <2> QED BY <2>8, <2>9
<1>9. c[1] \in call.start.at
  <2>1. 1 \in 1 .. n /\ 1 + a - 1 = a
    BY <1>2, <1>4
  <2>2. s[1] = r[a] /\ s[1] = <<c[1]>> /\ c[1] \in Regions
    BY <1>2, <1>6, <2>1
  <2>3. a - 1 \in 1 .. (Len(r) - 1) /\ (a - 1) + 1 = a
    BY <1>3, <1>4
  <2>4. <<c[1]>> \in GcsSuccessors(r[a - 1])
    BY <1>1, <2>2, <2>3
  <2>5. <<c[1]>> # SeenFromQ1
    BY <1>1, <2>2 DEF Between, RegionNodes
  <2>6. <<c[1]>> \in {<<t>> : t \in call.start.at}
    BY <1>3, <2>4, <2>5, GcsSuccessorsOf
  <2>7. PICK t \in call.start.at : <<c[1]>> = <<t>>
    BY <2>6
  <2>8. <<c[1]>>[1] = c[1] /\ <<t>>[1] = t
    OBVIOUS
  <2> QED BY <2>7, <2>8
<1>10. c[n] \in call.end.at
  <2>1. n \in 1 .. n /\ n + a - 1 = b
    BY <1>2, <1>4
  <2>2. s[n] = r[b] /\ s[n] = <<c[n]>> /\ c[n] \in Regions
    BY <1>2, <1>6, <2>1
  <2>3. GoalEntry \in GcsSuccessors(<<c[n]>>)
    BY <1>1, <1>3, <2>2
  <2>4. GoalEntry \notin {<<t>> : t \in {t \in Regions : Overlap(c[n], t)}}
    BY <1>1 DEF Between, RegionNodes
  <2> QED BY <2>2, <2>3, <2>4, GcsSuccessorsOf
<1> QED BY <1>2, <1>7, <1>8, <1>9, <1>10 DEF c

(* The chain of regions for the convex hulls: it is refused only when it   *)
(* is a single region and the goal is outside.                             *)
LEMMA HullsFacts ==
    ASSUME GraphInv, NEW p, IsPath(p, Q2)
    PROVE  LET c == HullChain(Crossed(p))
               n == Len(c)
           IN  /\ n \in Nat /\ n > 0
               /\ \A k \in 1 .. (n - 1) : Overlap(c[k], c[k + 1])
               /\ EndsAt(c, call.start, 1, IF n > 1 THEN 2 ELSE 1)
               /\ EndsAt(c, call.end, n, IF n > 1 THEN n - 1 ELSE n)
               /\ ~HullsConnect(c) => n = 1 /\ call.end.via
<1> DEFINE q == Crossed(p)
           m == Len(q)
           c == HullChain(q)
           n == Len(c)
<1>1. samples \in Worlds
  BY DEF GraphInv
<1>2. /\ Corridor(q) /\ q[1] \in At(call.start.at) /\ q[m] \in At(call.end.at)
  BY CrossedIsCorridor
<1>3. m \in Nat /\ m > 0
  BY <1>2 DEF Corridor
<1> HIDE DEF q
<1>4. /\ c \in Seq(Regions)
      /\ IF m = 1 /\ q[1][1] = q[1][2]
         THEN n = 1 /\ c[1] \in Touches(q[1])
         ELSE /\ n = m + 1
              /\ \A i \in 1 .. m : /\ {c[i], c[i + 1]} = Touches(q[i])
                                   /\ Overlap(c[i], c[i + 1])
  BY <1>1, <1>2, ChainFacts
<1>5. Touches(q[1]) \cap call.start.at # {} /\ Touches(q[m]) \cap call.end.at # {}
  BY <1>2 DEF At
<1> HIDE DEF c, n, m
<1>6. CASE m = 1 /\ q[1][1] = q[1][2]
  <2>1. n = 1 /\ c[1] \in Touches(q[1])
    BY <1>4, <1>6
  <2>2. Touches(q[1]) = {c[1]}
    BY <1>6, <2>1 DEF Touches
  <2>3. c[1] \in call.start.at /\ c[1] \in call.end.at
    BY <1>5, <1>6, <2>2
  <2>4. HasHulls(c)
    <3>1. 2 .. (Len(c) - 1) = {}
      BY <2>1 DEF n
    <3> QED BY <3>1 DEF HasHulls
  <2> QED BY <2>1, <2>3, <2>4 DEF HullsConnect, EndsAt, n, c, q
<1>7. CASE ~(m = 1 /\ q[1][1] = q[1][2])
  <2>1. /\ n = m + 1
        /\ \A i \in 1 .. m : /\ {c[i], c[i + 1]} = Touches(q[i])
                             /\ Overlap(c[i], c[i + 1])
    BY <1>4, <1>7
  <2>2. n \in Nat /\ n > 1 /\ n - 1 = m /\ 1 \in 1 .. m /\ m \in 1 .. m
    BY <1>3, <2>1
  <2>3. {c[1], c[2]} = Touches(q[1]) /\ {c[m], c[n]} = Touches(q[m])
    BY <2>1, <2>2
  <2>4. EndsAt(c, call.start, 1, 2) /\ EndsAt(c, call.end, n, n - 1)
    BY <1>5, <2>2, <2>3 DEF EndsAt
  <2>5. ASSUME NEW k \in 2 .. (n - 1)
        PROVE  Overlap(c[k - 1], c[k]) /\ Overlap(c[k], c[k + 1])
    <3>1. k \in 1 .. m /\ k - 1 \in 1 .. m /\ (k - 1) + 1 = k
      BY <2>2
    <3> QED BY <2>1, <3>1
  <2>6. HullsConnect(c)
    <3>1. HasHulls(c)
      BY <2>5 DEF HasHulls, n
    <3>2. n # 1
      BY <2>2
    <3> QED BY <3>1, <3>2 DEF HullsConnect, n
  <2> QED BY <2>1, <2>2, <2>4, <2>6 DEF n, c, q
<1> QED BY <1>6, <1>7

-----------------------------------------------------------------------------
RouteInv == IInv /\ PathInv /\ SolverGetsARoute

(* A configuration that is placed gives a terminal at regions.             *)
LEMMA TerminalTyped ==
    ASSUME NEW q \in Configs, Placed(q), NEW type \in {"start", "end"}
    PROVE  Terminal(q, type, TRUE) \in Terminals
<1>1. q.in \in SUBSET Regions /\ q.sees \in Regions \cup {0}
  BY ConfigsAssumption
<1>2. (IF q.in # {} THEN q.in ELSE {q.sees}) \in SUBSET Regions
  BY <1>1 DEF Placed
<1> QED BY <1>2 DEF Terminal, Terminals

LEMMA BeginPathInv ==
    ASSUME IInv, NEW q1 \in Configs, NEW q2 \in Configs, Begin(q1, q2)
    PROVE  PathInv'
<1>1. /\ call' = [start |-> Terminal(q1, "start", TRUE),
                  end |-> Terminal(q2, "end", TRUE),
                  found |-> [n \in {Q1} |-> <<Q1>>], open |-> {Q1}]
      /\ Placed(q1) /\ Placed(q2)
  BY DEF Begin
<1>2. call'.start \in Terminals /\ call'.end \in Terminals
  BY <1>1, TerminalTyped
<1>3. DOMAIN call'.found = {Q1} /\ call'.found[Q1] = <<Q1>> /\ Visited' = {}
  BY <1>1 DEF Visited
<1>4. ASSUME NEW p, p = <<Q1>> PROVE IsPath(p, Q1)'
  <2>1. p \in Seq(Nodes') /\ Len(p) = 1 /\ p[1] = Q1
    <3>1. Q1 \in Nodes'
      BY DEF Nodes
    <3> HIDE DEF Q1
    <3> QED BY <1>4, <3>1
  <2> HIDE DEF Q1
  <2>2. \A k \in 1 .. (Len(p) - 1) : FALSE
    BY <2>1
  <2>3. \A k \in 1 .. Len(p) : \A j \in 1 .. Len(p) : ~(k < j)
    BY <2>1
  <2> QED BY <2>1, <2>2, <2>3 DEF IsPath
<1> QED BY <1>2, <1>3, <1>4 DEF PathInv

LEMMA StutterPathInv ==
    ASSUME PathInv, UNCHANGED gcsVars
    PROVE  PathInv' /\ (SolverGetsARoute => SolverGetsARoute')
<1>1. Vertices' = Vertices /\ Nodes' = Nodes /\ Visited' = Visited
  BY DEF gcsVars, Vertices, Meets, Nodes, Visited
<1>2. \A a : Successors(a, edges)' = Successors(a, edges)
  BY <1>1 DEF gcsVars, Successors, EntryOf, At
<1>3. \A p, w : IsPath(p, w) => IsPath(p, w)'
  BY <1>1, <1>2 DEF IsPath, gcsVars, Touches
<1>4. PathInv'
  BY <1>1, <1>3 DEF PathInv, gcsVars
<1>5. SolverGetsARoute => SolverGetsARoute'
  BY DEF SolverGetsARoute, EndsAt, Overlap, Touches, gcsVars
<1> QED BY <1>4, <1>5

LEMMA OptimalPathRoute ==
    ASSUME IInv, PathInv, OptimalPath
    PROVE  SolverGetsARoute'
<1> DEFINE p == call.found[Q2]
<1>1. call # Idle /\ Q2 \in call.open
  BY DEF OptimalPath, Found, Idle
<1>2. IsPath(p, Q2) /\ GraphInv /\ call.start.at \subseteq Regions
  BY <1>1 DEF IInv, SearchInv, PathInv, Terminals
<1>3. GcsRoutes(p) # {}
  BY <1>2, RoutesArrive
<1>4. PICK r \in GcsRoutes(p) : Close("path", RegionsAlong(r))
  BY <1>3 DEF OptimalPath
<1> DEFINE c == RegionsAlong(r)
           n == Len(c)
<1>5. /\ n \in Nat /\ n > 0
      /\ \A k \in 1 .. (n - 1) : Overlap(c[k], c[k + 1])
      /\ c[1] \in call.start.at /\ c[n] \in call.end.at
  BY <1>2, RouteFacts
<1>6. /\ answer'.outcome = "path" /\ answer'.regions = c
      /\ answer'.start = call.start /\ answer'.end = call.end
  BY <1>4 DEF Close
<1>7. samples' = samples
  BY DEF OptimalPath, Fixed
<1> HIDE DEF c, p
<1> QED BY <1>5, <1>6, <1>7 DEF SolverGetsARoute, EndsAt, Overlap, Touches

LEMMA HullPathRoute ==
    ASSUME IInv, PathInv, HullPath
    PROVE  SolverGetsARoute'
<1> DEFINE p == call.found[Q2]
           c == HullChain(Crossed(p))
           n == Len(c)
<1>1. call # Idle /\ Q2 \in call.open
  <2>1. Found
    BY DEF HullPath
  <2> QED BY <2>1 DEF Found, Idle
<1>2. IsPath(p, Q2) /\ GraphInv
  BY <1>1 DEF IInv, SearchInv, PathInv
<1>3. /\ n \in Nat /\ n > 0
      /\ \A k \in 1 .. (n - 1) : Overlap(c[k], c[k + 1])
      /\ EndsAt(c, call.start, 1, IF n > 1 THEN 2 ELSE 1)
      /\ EndsAt(c, call.end, n, IF n > 1 THEN n - 1 ELSE n)
      /\ ~HullsConnect(c) => n = 1 /\ call.end.via
  BY <1>2, HullsFacts
<1>4. IF HullsConnect(c) THEN Close("hulls", c) ELSE Close("no hulls", c)
  BY DEF HullPath
<1> HIDE DEF c, p
<1>5. /\ answer'.outcome = IF HullsConnect(c) THEN "hulls" ELSE "no hulls"
      /\ answer'.regions = c
      /\ answer'.start = call.start /\ answer'.end = call.end
  <2>1. CASE HullsConnect(c)
    <3>1. Close("hulls", c)
      BY <1>4, <2>1
    <3> QED BY <2>1, <3>1 DEF Close
  <2>2. CASE ~HullsConnect(c)
    <3>1. Close("no hulls", c)
      BY <1>4, <2>2
    <3> QED BY <2>2, <3>1 DEF Close
  <2> QED BY <2>1, <2>2
<1>6. samples' = samples
  BY DEF HullPath, Fixed
<1> QED BY <1>3, <1>5, <1>6 DEF SolverGetsARoute, EndsAt, Overlap, Touches

LEMMA RouteNext == RouteInv /\ [GcsNext]_gcsVars => RouteInv'
<1> SUFFICES ASSUME RouteInv, [GcsNext]_gcsVars PROVE RouteInv'
  OBVIOUS
<1>0. IInv /\ PathInv /\ SolverGetsARoute /\ IInv'
  BY NextInv DEF RouteInv
<1> SUFFICES PathInv' /\ SolverGetsARoute'
  BY <1>0 DEF RouteInv
<1>1. ASSUME answer' = NoAnswer PROVE SolverGetsARoute'
  BY <1>1 DEF NoAnswer, SolverGetsARoute
<1>2. ASSUME NEW outcome, NEW along, Close(outcome, along)
      PROVE  PathInv'
  BY <1>2 DEF Close, PathInv
<1>3. ASSUME NEW q1 \in Configs, NEW q2 \in Configs, Begin(q1, q2)
      PROVE  PathInv' /\ SolverGetsARoute'
  BY <1>0, <1>1, <1>3, BeginPathInv DEF Begin
<1>4. ASSUME NEW q1 \in Configs, NEW q2 \in Configs,
             GiveUp(q1, q2) \/ StartFails(q1) \/ EndFails(q1, q2)
      PROVE  PathInv' /\ SolverGetsARoute'
  <2>1. call' = Idle /\ answer' = NoAnswer
    BY <1>4 DEF GiveUp, StartFails, EndFails, Ready
  <2> QED BY <1>1, <2>1 DEF PathInv
<1>5. ASSUME NEW v \in Nodes, Visit(v)
      PROVE  PathInv' /\ SolverGetsARoute'
  <2>1. SolverGetsARoute'
    <3>1. UNCHANGED <<samples, answer>>
      BY <1>0, <1>5, VisitFacts
    <3> QED BY <1>0, <3>1 DEF SolverGetsARoute, EndsAt, Overlap, Touches
  <2> QED BY <1>0, <1>5, <2>1, VisitPathInv
<1>6. CASE NoPath
  <2>1. SolverGetsARoute'
    BY <1>6 DEF NoPath, Close, SolverGetsARoute
  <2> QED BY <1>2, <1>6, <2>1 DEF NoPath
<1>7. CASE EstimateLength
  <2>1. SolverGetsARoute'
    BY <1>7 DEF EstimateLength, Close, SolverGetsARoute
  <2> QED BY <1>2, <1>7, <2>1 DEF EstimateLength
<1>8. CASE OptimalPath
  BY <1>0, <1>2, <1>8, OptimalPathRoute DEF OptimalPath
<1>9. CASE HullPath
  BY <1>0, <1>2, <1>9, HullPathRoute DEF HullPath
<1>10. CASE UNCHANGED gcsVars
  BY <1>0, <1>10, StutterPathInv
<1> QED BY <1>3, <1>4, <1>5, <1>6, <1>7, <1>8, <1>9, <1>10 DEF GcsNext

(* What the solver is given leads from the start to the goal: the hops of  *)
(* ConvertToGcsVertices never run out before the goal, and the regions of  *)
(* ConvertToCHullVertices overlap one after the other.                     *)
THEOREM RoutesReachTheGoal == GcsSpec => []SolverGetsARoute
<1>1. GcsInit => RouteInv
  <2> SUFFICES ASSUME GcsInit PROVE RouteInv
    OBVIOUS
  <2>1. PathInv
    BY DEF GcsInit, PathInv
  <2>2. SolverGetsARoute
    BY DEF GcsInit, SolverGetsARoute, NoAnswer
  <2> QED BY <2>1, <2>2, InitInv DEF RouteInv
<1>2. RouteInv => SolverGetsARoute
  BY DEF RouteInv
<1> QED BY <1>1, <1>2, RouteNext, PTL DEF GcsSpec

HIDE DEF Q1, SeenFromQ1, SeenFromQ2, Q2, GoalEntry

-----------------------------------------------------------------------------
(* The first n members of a sequence.                                      *)
Members(s, n) == {s[i] : i \in 1 .. n}

(* A list without the repetitions next to each other, cut off at a number: *)
(* it holds what a beginning of the list holds, and all if it is shorter.  *)
LEMMA DistinctFacts ==
    ASSUME NEW S, NEW confs \in Seq(S), NEW num \in Nat \ {0}
    PROVE  LET d == Distinct(confs, num)
           IN  /\ d \in Seq(S) /\ Len(d) <= num
               /\ confs # <<>> => d # <<>>
               /\ \E m \in 0 .. Len(confs) :
                     /\ Members(d, Len(d)) = Members(confs, m)
                     /\ Len(d) <= m
                     /\ m = Len(confs) \/ Len(d) = num
<1> DEFINE n == Len(confs)
           Add(i, k) == IF Len(k) = num \/ (i > 1 /\ confs[i] = k[Len(k)])
                          THEN k ELSE Append(k, confs[i])
           step == [z \in (1 .. n) \X Seq(S) |-> Add(z[1], z[2])]
           Steps(retained) == retained = [i \in 0 .. n |->
                            IF i = 0 THEN <<>>
                            ELSE IF Len(retained[i - 1]) = num
                                    \/ (i > 1 /\ confs[i] = retained[i - 1][Len(retained[i - 1])])
                                 THEN retained[i - 1] ELSE Append(retained[i - 1], confs[i])]
           retained == CHOOSE retained : Steps(retained)
<1>1. n \in Nat /\ \A i \in 1 .. n : confs[i] \in S
  OBVIOUS
<1>2. \A i \in 1 .. n : \A k \in Seq(S) : Add(i, k) \in Seq(S)
  BY <1>1
<1>3. step \in [(1 .. n) \X Seq(S) -> Seq(S)]
  <2> SUFFICES ASSUME NEW z \in (1 .. n) \X Seq(S) PROVE Add(z[1], z[2]) \in Seq(S)
    OBVIOUS
  <2> HIDE DEF Add
  <2> QED
    BY <1>2
<1>4. \A i \in 1 .. n : \A k \in Seq(S) : step[<<i, k>>] = Add(i, k)
  OBVIOUS
<1> HIDE DEF step, Add
<1>5. PICK f \in [0 .. n -> Seq(S)] :
              f[0] = <<>> /\ \A i \in 1 .. n : f[i] = step[<<i, f[i - 1]>>]
  <2>1. Results(Seq(S), <<>>, n, step) # {}
    <3>1. <<>> \in Seq(S)
      OBVIOUS
    <3> QED
      BY <1>1, <1>3, <3>1, ResultsExist
  <2> QED
    BY <2>1 DEF Results
<1>6. \A i \in 1 .. n : f[i] = Add(i, f[i - 1])
  <2> SUFFICES ASSUME NEW i \in 1 .. n PROVE f[i] = Add(i, f[i - 1])
    OBVIOUS
  <2>1. i - 1 \in 0 .. n
    BY <1>1
  <2> QED
    BY <1>4, <1>5, <2>1
<1>7. Steps(f)
  <2>1. \A i \in 0 .. n : i # 0 => i \in 1 .. n
    BY <1>1
  <2> QED
    BY <1>5, <1>6, <2>1 DEF Add
<1>8. Steps(retained)
  <2> HIDE DEF Steps
  <2> QED
    BY <1>7
<1>9. Distinct(confs, num) = retained[n]
  BY DEF Distinct
<1> HIDE DEF retained
<1>10. retained[0] = <<>> /\ \A i \in 1 .. n : retained[i] = Add(i, retained[i - 1])
  <2>1. 0 \in 0 .. n /\ \A i \in 1 .. n : i \in 0 .. n /\ i # 0
    BY <1>1
  <2> QED
    BY <1>8, <2>1 DEF Add
<1> DEFINE Begins(k, i) ==
             \E m \in 0 .. i : /\ Members(k, Len(k)) = Members(confs, m)
                               /\ Len(k) <= m
                               /\ m = i \/ Len(k) = num
           Good(i) == /\ retained[i] \in Seq(S) /\ Len(retained[i]) <= num
                      /\ i > 0 => retained[i] # <<>>
                      /\ Begins(retained[i], i)
           K == {i \in Nat : i <= n => Good(i)}
<1>11. Good(0)
  <2>1. Members(<<>>, 0) = {} /\ Members(confs, 0) = {} /\ Len(<<>>) = 0 /\ 0 \in 0 .. 0
    BY DEF Members
  <2>2. Begins(<<>>, 0)
    BY <2>1
  <2> HIDE DEF Begins
  <2> QED
    BY <1>10, <2>1, <2>2
<1>12. ASSUME NEW i \in Nat, i + 1 <= n, Good(i) PROVE Good(i + 1)
  <2> DEFINE k == retained[i]
             c == confs[i + 1]
             l == retained[i + 1]
  <2>1. i + 1 \in 1 .. n /\ (i + 1) - 1 = i
    BY <1>1, <1>12
  <2>2. l = Add(i + 1, k) /\ c \in S
    BY <1>1, <1>10, <2>1
  <2>3. k \in Seq(S) /\ Len(k) \in Nat /\ Len(k) <= num /\ (i > 0 => k # <<>>)
    BY <1>12
  <2>4. PICK m \in 0 .. i : /\ Members(k, Len(k)) = Members(confs, m)
                            /\ Len(k) <= m /\ (m = i \/ Len(k) = num)
    BY <1>12
  <2>5. m \in 0 .. (i + 1) /\ i + 1 \in 0 .. (i + 1)
    OBVIOUS
  <2>6. Members(confs, i + 1) = Members(confs, i) \cup {c}
    <3>1. \A j \in 1 .. (i + 1) : j \in 1 .. i \/ j = i + 1
      OBVIOUS
    <3>2. i + 1 \in 1 .. (i + 1) /\ \A j \in 1 .. i : j \in 1 .. (i + 1)
      OBVIOUS
    <3> QED
      BY <3>1, <3>2 DEF Members
  <2> HIDE DEF k, c, l
  <2>7. CASE Len(k) = num
    <3>1. l = k
      BY <2>2, <2>7 DEF Add
    <3> QED
      BY <2>3, <2>4, <2>5, <2>7, <3>1 DEF k, l
  <2>8. CASE Len(k) # num /\ i + 1 > 1 /\ c = k[Len(k)]
    <3>1. l = k
      BY <2>2, <2>8 DEF Add, c
    <3>2. Len(k) \in 1 .. Len(k)
      <4>1. k # <<>>
        BY <2>3, <2>8
      <4> QED
        BY <2>3, <4>1
    <3>3. c \in Members(k, Len(k))
      BY <2>8, <3>2 DEF Members
    <3>4. m = i
      BY <2>4, <2>8
    <3>5. Members(k, Len(k)) = Members(confs, i + 1)
      BY <2>4, <2>6, <3>3, <3>4
    <3>6. Len(k) <= i + 1
      BY <2>3, <2>4
    <3> QED
      BY <2>3, <2>5, <2>8, <3>1, <3>5, <3>6 DEF k, l
  <2>9. CASE Len(k) # num /\ ~(i + 1 > 1 /\ c = k[Len(k)])
    <3>1. l = Append(k, c)
      BY <2>2, <2>9 DEF Add, c
    <3>2. l \in Seq(S) /\ Len(l) = Len(k) + 1 /\ l # <<>>
          /\ \A j \in 1 .. Len(k) : l[j] = k[j]
          /\ l[Len(k) + 1] = c
      <4>1. Append(k, c) \in Seq(S) /\ Len(Append(k, c)) = Len(k) + 1
            /\ \A j \in 1 .. Len(k) : Append(k, c)[j] = k[j]
            /\ Append(k, c)[Len(k) + 1] = c
        BY <2>2, <2>3
      <4>2. Len(Append(k, c)) # 0
        BY <2>3, <4>1
      <4>3. Append(k, c) # <<>>
        BY <4>2
      <4> QED
        BY <3>1, <4>1, <4>3
    <3>3. Members(l, Len(k) + 1) = Members(k, Len(k)) \cup {c}
      <4>1. \A j \in 1 .. (Len(k) + 1) : j \in 1 .. Len(k) \/ j = Len(k) + 1
        BY <2>3
      <4>2. Len(k) + 1 \in 1 .. (Len(k) + 1)
            /\ \A j \in 1 .. Len(k) : j \in 1 .. (Len(k) + 1)
        BY <2>3
      <4> QED
        BY <3>2, <4>1, <4>2 DEF Members
    <3>4. m = i
      BY <2>4, <2>9
    <3>5. Members(l, Len(l)) = Members(confs, i + 1)
      BY <2>4, <2>6, <3>2, <3>3, <3>4
    <3>6. Len(l) <= i + 1 /\ Len(l) <= num
      BY <2>3, <2>4, <2>9, <3>2
    <3> QED
      BY <2>5, <3>2, <3>5, <3>6 DEF l
  <2> QED
    BY <2>7, <2>8, <2>9
<1>13. Nat \subseteq K
  <2>1. 0 \in K
    BY <1>11
  <2>2. ASSUME NEW k \in Nat, k \in K PROVE k + 1 \in K
    <3> HIDE DEF Good
    <3>1. k + 1 <= n => Good(k)
      BY <1>1, <2>2
    <3> QED
      BY <1>12, <3>1
  <2> HIDE DEF K
  <2> QED
    BY <2>1, <2>2, SetInduction
<1>14. Good(n)
  <2> HIDE DEF Good
  <2> QED
    BY <1>1, <1>13
<1>15. confs # <<>> => n > 0
  BY <1>1
<1>16. /\ retained[n] \in Seq(S) /\ Len(retained[n]) <= num
       /\ confs # <<>> => retained[n] # <<>>
       /\ Begins(retained[n], n)
  BY <1>14, <1>15
<1> QED
  BY <1>9, <1>16

(* An order is a permutation, and in one that sorts, what comes later is   *)
(* no closer.                                                              *)
LEMMA OrderFacts ==
    ASSUME NEW n \in Nat, NEW s \in Orders(n)
    PROVE  /\ s \in [1 .. n -> 1 .. n]
           /\ \A j \in 1 .. n : \E i \in 1 .. n : s[i] = j
<1>1. s \in [1 .. n -> 1 .. n] /\ \A i, j \in 1 .. n : s[i] = s[j] => i = j
  BY DEF Orders
<1>2. IsFiniteSet(1 .. n)
  BY FS_Interval
<1>3. s \in Injection(1 .. n, 1 .. n)
  BY <1>1, Fun_IsInj
<1>4. s \in Surjection(1 .. n, 1 .. n)
  BY <1>2, <1>3, FS_Injection
<1>5. \A j \in 1 .. n : \E i \in 1 .. n : s[i] = j
  BY <1>4 DEF Surjection
<1> QED
  BY <1>1, <1>5

LEMMA SortedFacts ==
    ASSUME NEW n \in Nat, NEW d \in [1 .. n -> Nat], NEW s \in SortedBy(d)
    PROVE  /\ s \in Orders(n)
           /\ \A i, j \in 1 .. n : i <= j => d[s[i]] <= d[s[j]]
<1>1. Len(d) = n
  OBVIOUS
<1>2. s \in Orders(n) /\ \A i \in 1 .. n - 1 : d[s[i]] <= d[s[i + 1]]
  BY <1>1 DEF SortedBy
<1>3. s \in [1 .. n -> 1 .. n]
  BY <1>2, OrderFacts
<1> DEFINE x(i) == d[s[i]]
<1>4. \A i \in 1 .. n : x(i) \in Nat
  BY <1>3
<1>5. \A i \in 1 .. n - 1 : x(i) <= x(i + 1)
  BY <1>2
<1> HIDE DEF x
<1> SUFFICES ASSUME NEW i \in 1 .. n, NEW j \in 1 .. n, i <= j PROVE x(i) <= x(j)
  BY <1>2 DEF x
<1> DEFINE K == {k \in Nat : i + k <= n => x(i) <= x(i + k)}
<1>6. 0 \in K
  BY <1>4
<1>7. ASSUME NEW k \in Nat, k \in K PROVE k + 1 \in K
  <2> SUFFICES ASSUME i + (k + 1) <= n PROVE x(i) <= x(i + (k + 1))
    OBVIOUS
  <2>1. i + k <= n /\ i + k \in 1 .. n - 1 /\ (i + k) + 1 = i + (k + 1)
    OBVIOUS
  <2>2. x(i) <= x(i + k)
    BY <1>7, <2>1
  <2>3. x(i + k) <= x(i + (k + 1))
    BY <1>5, <2>1
  <2>4. x(i) \in Nat /\ x(i + k) \in Nat /\ x(i + (k + 1)) \in Nat
    <3>1. i + k \in 1 .. n /\ i + (k + 1) \in 1 .. n
      BY <2>1
    <3> QED
      BY <1>4, <3>1
  <2> QED
    BY <2>2, <2>3, <2>4
<1>8. Nat \subseteq K
  <2> HIDE DEF K
  <2> QED
    BY <1>6, <1>7, SetInduction
<1>9. j - i \in Nat /\ i + (j - i) = j
  OBVIOUS
<1>10. j - i \in K
  BY <1>8, <1>9
<1> QED
  BY <1>9, <1>10

TakesClosest(near, S, n, confs, d, num) ==
    LET all == Members(confs, n)
        retained == Members(near, Len(near))
    IN  /\ near \in Seq(S) /\ (n > 0 => near # <<>>)
        /\ retained \subseteq all
        /\ num = n => retained = all
        /\ \A W \in [S -> Nat] :
             (\A i \in 1 .. n : d[i] = W[confs[i]]) =>
               \A c \in all \ retained, e \in retained : W[e] <= W[c]

(* Taking distinct configurations in the order of their weight, none that  *)
(* is left out weighs less than one that is taken.                         *)
LEMMA ClosestFirst ==
    ASSUME NEW S, NEW n \in Nat, NEW confs \in [1 .. n -> S],
           NEW d \in [1 .. n -> Nat], NEW s \in SortedBy(d), NEW num \in Nat \ {0},
           NEW order \in [1 .. n -> S], \A i \in 1 .. n : order[i] = confs[s[i]]
    PROVE  TakesClosest(Distinct(order, num), S, n, confs, d, num)
<1> DEFINE near == Distinct(order, num)
           all == Members(confs, n)
           retained == Members(near, Len(near))
<1>1. s \in [1 .. n -> 1 .. n] /\ \A j \in 1 .. n : \E i \in 1 .. n : s[i] = j
  BY SortedFacts, OrderFacts, ZenonT(60)
<1>2. order \in Seq(S) /\ Len(order) = n
  BY <1>1
<1>3. \A i \in 1 .. n : order[i] = confs[s[i]]
  OBVIOUS
<1>4. n > 0 => order # <<>>
  <2>1. Len(<<>>) = 0
    OBVIOUS
  <2> QED
    BY <1>2, <2>1
<1>5. near \in Seq(S) /\ (order # <<>> => near # <<>>) /\ Len(near) <= num
  BY <1>2, DistinctFacts
<1>6. PICK m \in 0 .. n : /\ retained = Members(order, m)
                          /\ Len(near) <= m
                          /\ (m = n \/ Len(near) = num)
  BY <1>2, DistinctFacts
<1> HIDE DEF near
<1>7. \A i \in 1 .. m : i \in 1 .. n
  OBVIOUS
<1>8. all = Members(order, n)
  <2>1. ASSUME NEW j \in 1 .. n PROVE confs[j] \in Members(order, n)
    <3>1. PICK i \in 1 .. n : s[i] = j
      BY <1>1
    <3> QED
      BY <1>3, <3>1 DEF Members
  <2>2. ASSUME NEW i \in 1 .. n PROVE order[i] \in all
    BY <1>1, <1>3 DEF Members
  <2> QED
    BY <2>1, <2>2 DEF Members
<1>9. retained \subseteq all
  BY <1>6, <1>7, <1>8 DEF Members
<1>10. num = n => retained = all
  <2> SUFFICES ASSUME num = n PROVE m = n
    BY <1>6, <1>8
  <2> QED
    BY <1>5, <1>6
<1>11. ASSUME NEW W \in [S -> Nat], \A i \in 1 .. n : d[i] = W[confs[i]],
              NEW c \in all \ retained, NEW e \in retained
       PROVE  W[e] <= W[c]
  <2>1. PICK i \in 1 .. m : e = order[i]
    BY <1>6 DEF Members
  <2>2. PICK j \in 1 .. n : c = order[j]
    BY <1>8 DEF Members
  <2>3. ~(j \in 1 .. m)
    BY <1>6, <2>2 DEF Members
  <2>4. i <= j /\ i \in 1 .. n
    BY <2>3
  <2>5. d[s[i]] <= d[s[j]]
    BY <2>4, SortedFacts
  <2>6. d[s[i]] = W[e] /\ d[s[j]] = W[c]
    BY <1>1, <1>3, <1>11, <2>1, <2>2, <2>4
  <2> QED
    BY <2>5, <2>6
<1> HIDE DEF retained, all
<1>12. /\ near \in Seq(S) /\ (n > 0 => near # <<>>)
       /\ retained \subseteq all
       /\ num = n => retained = all
       /\ \A W \in [S -> Nat] :
            (\A i \in 1 .. n : d[i] = W[confs[i]]) =>
              \A c \in all \ retained, e \in retained : W[e] <= W[c]
  BY <1>4, <1>5, <1>9, <1>10, <1>11
<1> QED
  BY <1>12 DEF near, retained, all, TakesClosest

(* The permutation of a list has its members.                              *)
LEMMA PermutedMembers ==
    ASSUME NEW S, NEW n \in Nat, NEW confs \in [1 .. n -> S], NEW s \in Orders(n)
    PROVE  LET p == [i \in 1 .. n |-> confs[s[i]]]
           IN  p \in Seq(S) /\ Len(p) = n /\ Members(p, n) = Members(confs, n)
<1> DEFINE p == [i \in 1 .. n |-> confs[s[i]]]
<1>1. s \in [1 .. n -> 1 .. n] /\ \A j \in 1 .. n : \E i \in 1 .. n : s[i] = j
  BY OrderFacts
<1>2. p \in Seq(S) /\ Len(p) = n /\ \A i \in 1 .. n : p[i] = confs[s[i]]
  BY <1>1
<1> HIDE DEF p
<1>3. Members(p, n) = Members(confs, n)
  <2>1. ASSUME NEW j \in 1 .. n PROVE confs[j] \in Members(p, n)
    <3>1. PICK i \in 1 .. n : s[i] = j
      BY <1>1
    <3> QED
      BY <1>2, <3>1 DEF Members
  <2>2. ASSUME NEW i \in 1 .. n PROVE p[i] \in Members(confs, n)
    BY <1>1, <1>2 DEF Members
  <2> QED
    BY <2>1, <2>2 DEF Members
<1> QED
  BY <1>2, <1>3 DEF p

CachedPoses == [conf : IkConfs, offset : FrameOffsets]
Failures == {"none", "numerical", "general", "near singularity", "near joint limits",
             "near both", "optimization collision", "collision"}
IkResults == [success : BOOLEAN, collision : Collisions \cup {"unset", "none"},
              failure : Failures]

LEMMA CandidateFacts ==
    ASSUME ikCache \in Seq(IkConfs)
    PROVE  /\ Candidates \in [1 .. Len(ikCache) + 1 -> IkConfs]
           /\ Candidates \in Seq(IkConfs) /\ Len(Candidates) = Len(ikCache) + 1
           /\ Candidates[1] = Reference
           /\ \A i \in 2 .. Len(ikCache) + 1 : Candidates[i] = ikCache[i - 1]
<1>1. <<Reference>> \in Seq(IkConfs) /\ Len(<<Reference>>) = 1 /\ <<Reference>>[1] = Reference
  BY ReachAssumption
<1>2. Candidates \in Seq(IkConfs) /\ Len(Candidates) = Len(ikCache) + 1
  BY <1>1 DEF Candidates
<1>3. Candidates[1] = Reference
  BY <1>1 DEF Candidates
<1>4. ASSUME NEW i \in 2 .. Len(ikCache) + 1 PROVE Candidates[i] = ikCache[i - 1]
  BY <1>1 DEF Candidates
<1> QED
  BY <1>2, <1>3, <1>4

(* What a call is given to try: some of the candidates, and while the      *)
(* cached poses are those of the frame, none is closer than those.         *)
LEMMA ChosenFacts ==
    ASSUME ikOptions \in IkOptionSets, ikCache \in Seq(IkConfs), offset \in FrameOffsets,
           NEW poses \in Seq(CachedPoses), Len(poses) = Len(ikCache),
           \A i \in 1 .. Len(ikCache) : poses[i].conf = ikCache[i],
           NEW c \in IF ikOptions.twoSteps THEN CalcClosestSeed2Steps(poses)
                     ELSE CalcClosestSeed1Step(poses)
    PROVE  LET all == Members(Candidates, Len(Candidates))
               retained == Members(c, Len(c))
           IN  /\ c \in Seq(IkConfs) /\ c # <<>>
               /\ (\A i \in 1 .. Len(ikCache) : poses[i].offset = offset) =>
                    /\ \A x \in all \ retained, y \in retained : SeedDistance(y) <= SeedDistance(x)
                    /\ ikOptions.numSeeds < 0 => retained = all
<1> DEFINE n == Len(ikCache) + 1
           all == Members(Candidates, n)
           retained == Members(c, Len(c))
           now == \A i \in 1 .. Len(ikCache) : poses[i].offset = offset
<1>1. /\ n \in Nat /\ n > 0 /\ Candidates \in [1 .. n -> IkConfs]
      /\ Len(Candidates) = n /\ DOMAIN Candidates = 1 .. n
      /\ Candidates[1] = Reference /\ \A i \in 2 .. n : Candidates[i] = ikCache[i - 1]
  <2>1. Len(ikCache) \in Nat
    OBVIOUS
  <2>2. n \in Nat /\ n > 0
    BY <2>1
  <2>3. /\ Candidates \in [1 .. n -> IkConfs] /\ Len(Candidates) = n
        /\ Candidates[1] = Reference /\ \A i \in 2 .. n : Candidates[i] = ikCache[i - 1]
    BY CandidateFacts
  <2> QED
    BY <2>2, <2>3
<1>2. NumSeeds \in Nat \ {0} /\ (ikOptions.numSeeds < 0 => NumSeeds = n)
  <2>1. ikOptions.numSeeds \in Int \ {0}
    BY IkOptionsAssumption
  <2> QED
    BY <1>1, <2>1 DEF NumSeeds
<1>3. \A i \in 1 .. n : PoseDistance(poses, i) \in Nat
  <2> SUFFICES ASSUME NEW i \in 1 .. n PROVE PoseDistance(poses, i) \in Nat
    OBVIOUS
  <2>1. CASE i = 1
    BY <2>1, ReachAssumption DEF PoseDistance
  <2>2. CASE i # 1
    <3>1. i - 1 \in 1 .. Len(poses)
      BY <2>2
    <3>2. poses[i - 1] \in CachedPoses
      BY <3>1
    <3> QED
      BY <2>2, <3>2, ReachAssumption DEF PoseDistance, CachedPoses
  <2> QED
    BY <2>1, <2>2
<1>4. ASSUME now, NEW i \in 1 .. n
      PROVE  PoseDistance(poses, i) = Reach[offset][Candidates[i]]
  <2>1. CASE i = 1
    BY <1>1, <2>1 DEF PoseDistance
  <2>2. CASE i # 1
    <3>1. i - 1 \in 1 .. Len(ikCache) /\ i \in 2 .. n
      BY <2>2
    <3>2. poses[i - 1].offset = offset /\ poses[i - 1].conf = Candidates[i]
      BY <1>1, <1>4, <3>1
    <3> QED
      BY <2>2, <3>2 DEF PoseDistance
  <2> QED
    BY <2>1, <2>2
<1>5. Reach[offset] \in [IkConfs -> Nat] /\ Apart \in [IkConfs -> Nat]
  BY ReachAssumption
<1> HIDE DEF n
<1>6. CASE ~ikOptions.twoSteps
  <2> DEFINE d == [i \in 1 .. n |-> PoseDistance(poses, i) + Apart[Candidates[i]]]
             W == [x \in IkConfs |-> Reach[offset][x] + Apart[x]]
  <2>1. d \in [1 .. n -> Nat] /\ W \in [IkConfs -> Nat]
    <3>1. \A x, y \in Nat : x + y \in Nat
      OBVIOUS
    <3>2. \A i \in 1 .. n : Apart[Candidates[i]] \in Nat
      BY <1>1, <1>5
    <3>3. \A i \in 1 .. n : PoseDistance(poses, i) + Apart[Candidates[i]] \in Nat
      BY <1>3, <3>1, <3>2
    <3>4. \A x \in IkConfs : Reach[offset][x] + Apart[x] \in Nat
      BY <1>5, <3>1
    <3> QED
      BY <3>3, <3>4
  <2>2. PICK s \in SortedBy(d) : c = Distinct([i \in 1 .. n |-> Candidates[s[i]]], NumSeeds)
    BY <1>1, <1>6 DEF CalcClosestSeed1Step
  <2>3. ASSUME now PROVE \A i \in 1 .. n : d[i] = W[Candidates[i]]
    BY <1>1, <1>4, <2>3
  <2>4. \A x \in IkConfs : SeedDistance(x) = W[x]
    BY <1>6 DEF SeedDistance
  <2> HIDE DEF d, W
  <2> DEFINE near == Distinct([i \in 1 .. n |-> Candidates[s[i]]], NumSeeds)
             first == Members(near, Len(near))
  <2>8. /\ near \in Seq(IkConfs) /\ near # <<>> /\ first \subseteq all
        /\ NumSeeds = n => first = all
        /\ \A V \in [IkConfs -> Nat] :
              (\A i \in 1 .. n : d[i] = V[Candidates[i]]) =>
                \A x \in all \ first, y \in first : V[y] <= V[x]
    <3>1. n \in Nat /\ n > 0
      BY <1>1
    <3>2. Candidates \in [1 .. n -> IkConfs] /\ NumSeeds \in Nat \ {0} /\ d \in [1 .. n -> Nat]
      BY <1>1, <1>2, <2>1
    <3> DEFINE order == [i \in 1 .. n |-> Candidates[s[i]]]
    <3>4. /\ order \in [1 .. n -> IkConfs] /\ s \in SortedBy(d)
          /\ \A i \in 1 .. n : order[i] = Candidates[s[i]]
      <4>1. s \in [1 .. n -> 1 .. n]
        BY <1>1, <2>1, <2>2, SortedFacts, OrderFacts
      <4> QED
        BY <1>1, <2>2, <4>1
    <3>5. near = Distinct(order, NumSeeds)
      OBVIOUS
    <3> HIDE DEF order, near
    <3>3. TakesClosest(near, IkConfs, n, Candidates, d, NumSeeds)
      BY <3>1, <3>2, <3>4, <3>5, ClosestFirst
    <3> QED
      BY <3>1, <3>3 DEF TakesClosest
  <2>9. c = near
    BY <2>2
  <2> HIDE DEF near
  <2>5. /\ c \in Seq(IkConfs) /\ c # <<>> /\ retained \subseteq all
        /\ NumSeeds = n => retained = all
        /\ (\A i \in 1 .. n : d[i] = W[Candidates[i]]) =>
              \A x \in all \ retained, y \in retained : W[y] <= W[x]
    BY <2>1, <2>8, <2>9
  <2>6. all \subseteq IkConfs
    BY <1>1 DEF Members
  <2> HIDE DEF all, retained
  <2>7. ASSUME now, NEW x \in all \ retained, NEW y \in retained
        PROVE  SeedDistance(y) <= SeedDistance(x)
    <3>1. W[y] <= W[x]
      BY <2>3, <2>5, <2>7
    <3>2. SeedDistance(y) = W[y] /\ SeedDistance(x) = W[x]
      BY <2>4, <2>5, <2>6
    <3> QED
      BY <3>1, <3>2
  <2> QED
    BY <1>1, <1>2, <2>5, <2>7 DEF all, retained
<1>7. CASE ikOptions.twoSteps
  <2> DEFINE d == [i \in 1 .. n |-> PoseDistance(poses, i)]
             W == Reach[offset]
  <2>1. d \in [1 .. n -> Nat] /\ W \in [IkConfs -> Nat]
    BY <1>1, <1>3, <1>5
  <2> DEFINE Sorts(x) == {[i \in DOMAIN x |-> x[o[i]]] :
                            o \in SortedBy([i \in DOMAIN x |-> Apart[x[i]]])}
             ClosestSets == {Distinct([i \in 1 .. n |-> Candidates[s[i]]], NumSeeds) :
                           s \in SortedBy(d)}
  <2>15. CalcClosestSeed2Steps(poses) = UNION {Sorts(x) : x \in ClosestSets}
    BY <1>1 DEF CalcClosestSeed2Steps
  <2>16. \E x \in ClosestSets : c \in Sorts(x)
    <3> HIDE DEF Sorts, ClosestSets
    <3> QED
      BY <1>7, <2>15
  <2>2. PICK s \in SortedBy(d) :
            c \in Sorts(Distinct([i \in 1 .. n |-> Candidates[s[i]]], NumSeeds))
    <3> HIDE DEF Sorts
    <3> QED
      BY <2>16
  <2> DEFINE near == Distinct([i \in 1 .. n |-> Candidates[s[i]]], NumSeeds)
             first == Members(near, Len(near))
  <2>3. ASSUME now PROVE \A i \in 1 .. n : d[i] = W[Candidates[i]]
    BY <1>1, <1>4, <2>3
  <2>4. \A x \in IkConfs : SeedDistance(x) = W[x]
    BY <1>5, <1>7 DEF SeedDistance
  <2> HIDE DEF d, W
  <2>5. /\ near \in Seq(IkConfs) /\ near # <<>> /\ first \subseteq all
        /\ NumSeeds = n => first = all
        /\ \A V \in [IkConfs -> Nat] :
              (\A i \in 1 .. n : d[i] = V[Candidates[i]]) =>
                \A x \in all \ first, y \in first : V[y] <= V[x]
    <3>1. n \in Nat /\ n > 0
      BY <1>1
    <3>2. Candidates \in [1 .. n -> IkConfs] /\ NumSeeds \in Nat \ {0} /\ d \in [1 .. n -> Nat]
      BY <1>1, <1>2, <2>1
    <3> DEFINE order == [i \in 1 .. n |-> Candidates[s[i]]]
    <3>4. /\ order \in [1 .. n -> IkConfs] /\ s \in SortedBy(d)
          /\ \A i \in 1 .. n : order[i] = Candidates[s[i]]
      <4>1. s \in [1 .. n -> 1 .. n]
        BY <1>1, <2>1, <2>2, SortedFacts, OrderFacts
      <4> QED
        BY <1>1, <2>2, <4>1
    <3>5. near = Distinct(order, NumSeeds)
      OBVIOUS
    <3> HIDE DEF order, near
    <3>3. TakesClosest(near, IkConfs, n, Candidates, d, NumSeeds)
      BY <3>1, <3>2, <3>4, <3>5, ClosestFirst
    <3> QED
      BY <3>1, <3>3 DEF TakesClosest
  <2>6. PICK o \in SortedBy([i \in DOMAIN near |-> Apart[near[i]]]) :
            c = [i \in DOMAIN near |-> near[o[i]]]
    BY <2>2
  <2> DEFINE k == Len(near)
  <2>7. k \in Nat /\ DOMAIN near = 1 .. k /\ near \in [1 .. k -> IkConfs]
    <3> HIDE DEF near
    <3> QED
      BY <2>5
  <2> HIDE DEF near
  <2>8. [i \in 1 .. k |-> Apart[near[i]]] \in [1 .. k -> Nat]
    BY <1>5, <2>7
  <2>9. o \in Orders(k)
    BY <2>6, <2>7, <2>8, SortedFacts
  <2>10. c = [i \in 1 .. k |-> near[o[i]]]
    BY <2>6, <2>7
  <2>11. c \in Seq(IkConfs) /\ Len(c) = k /\ retained = first
    <3> DEFINE p == [i \in 1 .. k |-> near[o[i]]]
    <3>1. p \in Seq(IkConfs) /\ Len(p) = k /\ Members(p, k) = Members(near, k)
      BY <2>7, <2>9, PermutedMembers
    <3>2. c = p
      BY <2>10
    <3> HIDE DEF p
    <3> QED
      BY <3>1, <3>2
  <2>12. c # <<>>
    <3>1. k # 0
      BY <2>5
    <3>2. Len(<<>>) = 0
      OBVIOUS
    <3> QED
      BY <2>11, <3>1, <3>2
  <2>13. all \subseteq IkConfs
    BY <1>1 DEF Members
  <2> HIDE DEF all, retained, first
  <2>14. ASSUME now, NEW x \in all \ retained, NEW y \in retained
        PROVE  SeedDistance(y) <= SeedDistance(x)
    <3>1. W[y] <= W[x]
      BY <2>1, <2>3, <2>5, <2>11, <2>14
    <3>2. SeedDistance(y) = W[y] /\ SeedDistance(x) = W[x]
      BY <2>4, <2>5, <2>11, <2>13
    <3> QED
      BY <3>1, <3>2
  <2> QED
    BY <1>1, <1>2, <2>5, <2>11, <2>12, <2>14 DEF all, retained
<1> QED
  BY <1>6, <1>7

(* What is inductive.  A result fits the options of the call; those put    *)
(* aside are not decisive, and every seed is among them or yet to come.    *)
Fits(r) ==
    /\ r.failure = "none" <=> Valid(r)
    /\ r.success /\ (ikOptions.avoid \/ (ikOptions.resolve /\ ~ikOptions.ignoreArms)) =>
         r.collision = "none"

IkTypes ==
    /\ ikOptions \in IkOptionSets /\ ikCache \in Seq(IkConfs) /\ offset \in FrameOffsets
    /\ known \in BOOLEAN /\ cachedPoses \in Seq(CachedPoses)
    /\ ikStep \in {"idle", "solve", "judge"}
    /\ chosen \in Seq(IkConfs) /\ seeds \in Seq(IkConfs)
    /\ program \in [avoid : BOOLEAN, seedCost : BOOLEAN, random : BOOLEAN]
    /\ ikResult \in IkResults /\ tried \in Seq(IkResults) /\ verdict \in IkResults

CacheInv ==
    known => /\ Len(cachedPoses) = Len(ikCache)
             /\ \A i \in 1 .. Len(ikCache) : cachedPoses[i].conf = ikCache[i]

TriedInv ==
    ikStep # "idle" =>
        /\ verdict = NoResult /\ known
        /\ ikOptions.avoid => program.avoid
        /\ Len(tried) + Len(seeds) + 1 >= Len(chosen)
        /\ \A i \in 1 .. Len(tried) : ~Decisive(tried[i]) /\ Fits(tried[i])

ResultInv == ikStep = "judge" => Fits(ikResult)

IkInv == IkTypes /\ CacheInv /\ TriedInv /\ ResultInv /\ SeedsAreClosest /\ VerdictJustified

LEMMA ResultTypes ==
    /\ NoResult \in IkResults /\ NoProgram \in [avoid : BOOLEAN, seedCost : BOOLEAN, random : BOOLEAN]
    /\ \A r \in IkResults : r.success \in BOOLEAN /\ r.collision \in Collisions \cup {"unset", "none"}
                            /\ r.failure \in Failures
    /\ \A r \in IkResults, f \in Failures : [r EXCEPT !.failure = f] \in IkResults
    /\ \A s \in BOOLEAN, c \in Collisions \cup {"unset", "none"}, f \in Failures :
          [success |-> s, collision |-> c, failure |-> f] \in IkResults
BY DEF NoResult, NoProgram, IkResults, Failures, Collisions

LEMMA OptionTypes ==
    ikOptions \in IkOptionSets =>
        /\ ikOptions.avoid \in BOOLEAN /\ ikOptions.seedCost \in BOOLEAN
        /\ \A random \in BOOLEAN : FirstProgram(random) \in
              [avoid : BOOLEAN, seedCost : BOOLEAN, random : BOOLEAN]
        /\ \A random : FirstProgram(random).avoid = ikOptions.avoid
BY IkOptionsAssumption DEF FirstProgram

LEMMA IkInitInv == IkInit => IkInv
<1> SUFFICES ASSUME IkInit PROVE IkInv
  OBVIOUS
<1>1. IkTypes
  <2>1. <<>> \in Seq(IkConfs) /\ <<>> \in Seq(CachedPoses) /\ <<>> \in Seq(IkResults)
    OBVIOUS
  <2> QED
    BY <2>1, ResultTypes, IkOptionsAssumption DEF IkInit, IkTypes
<1> QED
  BY <1>1 DEF IkInit, IkInv, CacheInv, TriedInv, ResultInv, SeedsAreClosest, VerdictJustified

LEMMA BeginStep == IkInv /\ SolveGlobalIk => IkInv'
<1> SUFFICES ASSUME IkInv, SolveGlobalIk PROVE IkInv'
  OBVIOUS
<1>0. IkTypes /\ CacheInv
  BY DEF IkInv
<1>1. /\ cachedPoses' \in Seq(CachedPoses) /\ Len(cachedPoses') = Len(ikCache)
      /\ \A i \in 1 .. Len(ikCache) : cachedPoses'[i].conf = ikCache[i]
  <2>1. CASE known
    <3>1. cachedPoses' = cachedPoses
      BY <2>1 DEF SolveGlobalIk
    <3> QED
      BY <1>0, <2>1, <3>1 DEF IkTypes, CacheInv
  <2>2. CASE ~known
    <3>1. cachedPoses' = [i \in DOMAIN ikCache |-> Pose(ikCache[i])]
      BY <2>2 DEF SolveGlobalIk, AddFrames
    <3>2. DOMAIN ikCache = 1 .. Len(ikCache) /\ Len(ikCache) \in Nat
      BY <1>0 DEF IkTypes
    <3>3. \A i \in 1 .. Len(ikCache) : Pose(ikCache[i]) \in CachedPoses
                                      /\ Pose(ikCache[i]).conf = ikCache[i]
      BY <1>0 DEF IkTypes, Pose, CachedPoses
    <3> QED
      BY <3>1, <3>2, <3>3
  <2> QED
    BY <2>1, <2>2
<1>2. chosen' \in IF ikOptions.twoSteps THEN CalcClosestSeed2Steps(cachedPoses')
                  ELSE CalcClosestSeed1Step(cachedPoses')
  BY DEF SolveGlobalIk
<1> DEFINE all == Members(Candidates, Len(Candidates))
           taken == Members(chosen', Len(chosen'))
<1>3. /\ chosen' \in Seq(IkConfs) /\ chosen' # <<>>
      /\ (\A i \in 1 .. Len(ikCache) : cachedPoses'[i].offset = offset) =>
           /\ \A x \in all \ taken, y \in taken : SeedDistance(y) <= SeedDistance(x)
           /\ ikOptions.numSeeds < 0 => taken = all
  <2>1. ikOptions \in IkOptionSets /\ ikCache \in Seq(IkConfs) /\ offset \in FrameOffsets
    BY <1>0 DEF IkTypes
  <2> QED
    BY <1>1, <1>2, <2>1, ChosenFacts
<1>4. /\ ikStep' = "solve" /\ program' = FirstProgram(FALSE) /\ ikResult' = NoResult
      /\ tried' = <<>> /\ verdict' = NoResult /\ known' = TRUE /\ seeds' = Tail(chosen')
      /\ ikOptions' = ikOptions /\ ikCache' = ikCache /\ offset' = offset
  BY DEF SolveGlobalIk
<1>5. seeds' \in Seq(IkConfs) /\ Len(chosen') \in Nat /\ Len(seeds') = Len(chosen') - 1
  BY <1>3, <1>4
<1>6. <<>> \in Seq(IkResults) /\ Len(<<>>) = 0
  OBVIOUS
<1>7. IkTypes'
  BY <1>0, <1>1, <1>3, <1>4, <1>5, <1>6, ResultTypes, OptionTypes DEF IkTypes
<1>8. CacheInv'
  BY <1>1, <1>4 DEF CacheInv
<1>9. TriedInv'
  <2>1. Len(tried') + Len(seeds') + 1 >= Len(chosen')
    BY <1>4, <1>5, <1>6
  <2>2. 1 .. Len(tried') = {}
    BY <1>4, <1>6
  <2>3. ikOptions'.avoid => program'.avoid
    BY <1>0, <1>4, OptionTypes DEF IkTypes
  <2> QED
    BY <1>4, <2>1, <2>2, <2>3 DEF TriedInv
<1>10. ResultInv' /\ VerdictJustified'
  BY <1>4 DEF ResultInv, VerdictJustified
<1>11. SeedsAreClosest'
  <2>1. Candidates' = Candidates /\ DOMAIN Candidates = 1 .. Len(Candidates)
    BY <1>0, <1>4, CandidateFacts DEF Candidates, IkTypes
  <2>2. DOMAIN chosen' = 1 .. Len(chosen') /\ DOMAIN cachedPoses' = 1 .. Len(ikCache)
    BY <1>1, <1>3
  <2>3. {Candidates'[i] : i \in DOMAIN Candidates'} = all
    BY <2>1 DEF Members
  <2>4. {chosen'[i] : i \in DOMAIN chosen'} = taken
    BY <2>2 DEF Members
  <2>5. \A c : SeedDistance(c)' = SeedDistance(c)
    BY <1>4 DEF SeedDistance
  <2>6. Current' => \A i \in 1 .. Len(ikCache) : cachedPoses'[i].offset = offset
    BY <1>4, <2>2 DEF Current
  <2> HIDE DEF all, taken
  <2> QED
    BY <1>3, <1>4, <2>3, <2>4, <2>5, <2>6 DEF SeedsAreClosest
<1> QED
  BY <1>7, <1>8, <1>9, <1>10, <1>11 DEF IkInv

(* The solver's answers: the program changes, or there is a result.        *)
LEMMA SolverStep ==
    ASSUME IkInv, ikStep = "solve", SolveUnchanged,
           \/ /\ ikResult' \in IkResults /\ ikStep' = "judge" /\ program' = program
              /\ Fits(ikResult')
           \/ /\ UNCHANGED <<ikStep, ikResult>>
              /\ program' \in [avoid : BOOLEAN, seedCost : BOOLEAN, random : BOOLEAN]
              /\ program.avoid => program'.avoid
    PROVE  IkInv'
<1> USE DEF IkInv, SolveUnchanged
<1>1. IkTypes'
  BY DEF IkTypes
<1>2. CacheInv' /\ VerdictJustified'
  BY DEF CacheInv, VerdictJustified
<1>3. \A r : Fits(r)' = Fits(r)
  BY DEF Fits
<1>4. TriedInv'
  BY <1>3 DEF TriedInv
<1>5. ResultInv'
  BY DEF ResultInv, Fits
<1>6. SeedsAreClosest'
  <2>1. \A c : SeedDistance(c)' = SeedDistance(c)
    BY DEF SeedDistance
  <2>2. Current' = Current /\ Candidates' = Candidates
    BY DEF Current, Candidates
  <2>3. UNCHANGED <<chosen, tried, ikOptions>>
    OBVIOUS
  <2> QED
    BY <2>1, <2>2, <2>3 DEF SeedsAreClosest
<1> QED
  BY <1>1, <1>2, <1>4, <1>5, <1>6

LEMMA AgainIs == \A p : Again(p) <=> program' = p /\ UNCHANGED <<ikStep, ikResult>>
BY DEF Again

LEMMA NumericalStep == IkInv /\ Numerical => IkInv'
<1> SUFFICES ASSUME IkInv, Numerical PROVE IkInv'
  OBVIOUS
<1>1. ikStep = "solve" /\ SolveUnchanged
      /\ program \in [avoid : BOOLEAN, seedCost : BOOLEAN, random : BOOLEAN]
  BY DEF Numerical, IkInv, IkTypes
<1>2. CASE program.seedCost
  <2>1. program' = [program EXCEPT !.seedCost = FALSE] /\ UNCHANGED <<ikStep, ikResult>>
    BY <1>2, AgainIs DEF Numerical
  <2> QED
    BY <1>1, <2>1, SolverStep
<1>3. CASE ~program.seedCost
  <2> DEFINE r == [success |-> FALSE, collision |-> "unset", failure |-> "numerical"]
  <2>1. ikResult' = r /\ ikStep' = "judge" /\ program' = program
    BY <1>3 DEF Numerical, Result
  <2>2. r \in IkResults /\ Fits(r)
    BY ResultTypes DEF Failures, Fits, Valid
  <2> HIDE DEF r
  <2> QED
    BY <1>1, <2>1, <2>2, SolverStep
<1> QED
  BY <1>2, <1>3

LEMMA InfeasibleStep == IkInv /\ Infeasible => IkInv'
<1> SUFFICES ASSUME IkInv, Infeasible PROVE IkInv'
  OBVIOUS
<1>1. ikStep = "solve" /\ SolveUnchanged
  BY DEF Infeasible
<1>2. PICK failure \in {EvalRobotLimits(issues) : issues \in Issues}
                       \cup IF program.avoid THEN {"optimization collision"} ELSE {} :
          Result([success |-> FALSE, collision |-> "unset", failure |-> failure])
  BY DEF Infeasible
<1>3. failure \in Failures \ {"none"}
  <2>1. \A issues : EvalRobotLimits(issues) \in Failures \ {"none"}
    BY DEF EvalRobotLimits, Failures
  <2> QED
    BY <2>1 DEF Failures
<1> DEFINE r == [success |-> FALSE, collision |-> "unset", failure |-> failure]
<1>4. ikResult' = r /\ ikStep' = "judge" /\ program' = program
  BY <1>2 DEF Result
<1>5. r \in IkResults /\ Fits(r)
  <2>1. r \in IkResults
    BY <1>3, ResultTypes
  <2> QED
    BY <1>3, <2>1 DEF Fits, Valid
<1> HIDE DEF r
<1> QED
  BY <1>1, <1>4, <1>5, SolverStep

LEMMA SolvedClearStep == IkInv /\ SolvedClear => IkInv'
<1> SUFFICES ASSUME IkInv, SolvedClear PROVE IkInv'
  OBVIOUS
<1> DEFINE r == [success |-> TRUE, collision |-> "none", failure |-> "none"]
<1>1. ikStep = "solve" /\ SolveUnchanged /\ ikResult' = r /\ ikStep' = "judge" /\ program' = program
  BY DEF SolvedClear, Result
<1>2. r \in IkResults /\ Fits(r)
  BY ResultTypes DEF Failures, Fits, Valid
<1> HIDE DEF r
<1> QED
  BY <1>1, <1>2, SolverStep

LEMMA SolvedCollidingStep == \A c \in Collisions : IkInv /\ SolvedColliding(c) => IkInv'
<1> SUFFICES ASSUME NEW c \in Collisions, IkInv, SolvedColliding(c) PROVE IkInv'
  OBVIOUS
<1>1. /\ ikStep = "solve" /\ SolveUnchanged
      /\ program \in [avoid : BOOLEAN, seedCost : BOOLEAN, random : BOOLEAN]
      /\ ikOptions.avoid => program.avoid
  BY DEF SolvedColliding, IkInv, IkTypes, TriedInv
<1>2. c # "none"
  BY DEF Collisions
<1>3. CASE program.avoid
  <2> DEFINE r == [success |-> FALSE, collision |-> c, failure |-> "numerical"]
  <2>1. ikResult' = r /\ ikStep' = "judge" /\ program' = program
    BY <1>3 DEF SolvedColliding, Result
  <2>2. r \in IkResults /\ Fits(r)
    BY ResultTypes DEF Failures, Fits, Valid
  <2> HIDE DEF r
  <2> QED
    BY <1>1, <2>1, <2>2, SolverStep
<1>4. CASE ~program.avoid /\ Resolves(c) /\ ~(ikOptions.ignoreArms /\ c = "arms")
  <2>1. program' = [program EXCEPT !.avoid = TRUE] /\ UNCHANGED <<ikStep, ikResult>>
    BY <1>4, AgainIs DEF SolvedColliding
  <2> QED
    BY <1>1, <2>1, SolverStep
<1>5. CASE ~program.avoid /\ ~(Resolves(c) /\ ~(ikOptions.ignoreArms /\ c = "arms"))
  <2> DEFINE r == [success |-> TRUE, collision |-> c, failure |-> "collision"]
  <2>1. ikResult' = r /\ ikStep' = "judge" /\ program' = program
    BY <1>5 DEF SolvedColliding, Result
  <2>2. r \in IkResults
    BY ResultTypes DEF Failures
  <2>3. ~(ikOptions.avoid \/ (ikOptions.resolve /\ ~ikOptions.ignoreArms))
    BY <1>1, <1>5 DEF Resolves
  <2>4. Fits(r)
    BY <1>2, <2>3 DEF Fits, Valid
  <2> HIDE DEF r
  <2> QED
    BY <1>1, <2>1, <2>2, <2>4, SolverStep
<1> QED
  BY <1>3, <1>4, <1>5

(* A result is judged: it goes with those of the seeds before.             *)
LEMMA TriedGrows ==
    ASSUME IkInv, ikStep = "judge", tried' = Append(tried, ikResult)
    PROVE  /\ tried' \in Seq(IkResults) /\ Len(tried) \in Nat /\ Len(tried') = Len(tried) + 1
           /\ tried' # <<>> /\ tried'[Len(tried')] = ikResult
           /\ \A i \in 1 .. Len(tried) :
                 tried'[i] = tried[i] /\ ~Decisive(tried[i]) /\ Fits(tried[i])
           /\ Fits(ikResult) /\ ikResult \in IkResults
<1>1. ikResult \in IkResults /\ tried \in Seq(IkResults)
  BY DEF IkInv, IkTypes
<1>2. tried' \in Seq(IkResults) /\ Len(tried) \in Nat /\ Len(tried') = Len(tried) + 1
      /\ tried'[Len(tried) + 1] = ikResult
      /\ \A i \in 1 .. Len(tried) : tried'[i] = tried[i]
  BY <1>1
<1>3. tried' # <<>>
  <2>1. Len(<<>>) = 0 /\ Len(tried') # 0
    BY <1>2
  <2> QED
    BY <2>1
<1>4. Fits(ikResult) /\ \A i \in 1 .. Len(tried) : ~Decisive(tried[i]) /\ Fits(tried[i])
  BY DEF IkInv, ResultInv, TriedInv
<1> QED
  BY <1>1, <1>2, <1>3, <1>4

(* The call goes on with another seed.                                     *)
LEMMA GoOnStep ==
    ASSUME IkInv, ikStep = "judge", ~Decisive(ikResult), tried' = Append(tried, ikResult),
           seeds' \in Seq(IkConfs), Len(seeds') + 1 >= Len(seeds),
           NEW random \in BOOLEAN, program' = FirstProgram(random), ikStep' = "solve",
           UNCHANGED <<ikCache, known, cachedPoses, verdict>>, JudgeUnchanged
    PROVE  IkInv'
<1> USE DEF JudgeUnchanged
<1>1. /\ tried' \in Seq(IkResults) /\ Len(tried) \in Nat /\ Len(tried') = Len(tried) + 1
      /\ tried' # <<>> /\ tried'[Len(tried')] = ikResult
      /\ \A i \in 1 .. Len(tried) :
            tried'[i] = tried[i] /\ ~Decisive(tried[i]) /\ Fits(tried[i])
      /\ Fits(ikResult)
  BY TriedGrows
<1>2. IkTypes /\ CacheInv /\ TriedInv
  BY DEF IkInv
<1>3. ikOptions \in IkOptionSets
  BY <1>2 DEF IkTypes
<1>4. /\ program' \in [avoid : BOOLEAN, seedCost : BOOLEAN, random : BOOLEAN]
      /\ program'.avoid = ikOptions.avoid
  BY <1>3, OptionTypes
<1>5. IkTypes'
  BY <1>1, <1>2, <1>4 DEF IkTypes
<1>6. CacheInv'
  BY <1>2 DEF CacheInv
<1>7. TriedInv'
  <2>1. \A r : Fits(r)' = Fits(r)
    BY DEF Fits
  <2>2. \A i \in 1 .. Len(tried') : i \in 1 .. Len(tried) \/ i = Len(tried')
    BY <1>1
  <2>3. \A i \in 1 .. Len(tried') : ~Decisive(tried'[i]) /\ Fits(tried'[i])
    BY <1>1, <2>2
  <2>4. Len(tried') + Len(seeds') + 1 >= Len(chosen')
    <3>1. Len(tried) + Len(seeds) + 1 >= Len(chosen) /\ Len(chosen) \in Nat /\ Len(seeds) \in Nat
      BY <1>2 DEF TriedInv, IkTypes
    <3>2. Len(seeds') \in Nat /\ Len(chosen') = Len(chosen)
      OBVIOUS
    <3> QED
      BY <1>1, <3>1, <3>2
  <2> QED
    BY <1>2, <1>4, <2>1, <2>3, <2>4 DEF TriedInv
<1>8. ResultInv' /\ SeedsAreClosest'
  BY <1>1 DEF ResultInv, SeedsAreClosest
<1>9. VerdictJustified'
  BY <1>2 DEF TriedInv, VerdictJustified
<1> QED
  BY <1>5, <1>6, <1>7, <1>8, <1>9 DEF IkInv

LEMMA NextSeedStep == IkInv /\ NextSeed => IkInv'
<1> SUFFICES ASSUME IkInv, NextSeed PROVE IkInv'
  OBVIOUS
<1>1. seeds \in Seq(IkConfs) /\ seeds # <<>> /\ seeds' = Tail(seeds)
  BY DEF NextSeed, IkInv, IkTypes
<1>2. seeds' \in Seq(IkConfs) /\ Len(seeds') + 1 >= Len(seeds)
  BY <1>1
<1> QED
  BY <1>2, GoOnStep DEF NextSeed

LEMMA RandomSeedStep == IkInv /\ RandomSeed => IkInv'
<1> SUFFICES ASSUME IkInv, RandomSeed PROVE IkInv'
  OBVIOUS
<1>1. seeds' \in Seq(IkConfs) /\ Len(seeds') + 1 >= Len(seeds)
  BY DEF RandomSeed, IkInv, IkTypes
<1> QED
  BY <1>1, GoOnStep DEF RandomSeed

(* The call returns.                                                       *)
LEMMA ReturnStep ==
    ASSUME IkInv, ikStep = "judge", tried' = Append(tried, ikResult),
           NEW r \in IkResults, Returned(r), Fits(r),
           Decisive(r) \/ seeds = <<>>,
           ikCache' \in Seq(IkConfs), cachedPoses' \in Seq(CachedPoses), known' = known,
           Len(cachedPoses') = Len(ikCache'),
           \A i \in 1 .. Len(ikCache') : cachedPoses'[i].conf = ikCache'[i],
           JudgeUnchanged
    PROVE  IkInv'
<1> USE DEF JudgeUnchanged
<1>1. /\ tried' \in Seq(IkResults) /\ Len(tried) \in Nat /\ Len(tried') = Len(tried) + 1
      /\ \A i \in 1 .. Len(tried) :
            tried'[i] = tried[i] /\ ~Decisive(tried[i]) /\ Fits(tried[i])
  BY TriedGrows
<1>2. IkTypes /\ TriedInv
  BY DEF IkInv
<1>3. ikStep' = "idle" /\ verdict' = r /\ seeds' = <<>> /\ program' = NoProgram
  BY DEF Returned
<1>4. IkTypes'
  <2>1. <<>> \in Seq(IkConfs)
    OBVIOUS
  <2> QED
    BY <1>1, <1>2, <1>3, <2>1, ResultTypes DEF IkTypes
<1>5. CacheInv' /\ TriedInv' /\ ResultInv' /\ SeedsAreClosest'
  BY <1>3 DEF CacheInv, TriedInv, ResultInv, SeedsAreClosest
<1>6. VerdictJustified'
  <2>1. Decisive(r) \/ Len(tried') >= Len(chosen)
    <3>1. seeds = <<>> => Len(seeds) = 0
      OBVIOUS
    <3>2. Len(tried) + Len(seeds) + 1 >= Len(chosen) /\ Len(chosen) \in Nat
      BY <1>2 DEF TriedInv, IkTypes
    <3> QED
      BY <1>1, <3>1, <3>2
  <2>2. \A i \in 1 .. Len(tried') - 1 : ~tried'[i].success \/ tried'[i].collision = "self"
    <3>1. \A i \in 1 .. Len(tried') - 1 : i \in 1 .. Len(tried)
      BY <1>1
    <3> QED
      BY <1>1, <3>1 DEF Decisive
  <2> QED
    BY <1>3, <2>1, <2>2 DEF VerdictJustified, Fits
<1> QED
  BY <1>4, <1>5, <1>6 DEF IkInv

LEMMA AcceptStep == IkInv /\ Accept => IkInv'
<1> SUFFICES ASSUME IkInv, Accept PROVE IkInv'
  OBVIOUS
<1>1. /\ ikStep = "judge" /\ Decisive(ikResult) /\ tried' = Append(tried, ikResult)
      /\ Returned(ikResult) /\ JudgeUnchanged
  BY DEF Accept
<1>2. ikResult \in IkResults /\ Fits(ikResult)
  BY <1>1, TriedGrows
<1>3. /\ known /\ ikCache \in Seq(IkConfs) /\ cachedPoses \in Seq(CachedPoses)
      /\ Len(cachedPoses) = Len(ikCache) /\ offset \in FrameOffsets
      /\ \A i \in 1 .. Len(ikCache) : cachedPoses[i].conf = ikCache[i]
  BY <1>1 DEF IkInv, IkTypes, CacheInv, TriedInv
<1>4. /\ ikCache' \in Seq(IkConfs) /\ cachedPoses' \in Seq(CachedPoses) /\ known' = known
      /\ Len(cachedPoses') = Len(ikCache')
      /\ \A i \in 1 .. Len(ikCache') : cachedPoses'[i].conf = ikCache'[i]
  <2>1. CASE UNCHANGED <<ikCache, known, cachedPoses>>
    BY <1>3, <2>1
  <2>2. CASE \E c \in IkConfs : AddCacheConfig(c)
    <3>1. PICK c \in IkConfs : AddCacheConfig(c)
      BY <2>2
    <3>2. /\ ikCache' = Append(ikCache, c) /\ cachedPoses' = Append(cachedPoses, Pose(c))
          /\ known' = known
      BY <1>3, <3>1 DEF AddCacheConfig
    <3>3. Pose(c) \in CachedPoses /\ Pose(c).conf = c
      BY <1>3 DEF Pose, CachedPoses
    <3>4. /\ ikCache' \in Seq(IkConfs) /\ Len(ikCache') = Len(ikCache) + 1
          /\ ikCache'[Len(ikCache) + 1] = c /\ Len(ikCache) \in Nat
          /\ \A i \in 1 .. Len(ikCache) : ikCache'[i] = ikCache[i]
      BY <1>3, <3>2
    <3>5. /\ cachedPoses' \in Seq(CachedPoses) /\ Len(cachedPoses') = Len(ikCache) + 1
          /\ cachedPoses'[Len(ikCache) + 1] = Pose(c)
          /\ \A i \in 1 .. Len(ikCache) : cachedPoses'[i] = cachedPoses[i]
      BY <1>3, <3>2, <3>3
    <3>6. \A i \in 1 .. Len(ikCache') : i \in 1 .. Len(ikCache) \/ i = Len(ikCache) + 1
      BY <3>4
    <3> QED
      BY <1>3, <3>2, <3>3, <3>4, <3>5, <3>6
  <2> QED
    BY <2>1, <2>2 DEF Accept
<1> QED
  BY <1>1, <1>2, <1>4, ReturnStep

LEMMA GiveUpStep == IkInv /\ GiveUpIk => IkInv'
<1> SUFFICES ASSUME IkInv, GiveUpIk PROVE IkInv'
  OBVIOUS
<1>1. /\ ikStep = "judge" /\ ~Decisive(ikResult) /\ seeds = <<>>
      /\ tried' = Append(tried, ikResult)
      /\ UNCHANGED <<ikCache, known, cachedPoses>> /\ JudgeUnchanged
  BY DEF GiveUpIk
<1>2. /\ known /\ ikCache \in Seq(IkConfs) /\ cachedPoses \in Seq(CachedPoses)
      /\ Len(cachedPoses) = Len(ikCache)
      /\ \A i \in 1 .. Len(ikCache) : cachedPoses[i].conf = ikCache[i]
  BY <1>1 DEF IkInv, IkTypes, CacheInv, TriedInv
<1>3. tried'[1] \in IkResults /\ ~Decisive(tried'[1]) /\ Fits(tried'[1])
      /\ Fits(ikResult) /\ ikResult \in IkResults
  <2>1. Len(tried) = 0 \/ 1 \in 1 .. Len(tried)
    BY <1>1, TriedGrows
  <2>2. 1 \in 1 .. Len(tried') /\ tried' \in Seq(IkResults)
    BY <1>1, TriedGrows
  <2>3. tried'[1] \in IkResults
    BY <2>2
  <2>4. CASE Len(tried) = 0
    BY <1>1, <2>3, <2>4, TriedGrows
  <2>5. CASE 1 \in 1 .. Len(tried)
    BY <1>1, <2>3, <2>5, TriedGrows
  <2> QED
    BY <2>1, <2>4, <2>5
<1> DEFINE f == tried'[1].failure
           r == [ikResult EXCEPT !.failure = f]
<1>4. f \in Failures /\ f # "none"
  BY <1>3, ResultTypes DEF Fits, Decisive, Valid
<1>5. r \in IkResults /\ Fits(r)
  <2>1. r \in IkResults /\ r.success = ikResult.success /\ r.collision = ikResult.collision
        /\ r.failure = f
    BY <1>3, <1>4, ResultTypes DEF IkResults
  <2> HIDE DEF r, f
  <2>2. ~Valid(r)
    BY <1>1, <2>1 DEF Decisive, Valid
  <2> QED
    BY <1>3, <1>4, <2>1, <2>2 DEF Fits
<1>6. Returned(r)
  BY DEF GiveUpIk, FirstFailure
<1> HIDE DEF r, f
<1>7. ikCache' = ikCache /\ cachedPoses' = cachedPoses /\ known' = known
  BY <1>1
<1>8. /\ ikCache' \in Seq(IkConfs) /\ cachedPoses' \in Seq(CachedPoses)
      /\ Len(cachedPoses') = Len(ikCache')
      /\ \A i \in 1 .. Len(ikCache') : cachedPoses'[i].conf = ikCache'[i]
  BY <1>2, <1>7
<1> QED
  BY <1>1, <1>5, <1>6, <1>7, <1>8, ReturnStep

LEMMA IkStepInv == IkInv /\ [IkNext]_ikVars => IkInv'
<1> SUFFICES ASSUME IkInv, [IkNext]_ikVars PROVE IkInv'
  OBVIOUS
<1>1. CASE UNCHANGED ikVars
  <2>0. UNCHANGED <<ikOptions, ikCache, known, cachedPoses, offset, ikStep, seeds, chosen,
                    program, ikResult, tried, verdict>>
    BY <1>1 DEF ikVars
  <2>1. \A c : SeedDistance(c)' = SeedDistance(c) /\ Fits(c)' = Fits(c)
    BY <2>0 DEF SeedDistance, Fits
  <2>2. Current' = Current /\ Candidates' = Candidates
    BY <2>0 DEF Current, Candidates
  <2>3. SeedsAreClosest'
    BY <2>0, <2>1, <2>2 DEF IkInv, SeedsAreClosest
  <2>4. IkTypes' /\ CacheInv' /\ TriedInv' /\ ResultInv' /\ VerdictJustified'
    BY <2>0, <2>1 DEF IkInv, IkTypes, CacheInv, TriedInv, ResultInv, VerdictJustified
  <2> QED
    BY <2>3, <2>4 DEF IkInv
<1>2. ASSUME NEW o \in FrameOffsets, MoveFrame(o) PROVE IkInv'
  <2>0. /\ ikStep = "idle" /\ offset' = o
        /\ UNCHANGED <<ikOptions, ikCache, known, cachedPoses, ikStep, seeds, chosen,
                       program, ikResult, tried, verdict>>
    BY <1>2 DEF MoveFrame
  <2> QED
    BY <2>0 DEF IkInv, IkTypes, CacheInv, TriedInv, ResultInv, SeedsAreClosest,
                VerdictJustified
<1>3. CASE IkNext
  BY <1>2, <1>3, BeginStep, NumericalStep, InfeasibleStep, SolvedClearStep,
     SolvedCollidingStep, AcceptStep, NextSeedStep, RandomSeedStep, GiveUpStep DEF IkNext
<1> QED
  BY <1>1, <1>3

THEOREM IkInvariant == IkSpec => []IkInv
BY IkInitInv, IkStepInv, PTL DEF IkSpec

(* No configuration that CalcClosestSeed leaves out brings the frame       *)
(* closer to the target than one it returns, in one step or two.           *)
THEOREM SeedsClosest == IkSpec => []SeedsAreClosest
<1>1. IkInv => SeedsAreClosest
  BY DEF IkInv
<1> QED
  BY <1>1, IkInvariant, PTL

(* What SolveGlobalIkUsingCache returns is justified by the seeds it tried *)
(* and the options of the call.                                            *)
THEOREM VerdictsJustified == IkSpec => []VerdictJustified
<1>1. IkInv => VerdictJustified
  BY DEF IkInv
<1> QED
  BY <1>1, IkInvariant, PTL
-----------------------------------------------------------------------------
(***************************************************************************)
(* GenerateSamples.  A thread is on the first index of what is left of its *)
(* share, and nobody else has that index; so an index that is kept is kept *)
(* once, and its fate says so.  A thread skips an index only when it has   *)
(* seen enough samples, and a size read outside of push_back was true then *)
(* and the list only grows until all threads are through.                  *)
(***************************************************************************)
SamplePhases == {"next", "judge", "push", "guess", "project"}

FitsOptions(q) ==
    \/ Satisfied(q) = ~check.invalid
    \/ check.projection /\ Satisfied(q)

SampleTypes ==
    /\ check \in Calls /\ returned \in BOOLEAN /\ torn \in BOOLEAN
    /\ share \in [Threads -> Seq(Indices)]
    /\ phase \in [Threads -> SamplePhases]
    /\ pending = [t \in Threads |-> pending[t]]
    /\ fate \in [Indices -> {"open", "skipped", "dropped", "kept"}]
    /\ kept \in Seq([from : Indices, conf : CheckedConfs])
    /\ growing \in Threads \cup {None}

SharesApart ==
    /\ \A t \in Threads : \A j \in 1 .. Len(share[t]) :
          /\ fate[share[t][j]] = "open"
          /\ \A k \in 1 .. Len(share[t]) : j # k => share[t][j] # share[t][k]
    /\ \A t, u \in Threads : t # u =>
          \A j \in 1 .. Len(share[t]) : \A k \in 1 .. Len(share[u]) :
              share[t][j] # share[u][k]

PhasesFit ==
    /\ \A t \in Threads :
          /\ phase[t] # "next" => share[t] # <<>>
          /\ phase[t] \in {"guess", "project"} => check.projection
          /\ phase[t] = "push" =>
                pending[t] \in CheckedConfs /\ FitsOptions(pending[t])
    /\ growing # None => phase[growing] = "push"

KeptFits ==
    /\ \A i \in 1 .. Len(kept) :
          /\ FitsOptions(kept[i].conf)
          /\ fate[kept[i].from] = "kept"
          /\ \A j \in 1 .. Len(kept) : i # j => kept[i].from # kept[j].from
    /\ \A k \in Indices : fate[k] = "kept" =>
          \E i \in 1 .. Len(kept) : kept[i].from = k
    /\ (\E k \in Indices : fate[k] = "skipped") /\ ~torn =>
          check.desired <= Len(kept)

SamplesInv ==
    /\ check \in Calls
    /\ check.op = "samples" =>
          \/ returned /\ SamplesAreSound
          \/ /\ ~returned
             /\ SampleTypes /\ SharesApart /\ PhasesFit /\ KeptFits

-----------------------------------------------------------------------------
(* How many of n indices the first t of k threads have to take. *)
TakenBy(t, n, k) == t * (n \div k) + (IF t < n % k THEN t ELSE n % k)

LEMMA TakenFacts ==
    ASSUME NEW n \in Nat, NEW k \in Nat \ {0}
    PROVE  /\ \A t \in 0 .. k : TakenBy(t, n, k) \in Nat
           /\ TakenBy(k, n, k) = n
           /\ \A t, u \in 0 .. k : t <= u => TakenBy(t, n, k) <= TakenBy(u, n, k)
<1> DEFINE each == n \div k
           rest == n % k
<1>1. each \in Nat /\ rest \in 0 .. k - 1 /\ n = k * each + rest
  OBVIOUS
<1> HIDE DEF each, rest
<1>2. TakenBy(k, n, k) = n
  BY <1>1 DEF TakenBy, each, rest
<1>3. ASSUME NEW t \in 0 .. k, NEW u \in 0 .. k, t <= u
      PROVE  TakenBy(t, n, k) \in Nat /\ TakenBy(t, n, k) <= TakenBy(u, n, k)
  <2>1. t * each \in Nat /\ u * each \in Nat /\ t * each <= u * each
    BY <1>1, <1>3
  <2> QED
    BY <2>1, <1>1, <1>3 DEF TakenBy, each, rest
<1> QED
  BY <1>2, <1>3

(* A share is the indices from one such number to the next.                *)
LEMMA ShareIs ==
    ASSUME NEW n \in Nat, NEW k \in Nat \ {0}, NEW t \in 1 .. k
    PROVE  ShareOf(t, n, k) = [i \in 1 .. TakenBy(t, n, k) - TakenBy(t - 1, n, k) |->
                                 TakenBy(t - 1, n, k) + i]
<1> DEFINE T(u) == TakenBy(u, n, k)
           each == n \div k
           rest == n % k
<1>1. each \in Nat /\ rest \in Nat
  OBVIOUS
<1> HIDE DEF each, rest
<1>2. t * each = (t - 1) * each + each
  BY <1>1
<1>3. T(t - 1) = (t - 1) * each + (IF t - 1 < rest THEN t - 1 ELSE rest)
  BY DEF TakenBy, each, rest
<1>4. T(t) - T(t - 1) = each + (IF t <= rest THEN 1 ELSE 0)
  <2>1. (t - 1) * each \in Nat
    BY <1>1
  <2> QED
    BY <1>1, <1>2, <1>3, <2>1 DEF TakenBy, each, rest
<1> QED
  BY <1>3, <1>4 DEF ShareOf, each, rest

(* The shares of the threads are apart and hold each index once. *)
LEMMA ShareFacts ==
    ASSUME NEW n \in Nat, NEW k \in Nat \ {0}
    PROVE  /\ \A t \in 1 .. k : ShareOf(t, n, k) \in Seq(1 .. n)
           /\ \A t \in 1 .. k : \A i, j \in 1 .. Len(ShareOf(t, n, k)) :
                 i # j => ShareOf(t, n, k)[i] # ShareOf(t, n, k)[j]
           /\ \A t, u \in 1 .. k : t # u =>
                 \A i \in 1 .. Len(ShareOf(t, n, k)) :
                 \A j \in 1 .. Len(ShareOf(u, n, k)) :
                     ShareOf(t, n, k)[i] # ShareOf(u, n, k)[j]
<1> DEFINE T(t) == TakenBy(t, n, k)
<1>1. /\ \A t \in 0 .. k : T(t) \in Nat
      /\ T(k) = n
      /\ \A t, u \in 0 .. k : t <= u => T(t) <= T(u)
  BY TakenFacts
<1>2. ASSUME NEW t \in 1 .. k
      PROVE  /\ t - 1 \in 0 .. k /\ t \in 0 .. k
             /\ ShareOf(t, n, k) = [i \in 1 .. T(t) - T(t - 1) |-> T(t - 1) + i]
  BY ShareIs
<1> HIDE DEF T
<1>3. ASSUME NEW t \in 1 .. k
      PROVE  /\ ShareOf(t, n, k) \in Seq(1 .. n)
             /\ Len(ShareOf(t, n, k)) = T(t) - T(t - 1)
             /\ \A i \in 1 .. Len(ShareOf(t, n, k)) :
                   /\ ShareOf(t, n, k)[i] = T(t - 1) + i
                   /\ T(t - 1) < ShareOf(t, n, k)[i]
                   /\ ShareOf(t, n, k)[i] <= T(t)
  <2> DEFINE m == T(t) - T(t - 1)
  <2>1. m \in Nat /\ T(t) <= n /\ T(t - 1) \in Nat /\ T(t) \in Nat
    BY <1>1, <1>2
  <2>2. ShareOf(t, n, k) = [i \in 1 .. m |-> T(t - 1) + i]
    BY <1>2
  <2>3. \A i \in 1 .. m : T(t - 1) + i \in 1 .. n /\ T(t - 1) + i <= T(t)
    BY <2>1
  <2> HIDE DEF m
  <2>4. ShareOf(t, n, k) \in [1 .. m -> 1 .. n]
    BY <2>2, <2>3
  <2>5. ShareOf(t, n, k) \in Seq(1 .. n) /\ Len(ShareOf(t, n, k)) = m
    BY <2>1, <2>4, IsASeq, LenProperties
  <2> QED
    BY <2>1, <2>2, <2>3, <2>5 DEF m
<1>4. ASSUME NEW t \in 1 .. k, NEW u \in 1 .. k, t # u,
             NEW i \in 1 .. Len(ShareOf(t, n, k)),
             NEW j \in 1 .. Len(ShareOf(u, n, k))
      PROVE  ShareOf(t, n, k)[i] # ShareOf(u, n, k)[j]
  <2>1. /\ T(t - 1) < ShareOf(t, n, k)[i] /\ ShareOf(t, n, k)[i] <= T(t)
        /\ T(u - 1) < ShareOf(u, n, k)[j] /\ ShareOf(u, n, k)[j] <= T(u)
        /\ ShareOf(t, n, k)[i] = T(t - 1) + i /\ ShareOf(u, n, k)[j] = T(u - 1) + j
    BY <1>3
  <2>2. T(t - 1) \in Nat /\ T(t) \in Nat /\ T(u - 1) \in Nat /\ T(u) \in Nat
    BY <1>1, <1>2
  <2>3. i \in Int /\ j \in Int
    BY <1>3, <2>2
  <2>4. T(t) <= T(u - 1) \/ T(u) <= T(t - 1)
    <3>1. t <= u - 1 \/ u <= t - 1
      BY <1>4
    <3> QED
      BY <3>1, <1>1, <1>2
  <2>5. \A x, y, a, b, c, d \in Int :
           /\ a < x /\ x <= b /\ c < y /\ y <= d
           /\ (b <= c \/ d <= a)
           => x # y
    OBVIOUS
  <2>6. ShareOf(t, n, k)[i] \in Int /\ ShareOf(u, n, k)[j] \in Int
    <3>1. \A a \in Nat, b \in Int : a + b \in Int
      OBVIOUS
    <3>2. T(t - 1) + i \in Int /\ T(u - 1) + j \in Int
      BY <3>1, <2>2, <2>3
    <3> QED
      BY <2>1, <3>2
  <2> QED
    BY <2>1, <2>2, <2>4, <2>5, <2>6
<1>5. ASSUME NEW t \in 1 .. k, NEW i \in 1 .. Len(ShareOf(t, n, k)),
             NEW j \in 1 .. Len(ShareOf(t, n, k)), i # j
      PROVE  ShareOf(t, n, k)[i] # ShareOf(t, n, k)[j]
  <2>1. /\ ShareOf(t, n, k)[i] = T(t - 1) + i
        /\ ShareOf(t, n, k)[j] = T(t - 1) + j
        /\ T(t - 1) \in Nat /\ T(t) \in Nat
        /\ Len(ShareOf(t, n, k)) = T(t) - T(t - 1)
    BY <1>1, <1>2, <1>3
  <2>2. i \in Int /\ j \in Int
    BY <2>1
  <2> QED
    BY <2>1, <2>2, <1>5
<1> QED
  BY <1>3, <1>4, <1>5

LEMMA SampleThreads ==
    ASSUME check \in Calls, check.op = "samples"
    PROVE  /\ check.confs \in Seq(CheckedConfs) /\ check.desired \in Nat
           /\ check.threads \in Nat \ {0}
           /\ Threads = 1 .. check.threads
           /\ Cardinality(Threads) = check.threads
           /\ Indices = 1 .. Len(check.confs) /\ Len(check.confs) \in Nat
<1>1. check.confs \in Seq(CheckedConfs) /\ check.desired \in Nat
      /\ check.threads \in Nat \ {0}
  BY CallsAssumption
<1>2. Threads = 1 .. check.threads
  BY DEF Threads, Parallel
<1>3. Cardinality(1 .. check.threads) = check.threads
  BY <1>1, FS_Interval
<1>4. Indices = 1 .. Len(check.confs) /\ Len(check.confs) \in Nat
  BY <1>1, LenProperties DEF Indices
<1> QED
  BY <1>1, <1>2, <1>3, <1>4

LEMMA SamplesInit == ChecksInit => SamplesInv
<1> SUFFICES ASSUME ChecksInit, check.op = "samples"
             PROVE  SampleTypes /\ SharesApart /\ PhasesFit /\ KeptFits
  BY DEF ChecksInit, SamplesInv
<1> DEFINE n == Len(check.confs)
           k == check.threads
<1>1. /\ check \in Calls /\ check.confs \in Seq(CheckedConfs)
      /\ k \in Nat \ {0} /\ n \in Nat
      /\ Threads = 1 .. k /\ Cardinality(Threads) = k /\ Indices = 1 .. n
  BY SampleThreads DEF ChecksInit
<1>2. share = [t \in 1 .. k |-> ShareOf(t, n, k)]
  BY <1>1 DEF ChecksInit
<1>3. /\ phase = [t \in 1 .. k |-> "next"] /\ kept = <<>> /\ torn = FALSE
      /\ fate = [i \in Indices |-> "open"] /\ growing = None /\ returned = FALSE
      /\ pending = [t \in Threads |-> pending[t]]
  BY <1>1 DEF ChecksInit, Indices
<1> HIDE DEF n, k
<1>4. SampleTypes
  <2>1. share \in [Threads -> Seq(Indices)]
    BY <1>1, <1>2, ShareFacts
  <2>2. phase \in [Threads -> SamplePhases]
    BY <1>1, <1>3 DEF SamplePhases
  <2>3. /\ fate \in [Indices -> {"open", "skipped", "dropped", "kept"}]
        /\ kept \in Seq([from : Indices, conf : CheckedConfs])
    BY <1>3
  <2> QED
    BY <2>1, <2>2, <2>3, <1>1, <1>3 DEF SampleTypes
<1>5. SharesApart
  <2>1. \A t \in Threads : share[t] = ShareOf(t, n, k) /\ share[t] \in Seq(Indices)
    BY <1>1, <1>2, ShareFacts
  <2>2. \A t \in Threads : \A j \in 1 .. Len(share[t]) : fate[share[t][j]] = "open"
    BY <2>1, <1>3, ElementOfSeq
  <2>3. /\ \A t \in 1 .. k : \A i, j \in 1 .. Len(ShareOf(t, n, k)) :
              i # j => ShareOf(t, n, k)[i] # ShareOf(t, n, k)[j]
        /\ \A t, u \in 1 .. k : t # u =>
              \A i \in 1 .. Len(ShareOf(t, n, k)) :
              \A j \in 1 .. Len(ShareOf(u, n, k)) :
                  ShareOf(t, n, k)[i] # ShareOf(u, n, k)[j]
    BY <1>1, ShareFacts
  <2>4. ASSUME NEW t \in Threads, NEW i \in 1 .. Len(share[t]),
               NEW j \in 1 .. Len(share[t]), i # j
        PROVE  share[t][i] # share[t][j]
    BY <2>1, <2>4, <2>3, <1>1
  <2>5. ASSUME NEW t \in Threads, NEW u \in Threads, t # u,
               NEW i \in 1 .. Len(share[t]), NEW j \in 1 .. Len(share[u])
        PROVE  share[t][i] # share[u][j]
    <3>1. /\ t \in 1 .. k /\ u \in 1 .. k
          /\ share[t] = ShareOf(t, n, k) /\ share[u] = ShareOf(u, n, k)
      BY <2>1, <1>1
    <3>2. i \in 1 .. Len(ShareOf(t, n, k)) /\ j \in 1 .. Len(ShareOf(u, n, k))
      BY <3>1
    <3>3. ShareOf(t, n, k)[i] # ShareOf(u, n, k)[j]
      BY <2>5, <2>3, <3>1, <3>2
    <3> QED
      BY <3>1, <3>3
  <2> QED
    BY <2>2, <2>4, <2>5 DEF SharesApart
<1>6. PhasesFit /\ KeptFits
  BY <1>1, <1>3 DEF PhasesFit, KeptFits
<1> QED
  BY <1>4, <1>5, <1>6

SampleState ==
    /\ check \in Calls /\ check.op = "samples" /\ ~returned
    /\ SampleTypes /\ SharesApart /\ PhasesFit /\ KeptFits

LEMMA ThreadsStay ==
    ASSUME check' = check
    PROVE  Threads' = Threads /\ Indices' = Indices
BY DEF Threads, Parallel, Indices

(* A thread is done with its index: nobody has that index any more. *)
LEMMA MovesOn ==
    ASSUME SampleState, NEW t \in Threads, share[t] # <<>>,
           NEW what \in {"skipped", "dropped", "kept"}, NextIndex(t, what),
           check' = check
    PROVE  /\ Turn(t) \in Indices /\ fate[Turn(t)] = "open"
           /\ share' \in [Threads -> Seq(Indices)]
           /\ phase' = [phase EXCEPT ![t] = "next"]
           /\ phase' \in [Threads -> SamplePhases]
           /\ fate' = [fate EXCEPT ![Turn(t)] = what]
           /\ fate' \in [Indices -> {"open", "skipped", "dropped", "kept"}]
           /\ \A u \in Threads \ {t} : share'[u] = share[u]
           /\ SharesApart'
<1>1. /\ share \in [Threads -> Seq(Indices)] /\ phase \in [Threads -> SamplePhases]
      /\ fate \in [Indices -> {"open", "skipped", "dropped", "kept"}]
  BY DEF SampleState, SampleTypes
<1>2. /\ share' = [share EXCEPT ![t] = Tail(share[t])]
      /\ fate' = [fate EXCEPT ![Turn(t)] = what]
      /\ phase' = [phase EXCEPT ![t] = "next"]
  BY DEF NextIndex, Goto
<1> DEFINE s == share[t]
<1>3. /\ s \in Seq(Indices) /\ s # <<>> /\ Turn(t) = s[1] /\ 1 \in 1 .. Len(s)
      /\ Tail(s) \in Seq(Indices) /\ Len(Tail(s)) = Len(s) - 1
      /\ \A j \in 1 .. Len(Tail(s)) :
            Tail(s)[j] = s[j + 1] /\ j + 1 \in 1 .. Len(s) /\ j + 1 # 1
  <2>1. s \in Seq(Indices) /\ s # <<>>
    BY <1>1
  <2> HIDE DEF s
  <2>2. Len(s) \in Nat \ {0}
    BY <2>1, EmptySeq, LenProperties
  <2>3. /\ Tail(s) \in Seq(Indices) /\ Len(Tail(s)) = Len(s) - 1
        /\ \A j \in 1 .. Len(Tail(s)) : Tail(s)[j] = s[j + 1]
    BY <2>1, HeadTailProperties
  <2> QED
    BY <2>1, <2>2, <2>3 DEF Turn, s
<1>4. Turn(t) \in Indices /\ fate[Turn(t)] = "open"
  BY <1>3, ElementOfSeq DEF SampleState, SharesApart
<1>5. /\ share' \in [Threads -> Seq(Indices)] /\ share'[t] = Tail(s)
      /\ \A u \in Threads \ {t} : share'[u] = share[u]
  BY <1>1, <1>2, <1>3
<1>6. SharesApart'
  <2>1. Threads' = Threads
    BY ThreadsStay
  <2>2. \A u \in Threads : \E d \in {0, 1} :
           /\ Len(share'[u]) = Len(share[u]) - d
           /\ u = t => d = 1
           /\ \A j \in 1 .. Len(share'[u]) :
                 share'[u][j] = share[u][j + d] /\ j + d \in 1 .. Len(share[u])
    <3>1. Len(share'[t]) = Len(share[t]) - 1
          /\ \A j \in 1 .. Len(share'[t]) :
                share'[t][j] = share[t][j + 1] /\ j + 1 \in 1 .. Len(share[t])
      BY <1>3, <1>5
    <3>2. ASSUME NEW u \in Threads, u # t
          PROVE  Len(share'[u]) = Len(share[u]) - 0
                 /\ \A j \in 1 .. Len(share'[u]) :
                       share'[u][j] = share[u][j + 0] /\ j + 0 \in 1 .. Len(share[u])
      <4>1. share'[u] = share[u] /\ Len(share[u]) \in Nat
        BY <1>1, <1>5, <3>2, LenProperties
      <4> QED
        BY <4>1
    <3> QED
      BY <3>1, <3>2
  <2>3. ASSUME NEW u \in Threads, NEW j \in 1 .. Len(share'[u])
        PROVE  fate'[share'[u][j]] = "open"
    <3>1. PICK d \in {0, 1} :
             /\ u = t => d = 1
             /\ share'[u][j] = share[u][j + d] /\ j + d \in 1 .. Len(share[u])
      BY <2>2, <2>3
    <3>2. share[u][j + d] # s[1]
      <4>1. CASE u = t
        <5>1. j + 1 # 1 /\ j + 1 \in 1 .. Len(s) /\ d = 1
          BY <3>1, <1>5, <4>1, <1>3
        <5> QED
          BY <5>1, <4>1, <1>3 DEF SampleState, SharesApart
      <4>2. CASE u # t
        BY <4>2, <3>1, <1>3 DEF SampleState, SharesApart
      <4> QED
        BY <4>1, <4>2
    <3>3. fate[share[u][j + d]] = "open" /\ share[u][j + d] \in Indices
      BY <3>1, <1>1, ElementOfSeq DEF SampleState, SharesApart
    <3> QED
      BY <3>1, <3>2, <3>3, <1>1, <1>2, <1>3
  <2>4. ASSUME NEW u \in Threads, NEW i \in 1 .. Len(share'[u]),
               NEW j \in 1 .. Len(share'[u]), i # j
        PROVE  share'[u][i] # share'[u][j]
    <3>1. PICK d \in {0, 1} :
             \A k \in 1 .. Len(share'[u]) :
                share'[u][k] = share[u][k + d] /\ k + d \in 1 .. Len(share[u])
      BY <2>2
    <3>2. \A a, b \in Nat : a # b => a + d # b + d
      OBVIOUS
    <3>3. i \in Nat /\ j \in Nat
      BY <1>5, LenProperties
    <3>4. i + d # j + d
      BY <3>2, <3>3, <2>4
    <3>5. /\ share'[u][i] = share[u][i + d] /\ i + d \in 1 .. Len(share[u])
          /\ share'[u][j] = share[u][j + d] /\ j + d \in 1 .. Len(share[u])
      BY <3>1
    <3> QED
      BY <3>4, <3>5 DEF SampleState, SharesApart
  <2>5. ASSUME NEW u \in Threads, NEW w \in Threads, u # w,
               NEW i \in 1 .. Len(share'[u]), NEW j \in 1 .. Len(share'[w])
        PROVE  share'[u][i] # share'[w][j]
    <3>1. PICK k \in 1 .. Len(share[u]) : share'[u][i] = share[u][k]
      BY <2>2
    <3>2. PICK m \in 1 .. Len(share[w]) : share'[w][j] = share[w][m]
      BY <2>2
    <3> QED
      BY <3>1, <3>2, <2>5 DEF SampleState, SharesApart
  <2> QED
    BY <2>1, <2>3, <2>4, <2>5 DEF SharesApart
<1> QED
  BY <1>1, <1>2, <1>4, <1>5, <1>6 DEF SamplePhases

(* An index that gives no sample leaves the list as it fits. *)
LEMMA NotKept ==
    ASSUME SampleState, NEW k \in Indices, fate[k] = "open",
           NEW what \in {"skipped", "dropped"},
           fate' = [fate EXCEPT ![k] = what],
           kept' = kept, check' = check, torn => torn',
           what = "skipped" /\ ~torn' => check.desired <= Len(kept)
    PROVE  KeptFits'
<1>1. fate \in [Indices -> {"open", "skipped", "dropped", "kept"}] /\ Indices' = Indices
  BY ThreadsStay DEF SampleState, SampleTypes
<1>2. \A i \in Indices : fate'[i] = IF i = k THEN what ELSE fate[i]
  BY <1>1
<1>3. \A i \in 1 .. Len(kept) : kept[i].from \in Indices
  <2>1. kept \in Seq([from : Indices, conf : CheckedConfs])
    BY DEF SampleState, SampleTypes
  <2>2. \A i \in 1 .. Len(kept) : kept[i] \in [from : Indices, conf : CheckedConfs]
    BY <2>1, ElementOfSeq
  <2> QED
    BY <2>2
<1>4. \A i \in 1 .. Len(kept) : FitsOptions(kept[i].conf) => FitsOptions(kept[i].conf)'
  BY DEF FitsOptions
<1>5. \A i \in 1 .. Len(kept) :
         /\ FitsOptions(kept[i].conf)'
         /\ fate'[kept[i].from] = "kept"
         /\ \A j \in 1 .. Len(kept) : i # j => kept[i].from # kept[j].from
  BY <1>2, <1>3, <1>4 DEF SampleState, KeptFits
<1>6. \A i \in Indices : fate'[i] = "kept" => \E j \in 1 .. Len(kept) : kept[j].from = i
  BY <1>2 DEF SampleState, KeptFits
<1>7. (\E i \in Indices : fate'[i] = "skipped") /\ ~torn' => check.desired <= Len(kept)
  BY <1>2 DEF SampleState, KeptFits
<1> QED
  BY <1>1, <1>5, <1>6, <1>7 DEF KeptFits

(* Nothing but phases, findings and the lock. *)
LEMMA SameFates ==
    ASSUME SampleState, fate' = fate, kept' = kept, check' = check, share' = share,
           torn => torn'
    PROVE  KeptFits' /\ SharesApart'
<1>1. Threads' = Threads /\ Indices' = Indices
  BY ThreadsStay
<1>2. \A i \in 1 .. Len(kept) : FitsOptions(kept[i].conf) => FitsOptions(kept[i].conf)'
  BY DEF FitsOptions
<1>3. KeptFits'
  BY <1>1, <1>2 DEF SampleState, KeptFits
<1> QED
  BY <1>1, <1>3 DEF SampleState, SharesApart

(* What a thread that is done with its index leaves behind. *)
LEMMA IndexDone ==
    ASSUME SampleState, NEW t \in Threads, share[t] # <<>>, phase[t] # "push",
           NEW what \in {"skipped", "dropped"}, NextIndex(t, what),
           check' = check, returned' = returned, growing' = growing,
           kept' = kept, torn' \in BOOLEAN, torn => torn',
           pending' = [u \in Threads |-> pending'[u]],
           \A u \in Threads \ {t} : pending'[u] = pending[u],
           what = "skipped" /\ ~torn' => check.desired <= Len(kept)
    PROVE  SamplesInv'
<1>1. /\ Turn(t) \in Indices /\ fate[Turn(t)] = "open"
      /\ share' \in [Threads -> Seq(Indices)]
      /\ phase' = [phase EXCEPT ![t] = "next"]
      /\ phase' \in [Threads -> SamplePhases]
      /\ fate' = [fate EXCEPT ![Turn(t)] = what]
      /\ fate' \in [Indices -> {"open", "skipped", "dropped", "kept"}]
      /\ \A u \in Threads \ {t} : share'[u] = share[u]
      /\ SharesApart'
  BY MovesOn
<1>2. KeptFits'
  BY <1>1, NotKept
<1>3. Threads' = Threads /\ Indices' = Indices
  BY ThreadsStay
<1>4. SampleTypes'
  BY <1>1, <1>3 DEF SampleState, SampleTypes
<1>5. PhasesFit'
  <2>1. phase'[t] = "next" /\ \A u \in Threads \ {t} : phase'[u] = phase[u]
    BY <1>1 DEF SampleState, SampleTypes
  <2>2. \A q : FitsOptions(q)' <=> FitsOptions(q)
    BY DEF FitsOptions
  <2>3. growing # None => growing # t
    BY DEF SampleState, PhasesFit
  <2> QED
    BY <1>1, <1>3, <2>1, <2>2, <2>3 DEF SampleState, SampleTypes, PhasesFit
<1> QED
  BY <1>1, <1>2, <1>4, <1>5 DEF SampleState, SamplesInv

(* What a thread that goes on with its index leaves behind. *)
LEMMA IndexGoesOn ==
    ASSUME SampleState, NEW t \in Threads, share[t] # <<>>, phase[t] # "push",
           NEW where \in SamplePhases \ {"next"}, Goto(t, where),
           check' = check, returned' = returned, growing' = growing,
           kept' = kept, share' = share, fate' = fate,
           torn' \in BOOLEAN, torn => torn',
           pending' = [u \in Threads |-> pending'[u]],
           \A u \in Threads \ {t} : pending'[u] = pending[u],
           where \in {"guess", "project"} => check.projection,
           where = "push" => pending'[t] \in CheckedConfs /\ FitsOptions(pending'[t])
    PROVE  SamplesInv'
<1>1. KeptFits' /\ SharesApart'
  BY SameFates
<1>2. phase' = [phase EXCEPT ![t] = where] /\ phase \in [Threads -> SamplePhases]
  BY DEF Goto, SampleState, SampleTypes
<1>3. Threads' = Threads /\ Indices' = Indices
  BY ThreadsStay
<1>4. SampleTypes'
  BY <1>2, <1>3 DEF SampleState, SampleTypes
<1>5. PhasesFit'
  <2>1. phase'[t] = where /\ \A u \in Threads \ {t} : phase'[u] = phase[u]
    BY <1>2
  <2>2. \A q : FitsOptions(q)' <=> FitsOptions(q)
    BY DEF FitsOptions
  <2>3. growing # None => growing # t
    BY DEF SampleState, PhasesFit
  <2> QED
    BY <1>2, <1>3, <2>1, <2>2, <2>3 DEF SampleState, SampleTypes, PhasesFit
<1> QED
  BY <1>1, <1>4, <1>5 DEF SampleState, SamplesInv

LEMMA StateFacts ==
    ASSUME SampleState
    PROVE  /\ torn \in BOOLEAN /\ check.desired \in Nat
           /\ pending = [u \in Threads |-> pending[u]]
           /\ Len(kept) \in Nat
           /\ \A u \in Threads : share[u] \in Seq(Indices)
           /\ \A u \in Threads : share[u] # <<>> => Conf(u) \in CheckedConfs
<1>1. check.confs \in Seq(CheckedConfs) /\ check.desired \in Nat
  BY SampleThreads DEF SampleState
<1>2. ASSUME NEW u \in Threads, share[u] # <<>>
      PROVE  Conf(u) \in CheckedConfs
  <2>1. share[u] \in Seq(Indices)
    BY DEF SampleState, SampleTypes
  <2>2. Head(share[u]) \in Indices
    BY <2>1, <1>2, HeadTailProperties
  <2> QED
    BY <2>2, <1>1, ElementOfSeq DEF Conf, Turn, Indices
<1> QED
  BY <1>1, <1>2, LenProperties DEF SampleState, SampleTypes

LEMMA PeekStep == ASSUME SampleState, NEW t \in Threads, Peek(t) PROVE SamplesInv'
<1>1. /\ phase[t] = "next" /\ share[t] # <<>> /\ torn' = (torn \/ growing # None)
      /\ check' = check /\ returned' = returned /\ growing' = growing
      /\ kept' = kept /\ pending' = pending
  BY DEF Peek, Reaches
<1>2. /\ torn' \in BOOLEAN /\ (torn => torn')
      /\ pending' = [u \in Threads |-> pending'[u]]
      /\ \A u \in Threads \ {t} : pending'[u] = pending[u]
  BY <1>1, StateFacts
<1>3. PICK size \in SizesSeen : IF size >= check.desired
        THEN NextIndex(t, "skipped")
        ELSE Goto(t, "judge") /\ UNCHANGED <<share, fate>>
  BY DEF Peek
<1>4. CASE size >= check.desired
  <2>1. ~torn' => check.desired <= Len(kept)
    BY <1>1, <1>3, <1>4, StateFacts DEF SizesSeen
  <2> QED
    BY <1>1, <1>2, <1>3, <1>4, <2>1, IndexDone
<1>5. CASE ~(size >= check.desired)
  <2>1. Goto(t, "judge") /\ share' = share /\ fate' = fate
    BY <1>3, <1>5
  <2> QED
    BY <1>1, <1>2, <2>1, IndexGoesOn DEF SamplePhases
<1> QED
  BY <1>4, <1>5

LEMMA JudgeStep == ASSUME SampleState, NEW t \in Threads, Judge(t) PROVE SamplesInv'
<1>1. /\ phase[t] = "judge" /\ pending' = [pending EXCEPT ![t] = Conf(t)]
      /\ check' = check /\ returned' = returned /\ growing' = growing
      /\ kept' = kept /\ torn' = torn
  BY DEF Judge, Reaches
<1>2. share[t] # <<>>
  BY <1>1 DEF SampleState, PhasesFit
<1>3. /\ torn' \in BOOLEAN /\ (torn => torn')
      /\ pending' = [u \in Threads |-> pending'[u]]
      /\ pending'[t] = Conf(t) /\ Conf(t) \in CheckedConfs
      /\ \A u \in Threads \ {t} : pending'[u] = pending[u]
  BY <1>1, <1>2, StateFacts
<1>4. CASE Satisfied(Conf(t)) = ~check.invalid /\ Goto(t, "push")
           /\ UNCHANGED <<share, fate>>
  <2>1. FitsOptions(pending'[t])
    BY <1>3, <1>4 DEF FitsOptions
  <2> QED
    BY <1>1, <1>2, <1>3, <1>4, <2>1, IndexGoesOn DEF SamplePhases
<1>5. CASE check.projection /\ Goto(t, "guess") /\ UNCHANGED <<share, fate>>
  BY <1>1, <1>2, <1>3, <1>5, IndexGoesOn DEF SamplePhases
<1>6. CASE NextIndex(t, "dropped")
  BY <1>1, <1>2, <1>3, <1>6, IndexDone
<1> QED
  BY <1>4, <1>5, <1>6 DEF Judge

LEMMA GuessStep == ASSUME SampleState, NEW t \in Threads, Guess(t) PROVE SamplesInv'
<1>1. /\ phase[t] = "guess" /\ torn' = (torn \/ growing # None)
      /\ check' = check /\ returned' = returned /\ growing' = growing
      /\ kept' = kept /\ pending' = pending
  BY DEF Guess, Reaches
<1>2. share[t] # <<>> /\ check.projection
  BY <1>1 DEF SampleState, PhasesFit
<1>3. /\ torn' \in BOOLEAN /\ (torn => torn')
      /\ pending' = [u \in Threads |-> pending'[u]]
      /\ \A u \in Threads \ {t} : pending'[u] = pending[u]
  BY <1>1, StateFacts
<1>4. CASE NextIndex(t, "dropped")
  BY <1>1, <1>2, <1>3, <1>4, IndexDone
<1>5. CASE Goto(t, "project") /\ UNCHANGED <<share, fate>>
  BY <1>1, <1>2, <1>3, <1>5, IndexGoesOn DEF SamplePhases
<1> QED
  BY <1>4, <1>5 DEF Guess

LEMMA ProjectStep ==
    ASSUME SampleState, NEW t \in Threads, Project(t) PROVE SamplesInv'
<1>1. /\ phase[t] = "project" /\ torn' = torn
      /\ check' = check /\ returned' = returned /\ growing' = growing
      /\ kept' = kept
  BY DEF Project, Reaches
<1>2. share[t] # <<>> /\ check.projection
  BY <1>1 DEF SampleState, PhasesFit
<1>3. torn' \in BOOLEAN /\ (torn => torn')
  BY <1>1, StateFacts
<1>4. CASE NextIndex(t, "dropped") /\ UNCHANGED pending
  <2>1. /\ pending' = [u \in Threads |-> pending'[u]]
        /\ \A u \in Threads \ {t} : pending'[u] = pending[u]
    BY <1>4, StateFacts
  <2> QED
    BY <1>1, <1>2, <1>3, <1>4, <2>1, IndexDone
<1>5. ASSUME NEW q \in CheckedConfs, Satisfied(q),
             pending' = [pending EXCEPT ![t] = q],
             Goto(t, "push"), UNCHANGED <<share, fate>>
      PROVE  SamplesInv'
  <2>1. /\ pending' = [u \in Threads |-> pending'[u]] /\ pending'[t] = q
        /\ \A u \in Threads \ {t} : pending'[u] = pending[u]
    BY <1>5, StateFacts
  <2>2. FitsOptions(pending'[t])
    BY <1>2, <1>5, <2>1 DEF FitsOptions
  <2> QED
    BY <1>1, <1>2, <1>3, <1>5, <2>1, <2>2, IndexGoesOn DEF SamplePhases
<1> QED
  BY <1>4, <1>5 DEF Project

LEMMA LockStep == ASSUME SampleState, NEW t \in Threads, Lock(t) PROVE SamplesInv'
<1>1. /\ phase[t] = "push" /\ growing' = t
      /\ UNCHANGED <<check, share, phase, pending, kept, fate, torn, returned>>
  BY DEF Lock, Reaches
<1>2. KeptFits' /\ SharesApart'
  BY <1>1, SameFates
<1>3. Threads' = Threads /\ Indices' = Indices
  BY <1>1, ThreadsStay
<1>4. SampleTypes'
  BY <1>1, <1>3 DEF SampleState, SampleTypes
<1>5. PhasesFit'
  <2>1. \A q : FitsOptions(q)' <=> FitsOptions(q)
    BY <1>1 DEF FitsOptions
  <2> QED
    BY <1>1, <1>3, <2>1 DEF SampleState, PhasesFit
<1> QED
  BY <1>1, <1>2, <1>4, <1>5 DEF SampleState, SamplesInv

LEMMA PushStep == ASSUME SampleState, NEW t \in Threads, Push(t) PROVE SamplesInv'
<1> DEFINE r == [from |-> Turn(t), conf |-> pending[t]]
<1>1. /\ phase[t] = "push" /\ growing = t /\ growing' = None
      /\ kept' = Append(kept, r) /\ NextIndex(t, "kept")
      /\ UNCHANGED <<check, pending, torn, returned>>
  BY DEF Push, Reaches
<1>2. /\ share[t] # <<>> /\ pending[t] \in CheckedConfs /\ FitsOptions(pending[t])
  BY <1>1 DEF SampleState, PhasesFit
<1>3. /\ Turn(t) \in Indices /\ fate[Turn(t)] = "open"
      /\ share' \in [Threads -> Seq(Indices)]
      /\ phase' = [phase EXCEPT ![t] = "next"]
      /\ phase' \in [Threads -> SamplePhases]
      /\ fate' = [fate EXCEPT ![Turn(t)] = "kept"]
      /\ fate' \in [Indices -> {"open", "skipped", "dropped", "kept"}]
      /\ \A u \in Threads \ {t} : share'[u] = share[u]
      /\ SharesApart'
  BY <1>1, <1>2, MovesOn
<1>4. /\ r \in [from : Indices, conf : CheckedConfs]
      /\ r.from = Turn(t) /\ r.conf = pending[t]
  BY <1>2, <1>3
<1> HIDE DEF r
<1>5. kept \in Seq([from : Indices, conf : CheckedConfs])
      /\ fate \in [Indices -> {"open", "skipped", "dropped", "kept"}]
  BY DEF SampleState, SampleTypes
<1>6. /\ kept' \in Seq([from : Indices, conf : CheckedConfs])
      /\ Len(kept') = Len(kept) + 1 /\ Len(kept) \in Nat
      /\ kept'[Len(kept) + 1] = r
      /\ \A i \in 1 .. Len(kept) : kept'[i] = kept[i]
  BY <1>1, <1>4, <1>5, AppendProperties, LenProperties
<1>7. Threads' = Threads /\ Indices' = Indices
  BY <1>1, ThreadsStay
<1>8. \A q : FitsOptions(q)' <=> FitsOptions(q)
  BY <1>1 DEF FitsOptions
<1>9. SampleTypes'
  BY <1>1, <1>3, <1>6, <1>7 DEF SampleState, SampleTypes
<1>10. PhasesFit'
  <2>1. phase'[t] = "next" /\ \A u \in Threads \ {t} : phase'[u] = phase[u]
    BY <1>3 DEF SampleState, SampleTypes
  <2> QED
    BY <1>1, <1>3, <1>7, <1>8, <2>1 DEF SampleState, SampleTypes, PhasesFit
<1>11. KeptFits'
  <2>1. \A k \in Indices : fate'[k] = IF k = Turn(t) THEN "kept" ELSE fate[k]
    BY <1>3, <1>5
  <2>2. \A i \in 1 .. Len(kept) :
           /\ kept[i].from \in Indices /\ kept[i].from # Turn(t)
           /\ fate[kept[i].from] = "kept" /\ FitsOptions(kept[i].conf)
           /\ \A j \in 1 .. Len(kept) : i # j => kept[i].from # kept[j].from
    <3>1. \A i \in 1 .. Len(kept) : kept[i] \in [from : Indices, conf : CheckedConfs]
      BY <1>5, ElementOfSeq
    <3> QED
      BY <3>1, <1>3 DEF SampleState, KeptFits
  <2>3. \A i \in 1 .. Len(kept') : i \in 1 .. Len(kept) \/ i = Len(kept) + 1
    BY <1>6
  <2>4. ASSUME NEW i \in 1 .. Len(kept')
        PROVE  /\ FitsOptions(kept'[i].conf)
               /\ fate'[kept'[i].from] = "kept"
               /\ \A j \in 1 .. Len(kept') : i # j => kept'[i].from # kept'[j].from
    <3>1. CASE i \in 1 .. Len(kept)
      BY <3>1, <2>1, <2>2, <2>3, <1>4, <1>6
    <3>2. CASE i = Len(kept) + 1
      BY <3>2, <2>1, <2>2, <2>3, <1>2, <1>3, <1>4, <1>6
    <3> QED
      BY <2>3, <3>1, <3>2
  <2>5. ASSUME NEW k \in Indices, fate'[k] = "kept"
        PROVE  \E i \in 1 .. Len(kept') : kept'[i].from = k
    <3>1. CASE k = Turn(t)
      <4>1. Len(kept) + 1 \in 1 .. Len(kept')
        BY <1>6
      <4> QED
        BY <3>1, <4>1, <1>4, <1>6
    <3>2. CASE k # Turn(t)
      <4>1. PICK i \in 1 .. Len(kept) : kept[i].from = k
        BY <3>2, <2>1, <2>5 DEF SampleState, KeptFits
      <4>2. i \in 1 .. Len(kept')
        BY <1>6
      <4> QED
        BY <4>1, <4>2, <1>6
    <3> QED
      BY <3>1, <3>2
  <2>6. (\E k \in Indices : fate'[k] = "skipped") /\ ~torn' =>
           check.desired <= Len(kept')
    <3>1. ASSUME NEW k \in Indices, fate'[k] = "skipped", ~torn'
          PROVE  check.desired <= Len(kept)
      BY <3>1, <2>1, <1>1 DEF SampleState, KeptFits
    <3> QED
      BY <3>1, <1>6, StateFacts
  <2> QED
    BY <1>1, <1>7, <1>8, <2>4, <2>5, <2>6 DEF KeptFits
<1> QED
  BY <1>1, <1>3, <1>9, <1>10, <1>11 DEF SampleState, SamplesInv

LEMMA CountOrigins ==
    ASSUME NEW n \in Nat, NEW f \in [1 .. n -> Nat],
           \A i, j \in 1 .. n : i # j => f[i] # f[j]
    PROVE  Cardinality({f[i] : i \in 1 .. n}) = n
<1> DEFINE T == {f[i] : i \in 1 .. n}
<1>1. f \in [1 .. n -> T] /\ \A y \in T : \E i \in 1 .. n : f[i] = y
  OBVIOUS
<1> HIDE DEF T
<1>2. f \in Bijection(1 .. n, T)
  <2>1. f \in Injection(1 .. n, T)
    BY <1>1, Fun_IsInj
  <2>2. f \in Surjection(1 .. n, T)
    BY <1>1, Fun_IsSurj
  <2> QED
    BY <2>1, <2>2, Fun_IsBij DEF Bijection
<1>3. ExistsBijection(1 .. n, T)
  BY <1>2 DEF ExistsBijection
<1>4. Cardinality(T) = n
  <2>1. IsFiniteSet(1 .. n)
    BY FS_Interval
  <2>2. Cardinality(1 .. n) = n
    BY FS_Interval
  <2>3. Cardinality(T) = Cardinality(1 .. n)
    BY <1>3, <2>1, FS_Bijection
  <2> QED
    BY <2>2, <2>3
<1> QED
  BY <1>4 DEF T

LEMMA ReturnSamplesStep == ASSUME SampleState, ReturnSamples PROVE SamplesInv'
<1> DEFINE cut == check.truncate /\ Len(kept) > check.desired
<1>1. /\ returned' = TRUE /\ UNCHANGED <<check, fate, torn>>
      /\ kept' = IF cut THEN SubSeq(kept, 1, check.desired) ELSE kept
      /\ check.desired \in Nat /\ Len(kept) \in Nat
  BY StateFacts DEF ReturnSamples
<1> DEFINE K == [from : Indices, conf : CheckedConfs]
<1>2. kept \in Seq(K) /\ Indices' = Indices
  BY <1>1, ThreadsStay DEF SampleState, SampleTypes
<1>3. Indices \subseteq Nat
  BY SampleThreads DEF SampleState
<1>4. /\ kept' \in Seq(K) /\ Len(kept') \in Nat /\ Len(kept') <= Len(kept)
      /\ Len(kept') = IF cut THEN check.desired ELSE Len(kept)
      /\ \A i \in 1 .. Len(kept') : i \in 1 .. Len(kept) /\ kept'[i] = kept[i]
  <2>1. CASE cut
    <3>1. /\ SubSeq(kept, 1, check.desired) \in Seq(K)
          /\ Len(SubSeq(kept, 1, check.desired)) = check.desired
          /\ \A i \in 1 .. check.desired :
                SubSeq(kept, 1, check.desired)[i] = kept[i]
      <4>1. \A i \in 1 .. check.desired : kept[i] \in K /\ kept[1 + i - 1] = kept[i]
        <5> HIDE DEF K
        <5>1. \A i \in 1 .. check.desired : i \in 1 .. Len(kept) /\ 1 + i - 1 = i
          BY <1>1, <2>1
        <5> QED
          BY <5>1, <1>2, ElementOfSeq
      <4> DEFINE d == check.desired
      <4>2. d \in Int /\ d - 1 + 1 = d /\ (1 <= d \/ d = 0)
        BY <1>1
      <4> HIDE DEF K, d
      <4>3. /\ SubSeq(kept, 1, d) \in Seq(K)
            /\ Len(SubSeq(kept, 1, d)) = IF 1 <= d THEN d - 1 + 1 ELSE 0
            /\ \A i \in 1 .. d - 1 + 1 : SubSeq(kept, 1, d)[i] = kept[1 + i - 1]
        BY <4>1, <4>2, SubSeqProperties DEF d
      <4>4. Len(SubSeq(kept, 1, d)) = d
        BY <4>2, <4>3
      <4> QED
        BY <4>1, <4>2, <4>3, <4>4 DEF d
    <3>2. kept' = SubSeq(kept, 1, check.desired)
      BY <2>1, <1>1
    <3>3. check.desired <= Len(kept)
      BY <2>1, <1>1
    <3> HIDE DEF K
    <3> QED
      BY <3>1, <3>2, <3>3, <2>1, <1>1
  <2>2. CASE ~cut
    BY <2>2, <1>1, <1>2
  <2> QED
    BY <2>1, <2>2
<1> HIDE DEF cut
<1>5. \A i \in 1 .. Len(kept') :
         /\ FitsOptions(kept'[i].conf)
         /\ kept'[i].from \in Indices /\ fate[kept'[i].from] = "kept"
         /\ \A j \in 1 .. Len(kept') : i # j => kept'[i].from # kept'[j].from
  <2>1. \A i \in 1 .. Len(kept) : kept[i].from \in Indices
    <3>1. \A i \in 1 .. Len(kept) : kept[i] \in K
      <4> HIDE DEF K
      <4> QED
        BY <1>2, ElementOfSeq
    <3> QED
      BY <3>1
  <2> QED
    BY <2>1, <1>4 DEF SampleState, KeptFits
<1> DEFINE origins == {kept'[i].from : i \in DOMAIN kept'}
<1>6. DOMAIN kept' = 1 .. Len(kept')
  BY <1>4, LenProperties
<1>7. Cardinality(origins) = Len(kept')
  <2> DEFINE f == [i \in 1 .. Len(kept') |-> kept'[i].from]
  <2>1. f \in [1 .. Len(kept') -> Nat]
        /\ \A i, j \in 1 .. Len(kept') : i # j => f[i] # f[j]
    BY <1>3, <1>5
  <2>2. origins = {f[i] : i \in 1 .. Len(kept')}
    BY <1>6
  <2> HIDE DEF f, origins
  <2> QED
    BY <2>1, <2>2, <1>4, CountOrigins
<1>8. \/ origins = {i \in Indices : fate[i] = "kept"}
      \/ check.truncate /\ Len(kept') = check.desired
  <2>1. CASE cut
    BY <2>1, <1>4 DEF cut
  <2>2. CASE ~cut
    <3>1. kept' = kept
      BY <2>2, <1>1
    <3>2. \A i \in Indices : fate[i] = "kept" => i \in origins
      BY <3>1, <1>6 DEF SampleState, KeptFits
    <3>3. \A i \in origins : i \in Indices /\ fate[i] = "kept"
      BY <1>5, <1>6
    <3> HIDE DEF origins
    <3> QED
      BY <3>2, <3>3
  <2> QED
    BY <2>1, <2>2
<1>9. check.truncate => Len(kept') <= check.desired
  BY <1>1, <1>4 DEF cut
<1>10. (Len(kept') < check.desired /\ ~torn) => \A i \in Indices : fate[i] # "skipped"
  <2> SUFFICES ASSUME Len(kept') < check.desired, ~torn, NEW i \in Indices,
                      fate[i] = "skipped"
               PROVE  FALSE
    OBVIOUS
  <2>1. check.desired <= Len(kept)
    BY DEF SampleState, KeptFits
  <2>2. Len(kept') = Len(kept)
    BY <1>1, <1>4
  <2> QED
    BY <1>1, <2>1, <2>2
<1>11. SamplesAreSound'
  BY <1>1, <1>2, <1>5, <1>6, <1>7, <1>8, <1>9, <1>10 DEF SamplesAreSound, FitsOptions
<1> QED
  BY <1>1, <1>11 DEF SampleState, SamplesInv

(* Every call that is not for samples, and every step that is not of one. *)
LEMMA OtherSteps ==
    ASSUME SamplesInv, [ChecksNext]_checkVars
    PROVE  /\ check' = check
           /\ check.op # "samples" \/ returned \/ UNCHANGED checkVars
                => SamplesInv'
<1>1. check' = check
  BY DEF ChecksNext, checkVars, Peek, Judge, Guess, Project, Lock, Push, PeekValid,
         JudgeOne, JudgeInTurn, Penalise, WalkEdge, CalcAndClassify, ReturnSamples,
         Verdict
<1>2. CASE check.op # "samples"
  BY <1>1, <1>2 DEF SamplesInv
<1>3. CASE check.op = "samples" /\ returned
  <2>1. SamplesInv /\ UNCHANGED checkVars => SamplesInv'
    BY DEF SamplesInv, checkVars, SamplesAreSound, SampleTypes, SharesApart,
           PhasesFit, KeptFits, FitsOptions, Threads, Parallel, Indices
  <2>2. UNCHANGED checkVars
    BY <1>3 DEF ChecksNext, Peek, Judge, Guess, Project, Lock, Push, PeekValid,
           JudgeOne, JudgeInTurn, Penalise, WalkEdge, CalcAndClassify, ReturnSamples,
           Verdict, Reaches
  <2> QED
    BY <2>1, <2>2 DEF checkVars
<1>4. CASE UNCHANGED checkVars
  BY <1>4 DEF SamplesInv, checkVars, SamplesAreSound, SampleTypes, SharesApart,
           PhasesFit, KeptFits, FitsOptions, Threads, Parallel, Indices
<1> QED
  BY <1>1, <1>2, <1>3, <1>4

LEMMA ChecksStep == SamplesInv /\ [ChecksNext]_checkVars => SamplesInv'
<1> SUFFICES ASSUME SamplesInv, [ChecksNext]_checkVars PROVE SamplesInv'
  OBVIOUS
<1>1. CASE check.op # "samples" \/ returned \/ UNCHANGED checkVars
  BY <1>1, OtherSteps
<1>2. CASE check.op = "samples" /\ ~returned /\ ChecksNext
  <2>1. SampleState
    BY <1>2 DEF SamplesInv, SampleState
  <2>2. CASE ReturnSamples
    BY <2>1, <2>2, ReturnSamplesStep
  <2>3. ASSUME NEW t \in Threads,
               Peek(t) \/ Judge(t) \/ Guess(t) \/ Project(t) \/ Lock(t) \/ Push(t)
        PROVE  SamplesInv'
    BY <2>1, <2>3, PeekStep, JudgeStep, GuessStep, ProjectStep, LockStep, PushStep
  <2> QED
    BY <1>2, <2>2, <2>3 DEF ChecksNext, PeekValid, JudgeOne, JudgeInTurn, Penalise,
       WalkEdge, CalcAndClassify, Verdict
<1> QED
  BY <1>1, <1>2 DEF checkVars

(* The samples of a call: each fits the options, no index gives two and none *)
(* that gave one is lost, however the threads' appends interleave and        *)
(* whatever a size read in the middle of one says; a call that returns fewer *)
(* than desired has looked at every index or has read such a size            *)
(* (RobotConstraints::GenerateSamples).                                      *)
THEOREM SamplesSound == ChecksSpec => []SamplesAreSound
<1>1. SamplesInv => SamplesAreSound
  BY DEF SamplesInv, SamplesAreSound
<1> QED
  BY <1>1, SamplesInit, ChecksStep, PTL DEF ChecksSpec
-----------------------------------------------------------------------------
(***************************************************************************)
(* The other loops over configurations.                                    *)
(***************************************************************************)
(* A selection holds what is wanted, and nothing if nothing is.            *)
LEMMA SelectFacts ==
    ASSUME NEW S, NEW s \in Seq(S), NEW wanted
    PROVE  /\ Select(s, wanted) \in Seq(S)
           /\ (\A i \in 1 .. Len(s) : i \notin wanted) => Select(s, wanted) = <<>>
           /\ \A i \in 1 .. Len(s) : i \in wanted =>
                 \E k \in 1 .. Len(Select(s, wanted)) : Select(s, wanted)[k] = s[i]
<1> DEFINE n == Len(s)
           Add(i, k) == IF i \in wanted THEN Append(k, s[i]) ELSE k
           step == [z \in (1 .. n) \X Seq(S) |-> Add(z[1], z[2])]
           Steps(some) == some = [i \in 0 .. n |->
                            IF i = 0 THEN <<>>
                            ELSE IF i \in wanted THEN Append(some[i - 1], s[i])
                                 ELSE some[i - 1]]
           some == CHOOSE some : Steps(some)
<1>1. n \in Nat /\ \A i \in 1 .. n : s[i] \in S
  OBVIOUS
<1>2. \A i \in 1 .. n : \A k \in Seq(S) : Add(i, k) \in Seq(S)
  BY <1>1
<1>3. step \in [(1 .. n) \X Seq(S) -> Seq(S)]
  <2> SUFFICES ASSUME NEW z \in (1 .. n) \X Seq(S) PROVE Add(z[1], z[2]) \in Seq(S)
    OBVIOUS
  <2> HIDE DEF Add
  <2> QED
    BY <1>2
<1>4. \A i \in 1 .. n : \A k \in Seq(S) : step[<<i, k>>] = Add(i, k)
  OBVIOUS
<1> HIDE DEF step, Add
<1>5. PICK f \in [0 .. n -> Seq(S)] :
              f[0] = <<>> /\ \A i \in 1 .. n : f[i] = step[<<i, f[i - 1]>>]
  <2>1. Results(Seq(S), <<>>, n, step) # {}
    <3>1. <<>> \in Seq(S)
      OBVIOUS
    <3> QED
      BY <1>1, <1>3, <3>1, ResultsExist
  <2> QED
    BY <2>1 DEF Results
<1>6. \A i \in 1 .. n : f[i] = Add(i, f[i - 1])
  <2> SUFFICES ASSUME NEW i \in 1 .. n PROVE f[i] = Add(i, f[i - 1])
    OBVIOUS
  <2>1. i - 1 \in 0 .. n
    BY <1>1
  <2> QED
    BY <1>4, <1>5, <2>1
<1>7. Steps(f)
  <2>1. \A i \in 0 .. n : i # 0 => i \in 1 .. n
    BY <1>1
  <2> QED
    BY <1>5, <1>6, <2>1 DEF Add
<1>8. Steps(some)
  <2> HIDE DEF Steps
  <2> QED
    BY <1>7
<1>9. Select(s, wanted) = some[n]
  BY DEF Select
<1> HIDE DEF some
<1>10. some[0] = <<>> /\ \A i \in 1 .. n : some[i] = Add(i, some[i - 1])
  <2>1. 0 \in 0 .. n /\ \A i \in 1 .. n : i \in 0 .. n /\ i # 0
    BY <1>1
  <2> QED
    BY <1>8, <2>1 DEF Add
<1> DEFINE Good(m) ==
             /\ some[m] \in Seq(S)
             /\ (\A i \in 1 .. m : i \notin wanted) => some[m] = <<>>
             /\ \A i \in 1 .. m : i \in wanted =>
                   \E k \in 1 .. Len(some[m]) : some[m][k] = s[i]
           K == {m \in Nat : m <= n => Good(m)}
<1>11. Good(0)
  BY <1>10
<1>12. ASSUME NEW m \in Nat, m + 1 <= n, Good(m) PROVE Good(m + 1)
  <2> DEFINE k == some[m]
             c == s[m + 1]
             l == some[m + 1]
  <2>1. m + 1 \in 1 .. n /\ (m + 1) - 1 = m
    BY <1>1, <1>12
  <2>2. l = Add(m + 1, k) /\ c \in S /\ k \in Seq(S)
    BY <1>1, <1>10, <1>12, <2>1
  <2>3. \A i \in 1 .. (m + 1) : i \in 1 .. m \/ i = m + 1
    OBVIOUS
  <2>4. \A i \in 1 .. m : i \in wanted => \E j \in 1 .. Len(k) : k[j] = s[i]
    BY <1>12
  <2>5. (\A i \in 1 .. m : i \notin wanted) => k = <<>>
    BY <1>12
  <2>6. \A i \in 1 .. m : i \in 1 .. (m + 1)
    OBVIOUS
  <2> HIDE DEF k, l
  <2>7. CASE m + 1 \in wanted
    <3>1. l = Append(k, c)
      BY <2>2, <2>7 DEF Add
    <3> HIDE DEF c
    <3>2. /\ l \in Seq(S) /\ Len(l) = Len(k) + 1 /\ Len(k) \in Nat
          /\ \A j \in 1 .. Len(k) : l[j] = k[j]
          /\ l[Len(k) + 1] = c
      <4>1. /\ Append(k, c) \in Seq(S) /\ Len(Append(k, c)) = Len(k) + 1
            /\ Len(k) \in Nat /\ Append(k, c)[Len(k) + 1] = c
            /\ \A j \in 1 .. Len(k) : Append(k, c)[j] = k[j]
        BY <2>2
      <4> QED
        BY <3>1, <4>1
    <3>3. ASSUME NEW i \in 1 .. (m + 1), i \in wanted
          PROVE  \E j \in 1 .. Len(l) : l[j] = s[i]
      <4>1. CASE i = m + 1
        <5>1. Len(k) + 1 \in 1 .. Len(l)
          BY <3>2
        <5> QED
          BY <4>1, <3>2, <5>1 DEF c
      <4>2. CASE i \in 1 .. m
        <5>1. PICK j \in 1 .. Len(k) : k[j] = s[i]
          BY <2>4, <3>3, <4>2
        <5>2. j \in 1 .. Len(l) /\ l[j] = k[j]
          BY <3>2
        <5> QED
          BY <5>1, <5>2
      <4> QED
        BY <2>3, <4>1, <4>2
    <3>4. m + 1 \in 1 .. (m + 1)
      OBVIOUS
    <3> QED
      BY <2>7, <3>2, <3>3, <3>4 DEF l
  <2>8. CASE m + 1 \notin wanted
    <3>1. l = k
      BY <2>2, <2>8 DEF Add
    <3> QED
      BY <2>2, <2>3, <2>4, <2>5, <2>6, <2>8, <3>1 DEF l
  <2> QED
    BY <2>7, <2>8
<1>13. Nat \subseteq K
  <2>1. 0 \in K
    BY <1>11
  <2>2. ASSUME NEW k \in Nat, k \in K PROVE k + 1 \in K
    <3> HIDE DEF Good
    <3>1. k + 1 <= n => Good(k)
      BY <1>1, <2>2
    <3> QED
      BY <1>12, <3>1
  <2> HIDE DEF K
  <2> QED
    BY <2>1, <2>2, SetInduction
<1>14. Good(n)
  <2> HIDE DEF Good
  <2> QED
    BY <1>1, <1>13
<1> QED
  BY <1>9, <1>14

(* The strings of a configuration; none when every bound and every distance *)
(* is kept.                                                                 *)
Strings == STRING \cup {"collision"}
ConstraintType == [name : STRING, lower : Int, upper : Int]

LEMMA ConstraintTypes ==
    /\ NonCollision \in Seq(ConstraintType)
    /\ DOMAIN NonCollision = 1 .. Len(NonCollision)
    /\ \A i \in DOMAIN NonCollision :
          /\ NonCollision[i].name \in STRING
          /\ NonCollision[i].lower \in Int /\ NonCollision[i].upper \in Int
<1>1. /\ Adapter.position \in Seq(ConstraintType) /\ Adapter.angle \in Seq(ConstraintType)
      /\ Adapter.joint \in Seq(ConstraintType)
  BY ConstraintsAssumption DEF ConstraintType
<1>2. NonCollision \in Seq(ConstraintType)
  <2>1. \A s, t \in Seq(ConstraintType) : s \o t \in Seq(ConstraintType)
    OBVIOUS
  <2> QED
    BY <1>1, <2>1 DEF NonCollision, ReducedConstraints
<1> HIDE DEF NonCollision
<1>3. \A i \in DOMAIN NonCollision : NonCollision[i] \in ConstraintType
  BY <1>2
<1> QED
  BY <1>2, <1>3 DEF ConstraintType

LEMMA ViolatedTypes ==
    ASSUME NEW q
    PROVE  Violated(q) \in Seq(Strings)
<1> DEFINE names == [i \in DOMAIN NonCollision |-> NonCollision[i].name]
           bad == {i \in DOMAIN NonCollision : ~Admits(q, NonCollision[i], Tolerance)}
           tail == IF CollisionFree(q) THEN <<>> ELSE <<"collision">>
<1>1. names \in Seq(Strings)
  <2>1. Len(NonCollision) \in Nat
    BY ConstraintTypes
  <2> QED
    BY <2>1, ConstraintTypes DEF Strings
<1>2. tail \in Seq(Strings)
  <2>1. "collision" \in Strings
    BY DEF Strings
  <2> HIDE DEF Strings
  <2>2. <<"collision">> \in Seq(Strings) /\ <<>> \in Seq(Strings)
    BY <2>1
  <2> QED
    BY <2>2
<1> HIDE DEF names, bad, tail
<1>3. Select(names, bad) \in Seq(Strings)
  BY <1>1, SelectFacts
<1>4. Violated(q) = Select(names, bad) \o tail
  BY DEF Violated, names, bad, tail
<1> QED
  BY <1>2, <1>3, <1>4

(* What CalcPenalty finds valid without a tolerance satisfies.             *)
LEMMA StrictSatisfies ==
    ASSUME NEW q \in CheckedConfs, Strict(q)
    PROVE  Satisfied(q)
<1> DEFINE names == [i \in DOMAIN NonCollision |-> NonCollision[i].name]
           bad == {i \in DOMAIN NonCollision : ~Admits(q, NonCollision[i], Tolerance)}
           contacts == Contacts[q]
           hits(d) == {i \in DOMAIN contacts : Counts(contacts[i], d)}
           Pairs == [robot : Bodies, other : Bodies, gap : Int]
<1>1. bad = {}
  <2> SUFFICES ASSUME NEW i \in DOMAIN NonCollision
               PROVE  Admits(q, NonCollision[i], Tolerance)
    OBVIOUS
  <2>1. Admits(q, NonCollision[i], 0)
    BY DEF Strict
  <2>2. /\ NonCollision[i].lower \in Int /\ NonCollision[i].upper \in Int
        /\ Output[q][NonCollision[i].name] \in Int /\ Tolerance \in Nat
    BY ConstraintTypes, OutputsAssumption, ConstraintsAssumption
  <2>3. \A lower, upper, y \in Int, e \in Nat :
           lower - 0 <= y /\ y <= upper + 0 => lower - e <= y /\ y <= upper + e
    OBVIOUS
  <2> QED
    BY <2>1, <2>2, <2>3 DEF Admits
<1>2. names \in Seq(STRING) /\ Len(names) \in Nat
  BY ConstraintTypes
<1> HIDE DEF names
<1>3. Select(names, bad) = <<>>
  BY <1>1, <1>2, SelectFacts
<1>4. contacts \in Seq(Pairs)
  BY ConstraintsAssumption
<1>5. DOMAIN contacts = 1 .. Len(contacts)
  BY <1>4
<1> HIDE DEF contacts
<1>6. ASSUME NEW i \in DOMAIN contacts PROVE Distance(contacts[i]) \in Int
  <2> DEFINE c == contacts[i]
             paddings == CheckerAdapter.paddings
  <2>1. c.gap \in Int
    <3>1. c \in Pairs
      BY <1>4, <1>5, ElementOfSeq
    <3> QED
      BY <3>1
  <2>2. /\ paddings \in Seq([first : STRING, second : STRING, distance : Int])
        /\ DOMAIN paddings = 1 .. Len(paddings) /\ Len(paddings) \in Nat
        /\ \A j \in DOMAIN paddings : paddings[j].distance \in Int
    <3>1. paddings \in Seq([first : STRING, second : STRING, distance : Int])
      BY ConstraintsAssumption
    <3> HIDE DEF paddings
    <3>2. DOMAIN paddings = 1 .. Len(paddings) /\ Len(paddings) \in Nat
      BY <3>1, LenProperties
    <3>3. \A j \in DOMAIN paddings :
             paddings[j] \in [first : STRING, second : STRING, distance : Int]
      BY <3>1, <3>2, ElementOfSeq
    <3> QED
      BY <3>1, <3>2, <3>3
  <2> HIDE DEF c
  <2>3. Padding(c.robot, c.other) \in Int
    <3> DEFINE named == {j \in DOMAIN paddings :
                  LET p == paddings[j]
                  IN \/ c.robot \in Groups[p.first] /\ c.other \in Groups[p.second]
                     \/ c.other \in Groups[p.first] /\ c.robot \in Groups[p.second]}
    <3>1. named \subseteq 1 .. Len(paddings)
      BY <2>2
    <3>2. Padding(c.robot, c.other) =
            IF named = {} THEN 0
            ELSE paddings[CHOOSE j \in named : \A k \in named : k <= j].distance
      BY DEF Padding
    <3>3. named # {} => \E j \in named : \A k \in named : k <= j
      <4> DEFINE n == Len(paddings)
                 backwards == {n - j : j \in named}
      <4>0. n \in Nat /\ named \subseteq 1 .. n
        BY <3>1, <2>2
      <4> HIDE DEF named, n
      <4> SUFFICES ASSUME named # {} PROVE \E j \in named : \A k \in named : k <= j
        OBVIOUS
      <4>1. backwards \in SUBSET Nat /\ backwards # {}
        <5>1. \A j \in named : n - j \in Nat
          BY <4>0
        <5> QED
          BY <5>1
      <4>2. PICK x \in backwards : \A y \in backwards : x <= y
        <5> HIDE DEF backwards
        <5> QED
          BY <4>1, LeastNat
      <4>3. PICK j \in named : x = n - j
        BY <4>2
      <4>4. \A k \in named : n - j <= n - k
        BY <4>2, <4>3
      <4>5. \A k \in named : k \in Int /\ j \in Int
        BY <4>0
      <4> QED
        BY <4>0, <4>4, <4>5
    <3> HIDE DEF named, paddings
    <3>4. CASE named = {}
      BY <3>2, <3>4
    <3>5. CASE named # {}
      <4>1. (CHOOSE j \in named : \A k \in named : k <= j) \in named
        BY <3>3, <3>5
      <4> QED
        BY <4>1, <2>2, <3>1, <3>2, <3>5
    <3> QED
      BY <3>4, <3>5
  <2> QED
    BY <2>1, <2>3 DEF Distance, c
<1>7. hits(0) = {}
  <2> SUFFICES ASSUME NEW i \in DOMAIN contacts, Counts(contacts[i], 0) PROVE FALSE
    OBVIOUS
  <2> DEFINE near == Select(contacts, hits(Influence))
  <2>1. Distance(contacts[i]) < 0 /\ Distance(contacts[i]) \in Int
    BY <1>6 DEF Counts
  <2>2. Counts(contacts[i], Influence)
    <3>1. Distance(contacts[i]) < Influence
      BY <2>1, ConstraintsAssumption
    <3> QED
      BY <3>1 DEF Counts
  <2>3. i \in 1 .. Len(contacts) /\ i \in hits(Influence)
    BY <1>5, <2>2
  <2>4. near = Clearance(q, Influence)
    BY DEF Clearance, contacts
  <2> HIDE DEF hits
  <2>5. near \in Seq(Pairs) /\ \E k \in 1 .. Len(near) : near[k] = contacts[i]
    <3> HIDE DEF Pairs
    <3> QED
      BY <1>4, <2>3, SelectFacts
  <2> HIDE DEF near
  <2>6. DOMAIN near = 1 .. Len(near)
    BY <2>5
  <2>7. \A k \in DOMAIN near : Distance(near[k]) >= 0
    BY <2>4 DEF Strict
  <2> QED
    BY <2>1, <2>5, <2>6, <2>7
<1>8. Clearance(q, 0) = <<>>
  <2>1. Select(contacts, hits(0)) = <<>>
    <3> HIDE DEF hits
    <3> QED
      BY <1>4, <1>7, SelectFacts
  <2> QED
    BY <2>1 DEF Clearance, contacts
<1>9. Violated(q) = <<>> \o <<>>
  BY <1>3, <1>8 DEF Violated, CollisionFree, names
<1> QED
  BY <1>9 DEF Satisfied

(* The strings of the first configurations.                                *)
LEMMA FirstViolatedFacts ==
    ASSUME NEW S, NEW confs \in Seq(S)
    PROVE  /\ FirstViolated(confs)[0] = <<>>
           /\ \A n \in 1 .. Len(confs) :
                FirstViolated(confs)[n] = FirstViolated(confs)[n - 1] \o Violated(confs[n])
<1> DEFINE n == Len(confs)
           T == Seq(Strings)
           Add(i, k) == k \o Violated(confs[i])
           step == [z \in (1 .. n) \X T |-> Add(z[1], z[2])]
           Steps(strings) == strings = [i \in 0 .. n |->
                IF i = 0 THEN <<>> ELSE strings[i - 1] \o Violated(confs[i])]
           strings == CHOOSE strings : Steps(strings)
<1>1. n \in Nat
  OBVIOUS
<1>2. \A i \in 1 .. n : \A k \in T : Add(i, k) \in T
  BY ViolatedTypes
<1>3. step \in [(1 .. n) \X T -> T]
  <2> SUFFICES ASSUME NEW z \in (1 .. n) \X T PROVE Add(z[1], z[2]) \in T
    OBVIOUS
  <2> HIDE DEF Add
  <2> QED
    BY <1>2
<1>4. \A i \in 1 .. n : \A k \in T : step[<<i, k>>] = Add(i, k)
  OBVIOUS
<1>5. <<>> \in T
  OBVIOUS
<1> HIDE DEF step, Add, T
<1>6. PICK f \in [0 .. n -> T] :
              f[0] = <<>> /\ \A i \in 1 .. n : f[i] = step[<<i, f[i - 1]>>]
  <2>1. Results(T, <<>>, n, step) # {}
    BY <1>1, <1>3, <1>5, ResultsExist
  <2> QED
    BY <2>1 DEF Results
<1>7. \A i \in 1 .. n : f[i] = Add(i, f[i - 1])
  <2> SUFFICES ASSUME NEW i \in 1 .. n PROVE f[i] = Add(i, f[i - 1])
    OBVIOUS
  <2>1. i - 1 \in 0 .. n
    BY <1>1
  <2> QED
    BY <1>4, <1>6, <2>1
<1>8. Steps(f)
  <2>1. \A i \in 0 .. n : i # 0 => i \in 1 .. n
    BY <1>1
  <2> QED
    BY <1>6, <1>7, <2>1 DEF Add
<1>9. Steps(strings)
  <2> HIDE DEF Steps
  <2> QED
    BY <1>8
<1>10. FirstViolated(confs) = strings
  BY DEF FirstViolated
<1> HIDE DEF strings
<1>11. 0 \in 0 .. n /\ \A i \in 1 .. n : i \in 0 .. n /\ i # 0
  BY <1>1
<1> QED
  BY <1>9, <1>10, <1>11

(* Every index is in the share of a thread.                                *)
LEMMA SharesCover ==
    ASSUME NEW n \in Nat, NEW k \in Nat \ {0}, NEW i \in 1 .. n
    PROVE  \E t \in 1 .. k : \E j \in 1 .. Len(ShareOf(t, n, k)) :
              ShareOf(t, n, k)[j] = i
<1> DEFINE T(t) == TakenBy(t, n, k)
           enough == {t \in 0 .. k : i <= T(t)}
<1>1. /\ \A t \in 0 .. k : T(t) \in Nat
      /\ T(k) = n
  BY TakenFacts
<1>2. T(0) = 0
  <2>1. n \div k \in Nat /\ n % k \in Nat
    OBVIOUS
  <2>2. 0 * (n \div k) = 0
    BY <2>1
  <2> QED
    BY <2>1, <2>2 DEF TakenBy
<1>3. \A t \in 1 .. k : ShareOf(t, n, k) = [j \in 1 .. T(t) - T(t - 1) |-> T(t - 1) + j]
  BY ShareIs
<1> HIDE DEF T
<1>4. PICK t \in enough : \A u \in enough : t <= u
  <2>1. enough \in SUBSET Nat
    OBVIOUS
  <2>2. k \in enough
    BY <1>1
  <2> HIDE DEF enough
  <2> QED
    BY <2>1, <2>2, LeastNat
<1>5. t \in 1 .. k /\ i <= T(t) /\ t - 1 \in 0 .. k /\ ~(i <= T(t - 1))
  <2>1. t # 0
    BY <1>2, <1>4
  <2>2. t \in 1 .. k /\ t - 1 \in 0 .. k /\ ~(t <= t - 1)
    BY <2>1, <1>4
  <2> QED
    BY <2>2, <1>4
<1> DEFINE a == T(t - 1)
           b == T(t)
<1>6. a \in Nat /\ b \in Nat
  BY <1>1, <1>5
<1>7. ShareOf(t, n, k) = [j \in 1 .. b - a |-> a + j]
  BY <1>3, <1>5
<1>8. a < i /\ i <= b
  BY <1>5, <1>6
<1> HIDE DEF a, b
<1>9. b - a \in Nat /\ i - a \in 1 .. b - a /\ a + (i - a) = i
  BY <1>6, <1>8
<1>10. Len(ShareOf(t, n, k)) = b - a /\ ShareOf(t, n, k)[i - a] = i
  BY <1>7, <1>9
<1> QED
  BY <1>5, <1>9, <1>10

-----------------------------------------------------------------------------
(* What is left of an index in the share of a thread.                      *)
Left(i) == \E t \in Threads : \E j \in 1 .. Len(share[t]) : share[t][j] = i

LoopTypes ==
    /\ check \in Calls /\ ~returned /\ allValid \in BOOLEAN
    /\ share \in [Threads -> Seq(Indices)]
    /\ fate \in [Indices -> {"open", "judged", "skipped", "dropped"}]

(* Shared by threads: an index that is not open is judged, and its verdict *)
(* is in the shared one, or it is skipped, which takes a bad one.          *)
SharedInv ==
    /\ \A i \in Indices : fate[i] = "open" => Left(i)
    /\ \A i \in Indices : fate[i] # "dropped"
    /\ phase \in [Threads -> {"next", "judge"}]
    /\ \A t \in Threads : phase[t] = "judge" => share[t] # <<>>

VectorInv ==
    /\ \A i \in Indices : fate[i] = "skipped" => ~allValid
    /\ \A i \in Indices : fate[i] = "judged" /\ allValid => Satisfied(check.confs[i])
    /\ ~allValid => \E i \in Indices : ~Satisfied(check.confs[i])

PenaltiesInv ==
    /\ penalties = [i \in Indices |-> penalties[i]]
    /\ \A i \in Indices : fate[i] # "skipped"
    /\ \A i \in Indices : fate[i] = "judged" =>
          /\ penalties[i] = PenaltyOf(check.confs[i])
          /\ allValid => Strict(check.confs[i])

(* Alone: k configurations have been looked at, and the others are left.   *)
LeftAfter(k) ==
    /\ Len(share[1]) = Len(check.confs) - k
    /\ \A j \in 1 .. Len(check.confs) - k : share[1][j] = k + j

InTurnInv ==
    /\ Threads = {1}
    /\ \E k \in 0 .. Len(check.confs) :
          /\ check.collect \/ allValid => LeftAfter(k)
          /\ allValid => \A i \in 1 .. k : Satisfied(check.confs[i])
          /\ ~allValid => \E i \in Indices : ~Satisfied(check.confs[i])
          /\ check.collect => failed = FirstViolated(check.confs)[k]

EdgeInv ==
    /\ Threads = {1} /\ check.confs # <<>> /\ picked = None
    /\ \E k \in 0 .. Len(check.confs) :
          /\ LeftAfter(k)
          /\ \A i \in 1 .. k : ~Satisfied(check.confs[i])

VerdictInv ==
    /\ check \in Calls
    /\ returned => VerdictsAgree
    /\ ~returned /\ check.op \in {"vector", "penalties", "edge"} =>
          /\ LoopTypes
          /\ check.op = "vector" /\ Parallel => SharedInv /\ VectorInv
          /\ check.op = "vector" /\ ~Parallel => InTurnInv
          /\ check.op = "penalties" => SharedInv /\ PenaltiesInv
          /\ check.op = "edge" => EdgeInv

LEMMA CallFacts ==
    ASSUME check \in Calls
    PROVE  /\ check.confs \in Seq(CheckedConfs) /\ Len(check.confs) \in Nat
           /\ Indices = 1 .. Len(check.confs)
           /\ \E k \in Nat \ {0} : Threads = 1 .. k /\ Cardinality(Threads) = k
           /\ ~Parallel \/ check.op = "edge" => Threads = {1} /\ Cardinality(Threads) = 1
           /\ check.op = "edge" => check.confs # <<>>
<1>1. /\ check.confs \in Seq(CheckedConfs) /\ check.threads \in Nat \ {0}
      /\ check.op = "edge" => check.confs # <<>> /\ check.threads = 1
  BY CallsAssumption
<1>2. Len(check.confs) \in Nat /\ Indices = 1 .. Len(check.confs)
  BY <1>1, LenProperties DEF Indices
<1>3. PICK k \in Nat \ {0} : Threads = 1 .. k /\ (~Parallel \/ check.op = "edge" => k = 1)
  BY <1>1 DEF Threads
<1>4. Cardinality(1 .. k) = k
  BY <1>3, FS_Interval
<1>5. k = 1 => 1 .. k = {1}
  OBVIOUS
<1> QED
  BY <1>1, <1>2, <1>3, <1>4, <1>5

LEMMA VerdictInit == ChecksInit => VerdictInv
<1> SUFFICES ASSUME ChecksInit PROVE VerdictInv
  OBVIOUS
<1> DEFINE n == Len(check.confs)
<1>1. /\ check \in Calls /\ check.confs \in Seq(CheckedConfs) /\ n \in Nat
      /\ Indices = 1 .. n
      /\ ~Parallel \/ check.op = "edge" => Threads = {1} /\ Cardinality(Threads) = 1
      /\ check.op = "edge" => check.confs # <<>>
  BY CallFacts DEF ChecksInit
<1>2. PICK k \in Nat \ {0} : Threads = 1 .. k /\ Cardinality(Threads) = k
  BY CallFacts DEF ChecksInit
<1>3. share = [t \in 1 .. k |-> ShareOf(t, n, k)]
  BY <1>2 DEF ChecksInit
<1>4. /\ phase = [t \in 1 .. k |-> "next"] /\ returned = FALSE /\ allValid = TRUE
      /\ fate = [i \in Indices |-> "open"] /\ penalties = [i \in Indices |-> 0]
      /\ failed = <<>> /\ picked = None
  BY <1>2 DEF ChecksInit, Indices
<1> HIDE DEF n
<1>5. LoopTypes
  <2>1. share \in [Threads -> Seq(Indices)]
    BY <1>1, <1>2, <1>3, ShareFacts
  <2> QED
    BY <1>1, <1>4, <2>1 DEF LoopTypes
<1>6. SharedInv
  <2>1. ASSUME NEW i \in Indices PROVE Left(i)
    <3>1. PICK t \in 1 .. k : \E j \in 1 .. Len(ShareOf(t, n, k)) : ShareOf(t, n, k)[j] = i
      BY <1>1, SharesCover
    <3> QED
      BY <1>2, <1>3, <3>1 DEF Left
  <2> QED
    BY <1>2, <1>4, <2>1 DEF SharedInv
<1>7. VectorInv /\ PenaltiesInv
  BY <1>4 DEF VectorInv, PenaltiesInv
<1>8. ASSUME Threads = {1}, Cardinality(Threads) = 1 PROVE LeftAfter(0)
  <2>1. k = 1
    BY <1>2, <1>8
  <2>2. share[1] = ShareOf(1, n, 1)
    BY <1>3, <2>1
  <2>3. n \div 1 = n /\ n % 1 = 0 /\ (1 - 1) * (n \div 1) = 0
    BY <1>1
  <2>4. ShareOf(1, n, 1) = [i \in 1 .. n |-> i]
    <3>1. (1 - 1) * (n \div 1) + (IF 1 - 1 < n % 1 THEN 1 - 1 ELSE n % 1) = 0
      BY <2>3
    <3>2. (n \div 1) + (IF 1 <= n % 1 THEN 1 ELSE 0) = n
      BY <2>3, <1>1
    <3>3. \A i \in 1 .. n : 0 + i = i
      OBVIOUS
    <3> QED
      BY <3>1, <3>2, <3>3 DEF ShareOf
  <2>5. Len([i \in 1 .. n |-> i]) = n /\ n - 0 = n /\ \A j \in 1 .. n : 0 + j = j
    BY <1>1
  <2> QED
    BY <2>2, <2>4, <2>5 DEF LeftAfter, n
<1>9. 0 \in 0 .. n /\ FirstViolated(check.confs)[0] = <<>>
  <2>1. FirstViolated(check.confs)[0] = <<>>
    BY <1>1, FirstViolatedFacts, Zenon
  <2> QED
    BY <1>1, <2>1
<1>10. ~Parallel => InTurnInv
  BY <1>1, <1>4, <1>8, <1>9 DEF InTurnInv, n
<1>11. check.op = "edge" => EdgeInv
  BY <1>1, <1>4, <1>8, <1>9 DEF EdgeInv, n
<1> QED
  BY <1>1, <1>4, <1>5, <1>6, <1>7, <1>10, <1>11 DEF VerdictInv

(* A thread is done with its index: it loses that one and no other.        *)
LEMMA LoopMoves ==
    ASSUME LoopTypes, NEW t \in Threads, share[t] # <<>>,
           NEW what \in {"judged", "skipped", "dropped"}, NextIndex(t, what),
           check' = check, returned' = returned, allValid' \in BOOLEAN
    PROVE  /\ Turn(t) \in Indices /\ LoopTypes'
           /\ fate'[Turn(t)] = what
           /\ \A i \in Indices \ {Turn(t)} : fate'[i] = fate[i]
           /\ \A i \in Indices \ {Turn(t)} : Left(i) => Left(i)'
           /\ phase' = [phase EXCEPT ![t] = "next"]
           /\ share'[t] = Tail(share[t])
<1>1. share \in [Threads -> Seq(Indices)] /\ share[t] \in Seq(Indices)
      /\ fate \in [Indices -> {"open", "judged", "skipped", "dropped"}]
  BY DEF LoopTypes
<1>2. /\ share' = [share EXCEPT ![t] = Tail(share[t])]
      /\ fate' = [fate EXCEPT ![Turn(t)] = what]
      /\ phase' = [phase EXCEPT ![t] = "next"]
  BY DEF NextIndex, Goto
<1>3. Threads' = Threads /\ Indices' = Indices
  BY ThreadsStay
<1>4. /\ Head(share[t]) \in Indices /\ Tail(share[t]) \in Seq(Indices)
      /\ Len(Tail(share[t])) = Len(share[t]) - 1 /\ Len(share[t]) \in Nat
      /\ Head(share[t]) = share[t][1]
      /\ \A j \in 1 .. Len(share[t]) - 1 : Tail(share[t])[j] = share[t][j + 1]
  <2> DEFINE s == share[t]
  <2>1. s \in Seq(Indices) /\ s # <<>>
    BY <1>1
  <2> HIDE DEF s
  <2>2. /\ Head(s) \in Indices /\ Tail(s) \in Seq(Indices)
        /\ Len(Tail(s)) = Len(s) - 1 /\ Len(s) \in Nat /\ Head(s) = s[1]
        /\ \A j \in 1 .. Len(s) - 1 : Tail(s)[j] = s[j + 1]
    BY <2>1
  <2> QED
    BY <2>2 DEF s
<1>5. /\ Turn(t) \in Indices /\ fate'[Turn(t)] = what
      /\ \A i \in Indices \ {Turn(t)} : fate'[i] = fate[i]
      /\ fate' \in [Indices -> {"open", "judged", "skipped", "dropped"}]
  BY <1>1, <1>2, <1>4 DEF Turn
<1>6. share' \in [Threads -> Seq(Indices)] /\ share'[t] = Tail(share[t])
      /\ \A u \in Threads \ {t} : share'[u] = share[u]
  BY <1>1, <1>2, <1>4
<1>7. LoopTypes'
  <2>1. check' \in Calls /\ ~returned' /\ allValid' \in BOOLEAN
    BY DEF LoopTypes
  <2> QED
    BY <1>3, <1>5, <1>6, <2>1 DEF LoopTypes
<1>8. ASSUME NEW i \in Indices \ {Turn(t)}, Left(i) PROVE Left(i)'
  <2>1. PICK u \in Threads : \E j \in 1 .. Len(share[u]) : share[u][j] = i
    BY <1>8 DEF Left
  <2>0. PICK j \in 1 .. Len(share[u]) : share[u][j] = i
    BY <2>1
  <2>2. CASE u # t
    <3>1. share'[u] = share[u]
      BY <1>6, <2>2
    <3> QED
      BY <1>3, <2>0, <3>1 DEF Left
  <2>3. CASE u = t
    <3>1. j # 1 /\ j \in Nat /\ j \in 1 .. Len(share[t])
      BY <1>4, <1>8, <2>0, <2>3 DEF Turn
    <3>2. j - 1 \in 1 .. Len(share[t]) - 1 /\ (j - 1) + 1 = j
      BY <1>4, <3>1
    <3>3. Tail(share[t])[j - 1] = share[t][j] /\ j - 1 \in 1 .. Len(Tail(share[t]))
      BY <1>4, <3>2
    <3> QED
      BY <1>3, <1>6, <2>0, <2>3, <3>3 DEF Left
  <2> QED
    BY <2>2, <2>3
<1> QED
  BY <1>2, <1>5, <1>6, <1>7, <1>8

LEMMA SharedMoves ==
    ASSUME LoopTypes, SharedInv, NEW t \in Threads, share[t] # <<>>,
           NEW what \in {"judged", "skipped"}, NextIndex(t, what),
           check' = check, returned' = returned, allValid' \in BOOLEAN
    PROVE  SharedInv'
<1>1. /\ Turn(t) \in Indices /\ LoopTypes'
      /\ fate'[Turn(t)] = what
      /\ \A i \in Indices \ {Turn(t)} : fate'[i] = fate[i]
      /\ \A i \in Indices \ {Turn(t)} : Left(i) => Left(i)'
      /\ phase' = [phase EXCEPT ![t] = "next"]
  BY LoopMoves
<1>2. Threads' = Threads /\ Indices' = Indices
  BY ThreadsStay
<1>3. \A u \in Threads \ {t} : share'[u] = share[u]
  BY DEF NextIndex, LoopTypes
<1>4. /\ phase' \in [Threads -> {"next", "judge"}] /\ phase'[t] = "next"
      /\ \A u \in Threads \ {t} : phase'[u] = phase[u]
  BY <1>1 DEF SharedInv
<1>5. \A i \in Indices : fate'[i] # "dropped" /\ (fate'[i] = "open" => Left(i)')
  BY <1>1 DEF SharedInv
<1> QED
  BY <1>2, <1>3, <1>4, <1>5 DEF SharedInv

LEMMA PeekValidStep ==
    ASSUME VerdictInv, NEW t \in Threads, PeekValid(t)
    PROVE  VerdictInv'
<1>1. /\ check.op = "vector" /\ Parallel /\ ~returned /\ share[t] # <<>>
      /\ check' = check /\ returned' = returned /\ allValid' = allValid
  BY DEF PeekValid, Reaches
<1>2. check \in Calls /\ LoopTypes /\ SharedInv /\ VectorInv
  BY <1>1 DEF VerdictInv
<1>3. Threads' = Threads /\ Indices' = Indices /\ (Parallel' <=> Parallel)
  BY <1>1, ThreadsStay DEF Parallel
<1>4. LoopTypes' /\ SharedInv' /\ VectorInv'
  <2>1. CASE allValid
    <3>1. phase' = [phase EXCEPT ![t] = "judge"] /\ share' = share /\ fate' = fate
      BY <2>1 DEF PeekValid, Goto
    <3>2. phase' \in [Threads -> {"next", "judge"}]
          /\ \A u \in Threads \ {t} : phase'[u] = phase[u]
      BY <1>2, <3>1 DEF SharedInv
    <3>3. SharedInv'
      BY <1>1, <1>2, <1>3, <3>1, <3>2 DEF SharedInv, Left
    <3> QED
      BY <1>1, <1>2, <1>3, <3>1, <3>3 DEF LoopTypes, VectorInv
  <2>2. CASE ~allValid
    <3>1. NextIndex(t, "skipped") /\ allValid' \in BOOLEAN
      BY <1>1, <1>2, <2>2 DEF PeekValid, LoopTypes
    <3>2. LoopTypes'
      BY <1>1, <1>2, <3>1, LoopMoves
    <3>3. SharedInv'
      BY <1>1, <1>2, <3>1, SharedMoves
    <3> QED
      BY <1>1, <1>2, <1>3, <2>2, <3>2, <3>3 DEF VectorInv
  <2> QED
    BY <2>1, <2>2
<1> QED
  BY <1>1, <1>2, <1>3, <1>4 DEF VerdictInv

LEMMA JudgeOneStep ==
    ASSUME VerdictInv, NEW t \in Threads, JudgeOne(t)
    PROVE  VerdictInv'
<1>1. /\ check.op = "vector" /\ Parallel /\ ~returned /\ phase[t] = "judge"
      /\ check' = check /\ returned' = returned
      /\ allValid' = IF Satisfied(Conf(t)) THEN allValid ELSE FALSE
      /\ NextIndex(t, "judged")
  BY DEF JudgeOne, Reaches
<1>2. check \in Calls /\ LoopTypes /\ SharedInv /\ VectorInv /\ share[t] # <<>>
  BY <1>1 DEF VerdictInv, SharedInv
<1>3. Threads' = Threads /\ Indices' = Indices /\ (Parallel' <=> Parallel)
  BY <1>1, ThreadsStay DEF Parallel
<1>4. allValid' \in BOOLEAN /\ (allValid' <=> allValid /\ Satisfied(Conf(t)))
  BY <1>1, <1>2 DEF LoopTypes
<1>5. /\ Turn(t) \in Indices /\ LoopTypes'
      /\ fate'[Turn(t)] = "judged"
      /\ \A i \in Indices \ {Turn(t)} : fate'[i] = fate[i]
  BY <1>1, <1>2, <1>4, LoopMoves
<1>6. SharedInv'
  BY <1>1, <1>2, <1>4, SharedMoves
<1>7. VectorInv'
  BY <1>1, <1>2, <1>3, <1>4, <1>5 DEF VectorInv, Conf
<1> QED
  BY <1>1, <1>2, <1>3, <1>5, <1>6, <1>7 DEF VerdictInv

LEMMA PenaliseStep ==
    ASSUME VerdictInv, NEW t \in Threads, Penalise(t)
    PROVE  VerdictInv'
<1>1. /\ check.op = "penalties" /\ ~returned /\ share[t] # <<>>
      /\ check' = check /\ returned' = returned
      /\ penalties' = [penalties EXCEPT ![Turn(t)] = PenaltyOf(Conf(t))]
      /\ allValid' = IF Strict(Conf(t)) THEN allValid ELSE FALSE
      /\ NextIndex(t, "judged")
  BY DEF Penalise, Reaches
<1>2. check \in Calls /\ LoopTypes /\ SharedInv /\ PenaltiesInv
  BY <1>1 DEF VerdictInv
<1>3. Threads' = Threads /\ Indices' = Indices
  BY <1>1, ThreadsStay
<1>4. allValid' \in BOOLEAN /\ (allValid' <=> allValid /\ Strict(Conf(t)))
  BY <1>1, <1>2 DEF LoopTypes
<1>5. /\ Turn(t) \in Indices /\ LoopTypes'
      /\ fate'[Turn(t)] = "judged"
      /\ \A i \in Indices \ {Turn(t)} : fate'[i] = fate[i]
  BY <1>1, <1>2, <1>4, LoopMoves
<1>6. SharedInv'
  BY <1>1, <1>2, <1>4, SharedMoves
<1>7. PenaltiesInv'
  <2>1. penalties = [i \in Indices |-> penalties[i]]
    BY <1>2 DEF PenaltiesInv
  <2>2. /\ penalties' = [i \in Indices |-> penalties'[i]]
        /\ penalties'[Turn(t)] = PenaltyOf(check.confs[Turn(t)])
        /\ \A i \in Indices \ {Turn(t)} : penalties'[i] = penalties[i]
    BY <1>1, <1>5, <2>1 DEF Conf
  <2> QED
    BY <1>1, <1>2, <1>3, <1>4, <1>5, <2>2 DEF PenaltiesInv, Conf
<1> QED
  BY <1>1, <1>2, <1>3, <1>5, <1>6, <1>7 DEF VerdictInv

(* The one thread of a loop takes the next configuration.                  *)
LEMMA TakesNext ==
    ASSUME LoopTypes, Threads = {1}, NEW k \in 0 .. Len(check.confs), LeftAfter(k),
           share[1] # <<>>
    PROVE  /\ k + 1 \in 1 .. Len(check.confs) /\ k + 1 \in 0 .. Len(check.confs)
           /\ Turn(1) = k + 1
           /\ share'[1] = Tail(share[1]) /\ check' = check => LeftAfter(k + 1)'
<1> DEFINE s == share[1]
           n == Len(check.confs)
<1>1. n \in Nat /\ s \in Seq(Indices) /\ s # <<>>
  BY CallFacts DEF LoopTypes
<1>2. Len(s) = n - k /\ \A j \in 1 .. n - k : s[j] = k + j
  BY DEF LeftAfter
<1> HIDE DEF s, n
<1>3. /\ Len(s) \in Nat \ {0} /\ Head(s) = s[1] /\ Len(Tail(s)) = Len(s) - 1
      /\ \A j \in 1 .. Len(s) - 1 : Tail(s)[j] = s[j + 1]
  BY <1>1
<1>4. k \in Nat /\ k + 1 \in 1 .. n /\ k + 1 \in 0 .. n /\ 1 \in 1 .. n - k
  BY <1>1, <1>2, <1>3 DEF n
<1>5. Turn(1) = k + 1
  BY <1>2, <1>3, <1>4 DEF Turn, s
<1>6. ASSUME share'[1] = Tail(share[1]), check' = check
      PROVE  LeftAfter(k + 1)'
  <2>1. Len(Tail(s)) = n - (k + 1)
    BY <1>1, <1>2, <1>3, <1>4
  <2>2. ASSUME NEW j \in 1 .. n - (k + 1) PROVE Tail(s)[j] = (k + 1) + j
    <3>1. j \in 1 .. Len(s) - 1 /\ j + 1 \in 1 .. n - k /\ k + (j + 1) = (k + 1) + j
      BY <1>1, <1>2, <1>3, <1>4
    <3> QED
      BY <1>2, <1>3, <3>1
  <2> QED
    BY <1>6, <2>1, <2>2 DEF LeftAfter, s, n
<1> QED
  BY <1>4, <1>5, <1>6 DEF n

LEMMA JudgeInTurnStep ==
    ASSUME VerdictInv, NEW t \in Threads, JudgeInTurn(t)
    PROVE  VerdictInv'
<1>1. /\ check.op = "vector" /\ ~Parallel /\ ~returned /\ share[t] # <<>>
      /\ check' = check /\ returned' = returned
      /\ allValid' = (allValid /\ Satisfied(Conf(t)))
      /\ failed' = IF check.collect THEN failed \o Violated(Conf(t)) ELSE failed
      /\ IF ~allValid' /\ ~check.collect
         THEN share' = [share EXCEPT ![t] = <<>>] /\ fate' = fate
         ELSE NextIndex(t, "judged")
  BY DEF JudgeInTurn, Reaches
<1>2. check \in Calls /\ LoopTypes /\ InTurnInv /\ Threads = {1} /\ t = 1
  BY <1>1 DEF VerdictInv, InTurnInv
<1>3. Threads' = Threads /\ Indices' = Indices /\ (Parallel' <=> Parallel)
  BY <1>1, ThreadsStay DEF Parallel
<1>4. allValid' \in BOOLEAN /\ (allValid' <=> allValid /\ Satisfied(Conf(1)))
  BY <1>1, <1>2 DEF LoopTypes
<1>5. PICK k \in 0 .. Len(check.confs) :
          /\ check.collect \/ allValid => LeftAfter(k)
          /\ allValid => \A i \in 1 .. k : Satisfied(check.confs[i])
          /\ ~allValid => \E i \in Indices : ~Satisfied(check.confs[i])
          /\ check.collect => failed = FirstViolated(check.confs)[k]
  BY <1>2 DEF InTurnInv
<1>6. /\ Len(check.confs) \in Nat /\ Indices = 1 .. Len(check.confs)
      /\ check.confs \in Seq(CheckedConfs)
  BY <1>2, CallFacts
<1>7. CASE ~allValid' /\ ~check.collect
  <2>1. share' \in [Threads -> Seq(Indices)]
    <3>1. share \in [Threads -> Seq(Indices)] /\ <<>> \in Seq(Indices)
      BY <1>2 DEF LoopTypes
    <3> QED
      BY <1>1, <1>7, <3>1
  <2>2. LoopTypes'
    BY <1>1, <1>2, <1>3, <1>4, <1>7, <2>1 DEF LoopTypes
  <2>3. \E i \in Indices : ~Satisfied(check.confs[i])
    <3>1. CASE ~allValid
      BY <1>5, <3>1
    <3>2. CASE ~Satisfied(Conf(1))
      <4>1. share[1] \in Seq(Indices) /\ share[1] # <<>>
        BY <1>1, <1>2 DEF LoopTypes
      <4>2. Turn(1) \in Indices
        BY <4>1, HeadTailProperties DEF Turn
      <4> QED
        BY <3>2, <4>2 DEF Conf
    <3> QED
      BY <1>4, <1>7, <3>1, <3>2
  <2>4. InTurnInv'
    BY <1>1, <1>2, <1>3, <1>5, <1>7, <2>3 DEF InTurnInv
  <2> QED
    BY <1>1, <1>2, <1>3, <2>2, <2>4 DEF VerdictInv
<1>8. CASE ~(~allValid' /\ ~check.collect)
  <2>1. NextIndex(1, "judged") /\ share[1] # <<>> /\ 1 \in Threads
    BY <1>1, <1>2, <1>8
  <2>2. LoopTypes' /\ share'[1] = Tail(share[1])
    BY <1>1, <1>2, <1>4, <2>1, LoopMoves
  <2>3. LeftAfter(k)
    BY <1>4, <1>5, <1>8
  <2>4. /\ k + 1 \in 1 .. Len(check.confs) /\ k + 1 \in 0 .. Len(check.confs)
        /\ Turn(1) = k + 1 /\ LeftAfter(k + 1)'
    BY <1>1, <1>2, <2>1, <2>2, <2>3, TakesNext
  <2>5. Conf(1) = check.confs[k + 1]
    BY <2>4 DEF Conf
  <2>6. allValid' => \A i \in 1 .. (k + 1) : Satisfied(check.confs[i])
    <3>1. \A i \in 1 .. (k + 1) : i \in 1 .. k \/ i = k + 1
      BY <1>6
    <3> QED
      BY <1>4, <1>5, <2>5, <3>1
  <2>7. ~allValid' => \E i \in Indices : ~Satisfied(check.confs[i])
    BY <1>4, <1>5, <1>6, <2>4, <2>5
  <2>8. check.collect => failed' = FirstViolated(check.confs)[k + 1]
    <3>1. FirstViolated(check.confs)[k + 1] =
            FirstViolated(check.confs)[(k + 1) - 1] \o Violated(check.confs[k + 1])
      BY <1>6, <2>4, FirstViolatedFacts, Zenon
    <3>2. (k + 1) - 1 = k
      BY <1>6
    <3> QED
      BY <1>1, <1>2, <1>5, <2>5, <3>1, <3>2
  <2>9. InTurnInv'
    BY <1>1, <1>2, <1>3, <2>4, <2>6, <2>7, <2>8 DEF InTurnInv
  <2> QED
    BY <1>1, <1>2, <1>3, <2>2, <2>9 DEF VerdictInv
<1> QED
  BY <1>7, <1>8

LEMMA WalkEdgeStep ==
    ASSUME VerdictInv, NEW t \in Threads, WalkEdge(t)
    PROVE  VerdictInv'
<1> DEFINE n == Len(check.confs)
           ends == ~Satisfied(check.confs[n]) \/ Turn(t) = n
<1>1. /\ check.op = "edge" /\ ~returned /\ share[t] # <<>>
      /\ check' = check /\ allValid' = allValid
      /\ IF ends
         THEN returned' = TRUE /\ picked' = picked
         ELSE IF Satisfied(Conf(t))
         THEN returned' = TRUE /\ picked' = Turn(t)
         ELSE NextIndex(t, "dropped") /\ picked' = picked /\ returned' = returned
  BY DEF WalkEdge, Reaches
<1>2. check \in Calls /\ LoopTypes /\ EdgeInv /\ Threads = {1} /\ t = 1
  BY <1>1 DEF VerdictInv, EdgeInv
<1>3. Threads' = Threads /\ Indices' = Indices
  BY <1>1, ThreadsStay
<1>4. PICK k \in 0 .. n : LeftAfter(k) /\ \A i \in 1 .. k : ~Satisfied(check.confs[i])
  BY <1>2 DEF EdgeInv
<1>5. picked = None /\ check.confs # <<>> /\ n \in Nat
  BY <1>2, CallFacts DEF EdgeInv
<1>6. k + 1 \in 1 .. n /\ k + 1 \in 0 .. n /\ Turn(1) = k + 1
  BY <1>1, <1>2, <1>4, TakesNext
<1>7. Conf(1) = check.confs[k + 1]
  BY <1>6 DEF Conf
<1>8. CASE ends
  <2>1. Satisfied(check.confs[n]) => \A i \in 1 .. n - 1 : ~Satisfied(check.confs[i])
    BY <1>2, <1>4, <1>6, <1>8
  <2>2. returned' = TRUE /\ picked' = None
    BY <1>1, <1>5, <1>8
  <2>3. VerdictsAgree'
    BY <1>1, <2>1, <2>2 DEF VerdictsAgree
  <2> QED
    BY <1>1, <1>2, <2>2, <2>3 DEF VerdictInv
<1>9. CASE ~ends /\ Satisfied(Conf(t))
  <2>1. returned' = TRUE /\ picked' = k + 1 /\ picked' # None
    BY <1>1, <1>2, <1>5, <1>6, <1>9 DEF None
  <2>2. VerdictsAgree'
    BY <1>1, <1>2, <1>7, <1>9, <2>1 DEF VerdictsAgree
  <2> QED
    BY <1>1, <1>2, <2>1, <2>2 DEF VerdictInv
<1>10. CASE ~ends /\ ~Satisfied(Conf(t))
  <2>1. /\ NextIndex(1, "dropped") /\ picked' = None /\ returned' = returned
        /\ share[1] # <<>> /\ 1 \in Threads /\ allValid' \in BOOLEAN
    BY <1>1, <1>2, <1>5, <1>10 DEF LoopTypes
  <2>2. LoopTypes' /\ share'[1] = Tail(share[1])
    BY <1>1, <1>2, <2>1, LoopMoves
  <2>3. LeftAfter(k + 1)'
    BY <1>1, <1>2, <1>4, <2>1, <2>2, TakesNext
  <2>4. \A i \in 1 .. (k + 1) : ~Satisfied(check.confs[i])
    <3>1. \A i \in 1 .. (k + 1) : i \in 1 .. k \/ i = k + 1
      BY <1>5
    <3> QED
      BY <1>2, <1>4, <1>7, <1>10, <3>1
  <2>5. EdgeInv'
    BY <1>1, <1>2, <1>3, <1>5, <1>6, <2>1, <2>3, <2>4 DEF EdgeInv
  <2> QED
    BY <1>1, <1>2, <2>1, <2>2, <2>5 DEF VerdictInv
<1> QED
  BY <1>8, <1>9, <1>10

LEMMA VerdictStep ==
    ASSUME VerdictInv, Verdict
    PROVE  VerdictInv'
<1>1. /\ check.op \in {"vector", "penalties"} /\ ~returned
      /\ \A t \in Threads : share[t] = <<>>
      /\ returned' = TRUE
      /\ UNCHANGED <<check, allValid, penalties, failed>>
  BY DEF Verdict
<1>2. check \in Calls /\ LoopTypes
  BY <1>1 DEF VerdictInv
<1>3. /\ Len(check.confs) \in Nat /\ Indices = 1 .. Len(check.confs)
      /\ check.confs \in Seq(CheckedConfs)
  BY <1>2, CallFacts
<1>4. Indices' = Indices
  BY <1>1 DEF Indices
<1>5. \A i \in Indices : ~Left(i)
  <2>1. \A t \in Threads : 1 .. Len(share[t]) = {}
    BY <1>1
  <2> QED
    BY <2>1 DEF Left
<1>6. CASE check.op = "vector" /\ Parallel
  <2>1. SharedInv /\ VectorInv /\ ~check.collect
    BY <1>1, <1>6 DEF VerdictInv, Parallel
  <2>2. \A i \in Indices : fate[i] \in {"judged", "skipped"}
    BY <1>2, <1>5, <2>1 DEF SharedInv, LoopTypes
  <2>3. allValid = \A i \in Indices : Satisfied(check.confs[i])
    <3>1. allValid <=> \A i \in Indices : Satisfied(check.confs[i])
      BY <2>1, <2>2 DEF VectorInv
    <3> QED
      BY <1>2, <3>1 DEF LoopTypes
  <2>4. VerdictsAgree'
    BY <1>1, <1>4, <1>6, <2>1, <2>3 DEF VerdictsAgree
  <2> QED
    BY <1>1, <1>2, <2>4 DEF VerdictInv
<1>7. CASE check.op = "vector" /\ ~Parallel
  <2>1. InTurnInv
    BY <1>1, <1>7 DEF VerdictInv
  <2>2. PICK k \in 0 .. Len(check.confs) :
          /\ check.collect \/ allValid => LeftAfter(k)
          /\ allValid => \A i \in 1 .. k : Satisfied(check.confs[i])
          /\ ~allValid => \E i \in Indices : ~Satisfied(check.confs[i])
          /\ check.collect => failed = FirstViolated(check.confs)[k]
    BY <2>1 DEF InTurnInv
  <2>3. Len(share[1]) = 0
    BY <1>1, <2>1 DEF InTurnInv
  <2>4. check.collect \/ allValid => k = Len(check.confs)
    BY <1>3, <2>2, <2>3 DEF LeftAfter
  <2>5. allValid = \A i \in Indices : Satisfied(check.confs[i])
    <3>1. allValid <=> \A i \in Indices : Satisfied(check.confs[i])
      BY <1>3, <2>2, <2>4
    <3> QED
      BY <1>2, <3>1 DEF LoopTypes
  <2>6. VerdictsAgree'
    BY <1>1, <1>4, <1>7, <2>2, <2>4, <2>5 DEF VerdictsAgree
  <2> QED
    BY <1>1, <1>2, <2>6 DEF VerdictInv
<1>8. CASE check.op = "penalties"
  <2>1. SharedInv /\ PenaltiesInv
    BY <1>1, <1>8 DEF VerdictInv
  <2>2. \A i \in Indices : fate[i] = "judged"
    BY <1>2, <1>5, <2>1 DEF SharedInv, PenaltiesInv, LoopTypes
  <2>3. /\ \A i \in Indices : penalties[i] = PenaltyOf(check.confs[i])
        /\ allValid => \A i \in Indices : Strict(check.confs[i])
    BY <2>1, <2>2 DEF PenaltiesInv
  <2>4. \A i \in Indices : check.confs[i] \in CheckedConfs
    BY <1>3
  <2>5. allValid => \A i \in Indices : Satisfied(check.confs[i])
    BY <2>3, <2>4, StrictSatisfies
  <2>6. VerdictsAgree'
    BY <1>1, <1>4, <1>8, <2>3, <2>5 DEF VerdictsAgree
  <2> QED
    BY <1>1, <1>2, <2>6 DEF VerdictInv
<1> QED
  BY <1>1, <1>6, <1>7, <1>8

LEMMA VerdictStays ==
    ASSUME VerdictInv, UNCHANGED checkVars
    PROVE  VerdictInv'
<1>1. Threads' = Threads /\ Indices' = Indices /\ (Parallel' <=> Parallel)
  BY ThreadsStay DEF checkVars, Parallel
<1>2. UNCHANGED <<check, share, phase, fate, allValid, penalties, failed, picked, returned>>
  BY DEF checkVars
<1>3. /\ LoopTypes => LoopTypes'
      /\ SharedInv => SharedInv'
      /\ VectorInv => VectorInv'
      /\ PenaltiesInv => PenaltiesInv'
  BY <1>1, <1>2 DEF LoopTypes, SharedInv, Left, VectorInv, PenaltiesInv
<1>4. \A k : LeftAfter(k) => LeftAfter(k)'
  BY <1>2 DEF LeftAfter
<1>5. (InTurnInv => InTurnInv') /\ (EdgeInv => EdgeInv')
  BY <1>1, <1>2, <1>4 DEF InTurnInv, EdgeInv
<1>6. VerdictsAgree => VerdictsAgree'
  BY <1>1, <1>2 DEF VerdictsAgree
<1> QED
  BY <1>1, <1>2, <1>3, <1>5, <1>6 DEF VerdictInv

LEMMA VerdictNext == VerdictInv /\ [ChecksNext]_checkVars => VerdictInv'
<1> SUFFICES ASSUME VerdictInv, [ChecksNext]_checkVars PROVE VerdictInv'
  OBVIOUS
<1>1. CASE UNCHANGED checkVars
  BY <1>1, VerdictStays
<1>2. ASSUME check.op \notin {"vector", "penalties", "edge"}, check' = check
      PROVE  VerdictInv'
  BY <1>2 DEF VerdictInv, VerdictsAgree
<1>3. CASE Verdict
  BY <1>3, VerdictStep
<1>4. CASE ReturnSamples
  BY <1>2, <1>4 DEF ReturnSamples
<1>5. ASSUME NEW t \in Threads, PeekValid(t) \/ JudgeOne(t) \/ JudgeInTurn(t)
                                \/ Penalise(t) \/ WalkEdge(t)
      PROVE  VerdictInv'
  BY <1>5, PeekValidStep, JudgeOneStep, JudgeInTurnStep, PenaliseStep, WalkEdgeStep
<1>6. ASSUME NEW t \in Threads, Peek(t) \/ Judge(t) \/ Guess(t) \/ Project(t)
                                \/ Lock(t) \/ Push(t) \/ CalcAndClassify(t)
      PROVE  VerdictInv'
  BY <1>2, <1>6 DEF Peek, Judge, Guess, Project, Lock, Push, CalcAndClassify
<1> QED
  BY <1>1, <1>3, <1>4, <1>5, <1>6 DEF ChecksNext

(* The verdict on a vector is that of the loop without threads, the strings  *)
(* collected are all of them in order, each penalty is that of its own       *)
(* configuration, what has no penalty for a violation is satisfying, and the *)
(* walk along an edge stops at the first satisfying configuration it meets   *)
(* (CheckSatisfied, CalcPenaltyVec and                                       *)
(* CalcClosestSatisfyingConfigurationOnEdge of RobotConstraints).            *)
THEOREM AnswersAgree == ChecksSpec => []VerdictsAgree
<1>1. VerdictInv => VerdictsAgree
  BY DEF VerdictInv, VerdictsAgree
<1> QED
  BY <1>1, VerdictInit, VerdictNext, PTL DEF ChecksSpec
=============================================================================

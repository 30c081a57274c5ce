---------------------------- MODULE RegionBuilding ----------------------------
(***************************************************************************)
(* IrisBuilder, IrisInspector and CliqueGenerator: how a region is seeded  *)
(* with a clique of configurations that see each other, how a region       *)
(* enters the adapter with its intersections, and how the inspector judges *)
(* the coverage of a list of points, region after region.                  *)
(*                                                                         *)
(* A configuration is a sequence of integers, one for each joint; a joint  *)
(* of Continuous turns freely, with Period for two pi.  A region is a box. *)
(* Period is odd, so that no two angles are exactly pi apart.  What IRIS   *)
(* grows around a seed is any of Grown: the library promises neither that  *)
(* it holds the seed nor that it is free of collisions.                    *)
(***************************************************************************)
EXTENDS Integers, Sequences, FiniteSets
Extremes == INSTANCE FiniteSetsExt

CONSTANTS
  Continuous,     \* continuous_revolute_joint_indices
  Period,         \* two pi
  BlockedSets,         \* sets of configurations (wrapped) that violate the constraints
  Seeds,          \* configurations and points of the coverage
  PointLists,     \* lists given to SetPointsForIrisCoverageEvaluation
  CliqueVertices,       \* clique_configs: a sequence of configurations
  Roadmaps,       \* adjacency matrices a caller passes: sets of pairs of indices
  Grown,          \* what comes out of IRIS and PostProcessRegion: sequences of boxes
  MaxBuilds       \* bound on the calls of a behaviour

ASSUME PeriodIsOdd == Period \in Nat /\ Period % 2 = 1

VARIABLES
  blocked,        \* the configurations that violate the constraints
  adjacency,      \* adjacency_matrix_
  excluding,      \* options_.exclude_existing_regions_from_cliques
  regions,        \* adapter_.regions_vec()
  meetings,       \* intersections_vec_: [one, two, offset]
  points,         \* config_points_
  marks,          \* coverage_result_types_
  evaluated,      \* evaluated_iris_regions_indices_
  settings,       \* times the inspector has been given points (history)
  clique,         \* the last clique: [seeds, members, kept, past], see CliqueAround
  builds          \* calls so far

regionVars == <<blocked, adjacency, excluding, regions, meetings, points, marks,
                evaluated, settings, clique, builds>>

Dim == Len(CliqueVertices[1])
Axes == 1..Dim
GrownBoxes == UNION {{rs[n] : n \in DOMAIN rs} : rs \in Grown}

ASSUME JointsAssumption == Dim \in Nat /\ Continuous \subseteq Axes

\* CheckIfSatisfiesConvexityRadius: a region spans at most pi of a joint that turns.
ASSUME BoxesAssumption ==
  \A rs \in Grown :
    /\ rs \in Seq(GrownBoxes)
    /\ \A n \in DOMAIN rs :
         /\ rs[n].lb \in [Axes -> Int] /\ rs[n].ub \in [Axes -> Int]
         /\ \A i \in Continuous : 2 * (rs[n].ub[i] - rs[n].lb[i]) <= Period

\* The vertices are configurations of their own.
ASSUME VerticesAssumption ==
  /\ CliqueVertices \in Seq([Axes -> Int])
  /\ \A v, w \in DOMAIN CliqueVertices : CliqueVertices[v] = CliqueVertices[w] => v = w

\* A roadmap has an edge in both directions, as test_clique_generator.cc inserts them.
ASSUME RoadmapsAssumption == \A roadmap \in Roadmaps, v, w \in DOMAIN CliqueVertices :
  <<v, w>> \in roadmap => <<w, v>> \in roadmap

\* Points are less than two turns and a half from the bounds of a region: within Turns.
ASSUME PointsAssumption ==
  \A ps \in PointLists :
    /\ ps \in Seq([Axes -> Int])
    /\ \A n \in DOMAIN ps, r \in GrownBoxes, i \in Continuous :
         \A bound \in {r.lb[i], r.ub[i]} :
           /\ -5 * Period < 2 * (ps[n][i] - bound)
           /\ 2 * (ps[n][i] - bound) < 5 * Period

-----------------------------------------------------------------------------
\* The geometry: wrapping, lines of sight, boxes.
Wrapped(q) == [i \in Axes |-> IF i \in Continuous THEN q[i] % Period ELSE q[i]]
Free(q) == Wrapped(q) \notin blocked
Size(x) == IF x < 0 THEN -x ELSE x

\* The grid points that the segment from p to q passes, those of CheckSatisfiedEdge.
Between(p, q) ==
  LET n == Extremes!Max({Size(q[i] - p[i]) : i \in Axes} \cup {1})
  IN {[i \in Axes |-> p[i] + (2 * k * (q[i] - p[i]) + n) \div (2 * n)] : k \in 0..n}
Sees(p, q) == \A r \in Between(p, q) : Free(r)

PointInSet(q, r) == \A i \in Axes : r.lb[i] <= q[i] /\ q[i] <= r.ub[i]
Clamped(q, r) == [i \in Axes |-> IF q[i] < r.lb[i] THEN r.lb[i]
                                ELSE IF q[i] > r.ub[i] THEN r.ub[i] ELSE q[i]]
Turned(q, k) == [i \in Axes |-> q[i] + k[i] * Period]

\* CalcWrapMultiple: the turns that bring an angle within pi of another.
WrapMultiple(angle, ref) == -((2 * (angle - ref) + Period) \div (2 * Period))

\* CalcWrapMultiplesPerJoint and CartesianProductOfWrapMultiples: the turns towards the
\* lower and the upper bound of the box.
WrapsOf(q, r, i) == IF i \notin Continuous THEN {0}
                    ELSE {WrapMultiple(q[i], r.lb[i]), WrapMultiple(q[i], r.ub[i])}
Wraps(q, r) == {k \in [Axes -> UNION {WrapsOf(q, r, i) : i \in Axes}] :
                  \A i \in Axes : k[i] \in WrapsOf(q, r, i)}

\* The closest point of the region when it is within pi on every continuous joint and
\* in sight: the set is empty or has that one point.
VisiblePoint(q, r) ==
  {p \in {Clamped(q, r)} : /\ \A i \in Continuous : 2 * Size(p[i] - q[i]) <= Period
                           /\ Sees(q, p)}

\* EvalConfigAgainstIrisRegion: a turn towards the region that falls inside it, or the
\* line of sight to it of one of them.
InsideRegion(q, r) == \E k \in Wraps(q, r) : PointInSet(Turned(q, k), r)
ConnectedTo(q, r) == \E k \in Wraps(q, r) : VisiblePoint(Turned(q, k), r) # {}

\* InsideAnyRegion and FindUncoveredVertices take the configuration as it is.
InsideAny(q) == \E i \in DOMAIN regions : PointInSet(q, regions[i])
InAdapter == {regions[i] : i \in DOMAIN regions}

-----------------------------------------------------------------------------
\* The cliques.
SightsOf(vs) ==
  {e \in (DOMAIN vs) \X (DOMAIN vs) : e[1] # e[2] /\ Sees(vs[e[1]], vs[e[2]])}

\* MaxCliqueSolverViaGreedy: a vertex of the greatest degree is taken and its neighbours
\* remain, until none is left.
Linked(v, S, links) == {w \in S : w # v /\ <<v, w>> \in links}
Widest(S, links) ==
  {v \in S : \A w \in S :
     Cardinality(Linked(w, S, links)) <= Cardinality(Linked(v, S, links))}
TakeVertex(c, links) ==
  IF c.left = {} THEN {c}
  ELSE {[taken |-> c.taken \cup {v}, left |-> Linked(v, c.left, links)] :
          v \in Widest(c.left, links)}
Cliques(nodes, links) ==
  LET grow[n \in 0..Cardinality(nodes)] ==
        IF n = 0 THEN {[taken |-> {}, left |-> nodes]}
        ELSE UNION {TakeVertex(c, links) : c \in grow[n - 1]}
  IN {c.taken : c \in grow[Cardinality(nodes)]}

Uncovered == {v \in DOMAIN CliqueVertices : ~excluding \/ ~InsideAny(CliqueVertices[v])}

\* A mutant: every vertex in view is taken, whether or not they see each other.
CliqueUnlinked(seeds, visible, least) ==
  IF Uncovered = {} \/ Cardinality(visible) < least THEN {}
  ELSE {[seeds |-> seeds, members |-> visible, kept |-> TRUE,
         past |-> IF excluding THEN InAdapter ELSE {}]}

\* The cliques around seeds, when at least as many vertices as asked are in view.  The
\* seeds stand last in the subgraph and must be kept; past are the regions of the time
\* whose vertices were left out.
CliqueAround(seeds, visible, least) ==
  IF Uncovered = {} \/ Cardinality(visible) < least THEN {}
  ELSE LET nodes == visible \cup {0}   \* 0 stands for the seeds, linked to all
           links == adjacency \cup ({0} \X nodes) \cup (nodes \X {0})
       IN {[seeds |-> seeds, members |-> c \ {0}, kept |-> 0 \in c,
            past |-> IF excluding THEN InAdapter ELSE {}]
             : c \in {c \in Cliques(nodes, links) :
                        Cardinality(c) - 1 + Cardinality(seeds) >= Dim + 1}}

\* GetVertexIndexFromConfiguration with a tolerance below the grid: the first equal one.
VertexOf(q) == LET S == {v \in DOMAIN CliqueVertices : CliqueVertices[v] = q}
               IN IF S = {} THEN 0 ELSE Extremes!Min(S)

CliqueAroundConfig(q) ==
  LET v == VertexOf(q)
  IN IF v # 0
     THEN CliqueAround({q}, {w \in Uncovered \ {v} : <<v, w>> \in adjacency},
                       Dim + 1)
     ELSE CliqueAround({q}, {w \in Uncovered : Sees(q, CliqueVertices[w])}, Dim + 1)

CliqueAroundEdge(p, q) ==
  LET v == VertexOf(p)
      w == VertexOf(q)
  IN IF v # 0 /\ w # 0 /\ v # w /\ <<v, w>> \in adjacency
     THEN CliqueAround({p, q},
            {u \in Uncovered \ {v, w} : {<<v, u>>, <<w, u>>} \subseteq adjacency},
            Dim - 1)
     ELSE CliqueAround({p, q},
            {u \in Uncovered : /\ Sees(p, CliqueVertices[u])
                               /\ Sees(q, CliqueVertices[u])},
            Dim + 1)

-----------------------------------------------------------------------------
NoClique == [seeds |-> {}, members |-> {}, kept |-> TRUE, past |-> {}]

RegionInit ==
  /\ blocked \in BlockedSets
  /\ excluding \in BOOLEAN
  /\ \/ adjacency = SightsOf(CliqueVertices)
     \/ adjacency \in Roadmaps
  /\ regions = <<>> /\ meetings = {}
  /\ points = <<>> /\ marks = <<>> /\ evaluated = {} /\ settings = 0
  /\ clique = NoClique /\ builds = 0

\* ComputePairwiseIntersections between a region and one that comes after it.
Offsets(r, s) ==
  {k \in [Axes -> -2..2] :
     \A i \in Axes : /\ i \notin Continuous => k[i] = 0
                     /\ r.lb[i] <= s.ub[i] + k[i] * Period
                     /\ s.lb[i] + k[i] * Period <= r.ub[i]}

\* The intersections that the regions of rs from the first new one on bring along.
MeetingsFrom(rs, first) ==
  {m \in [one : DOMAIN rs, two : first..Len(rs), offset : [Axes -> -2..2]] :
     m.one < m.two /\ m.offset \in Offsets(rs[m.one], rs[m.two])}

\* A new inspector has no points.
NewInspector == points' = <<>> /\ marks' = <<>> /\ evaluated' = {} /\ settings' = 0

AddRegions(rs) ==
  /\ regions' = regions \o rs
  /\ meetings' = meetings \cup MeetingsFrom(regions \o rs, Len(regions) + 1)
  /\ NewInspector

\* CalcIrisRegionFromConfig and AddRegion: nothing is grown without generators to seed
\* from, from a configuration that violates the constraints or lies in a region.
BuildFromConfig(q, rs) ==
  /\ Free(q) /\ ~InsideAny(q)
  /\ \/ clique' \in CliqueAroundConfig(q)
     \/ CliqueAroundConfig(q) = {} /\ clique' = NoClique
  /\ AddRegions(rs)

\* IsEdgeCoveredByRegions samples the segment, whichever region holds each sample.
EdgeCovered(p, q) == \A r \in Between(p, q) : InsideAny(r)

BuildFromEdge(p, q, rs) ==
  /\ Sees(p, q) /\ ~EdgeCovered(p, q)
  /\ \/ clique' \in CliqueAroundEdge(p, q)
     \/ CliqueAroundEdge(p, q) = {} /\ clique' = NoClique
  /\ AddRegions(rs)

\* An exception of IRIS, or a seed that is not free or is covered: nothing is added.
NothingBuilt == UNCHANGED <<regions, meetings, points, marks, evaluated,
                            settings, clique>>

\* RepairRegions: the regions are added again to an adapter of their own.
ReplaceRegions(i, r) ==
  /\ regions' = [regions EXCEPT ![i] = r]
  /\ meetings' = MeetingsFrom(regions', 1)
  /\ NewInspector /\ UNCHANGED clique

-----------------------------------------------------------------------------
\* The coverage.
\* resize: the verdicts that are there stay, the new ones are "uncovered".
SetPoints(ps) ==
  /\ points' = ps
  /\ marks' = [i \in DOMAIN ps |-> IF i \in DOMAIN marks THEN marks[i] ELSE "uncovered"]
  /\ evaluated' = {} /\ settings' = settings + 1
  /\ UNCHANGED <<regions, meetings, clique>>

\* A mutant: a point that sees a region is done with.
JudgedForGood(mark, q, r) ==
  IF mark # "uncovered" THEN mark
  ELSE IF InsideRegion(q, r) THEN "volume"
  ELSE IF ConnectedTo(q, r) THEN "visibility"
  ELSE IF ~Free(q) THEN "violates" ELSE mark

Judged(mark, q, r) ==
  IF mark \in {"volume", "violates"} THEN mark
  ELSE IF InsideRegion(q, r) THEN "volume"
  ELSE IF mark # "visibility" /\ ConnectedTo(q, r) THEN "visibility"
  ELSE IF ~Free(q) THEN "violates" ELSE mark

\* One region after the other, those that were evaluated before left out.
JudgedByAll(mark, q) ==
  LET after[n \in 0..Len(regions)] ==
        IF n = 0 THEN mark
        ELSE IF n \in evaluated THEN after[n - 1]
             ELSE Judged(after[n - 1], q, regions[n])
  IN after[Len(regions)]

EvaluateCoverage ==
  /\ marks' = [i \in DOMAIN points |-> JudgedByAll(marks[i], points[i])]
  /\ evaluated' = IF points = <<>> THEN evaluated ELSE DOMAIN regions
  /\ UNCHANGED <<regions, meetings, points, settings, clique>>

RegionNext ==
  /\ builds < MaxBuilds /\ builds' = builds + 1
  /\ UNCHANGED <<blocked, adjacency, excluding>>
  /\ \/ \E ps \in PointLists : SetPoints(ps)
     \/ EvaluateCoverage
     \/ \E q \in Seeds, rs \in Grown : BuildFromConfig(q, rs)
     \/ \E p, q \in Seeds, rs \in Grown : p # q /\ BuildFromEdge(p, q, rs)
     \/ NothingBuilt
     \/ \E i \in DOMAIN regions, r \in GrownBoxes : ReplaceRegions(i, r)

RegionSpec == RegionInit /\ [][RegionNext]_regionVars

-----------------------------------------------------------------------------
(***************************************************************************)
(* The verdicts of the inspector against what they mean, whatever order    *)
(* the regions came in, how often the points were evaluated and how many   *)
(* turns a point is away: a point that satisfies the constraints is        *)
(* "volume" just when some turn of it lies in a region, "visibility" only  *)
(* when it lies in none and sees one, "uncovered" when it neither lies in  *)
(* nor sees any; one that violates them sees nothing.  Points that were    *)
(* set on top of others are another matter: resize keeps the old verdicts. *)
(***************************************************************************)
Turns == [Axes -> -2..2]
TurnsOf(q) ==
  {Turned(q, k) : k \in {k \in Turns : \A i \in Axes \ Continuous : k[i] = 0}}
LiesIn(q, r) == \E p \in TurnsOf(q) : PointInSet(p, r)
SeesRegion(q, r) == \E p \in TurnsOf(q) : VisiblePoint(p, r) # {}

CoverageIsCurrent ==
  points # <<>> /\ settings = 1 /\ evaluated # {} =>
    \A i \in DOMAIN points :
      LET in == \E n \in evaluated : LiesIn(points[i], regions[n])
          seen == \E n \in evaluated : SeesRegion(points[i], regions[n])
      IN IF Free(points[i])
         THEN marks[i] = IF in THEN "volume"
                         ELSE IF seen THEN "visibility" ELSE "uncovered"
         ELSE marks[i] \in {"volume", "violates"} /\ (marks[i] = "volume" => in)

\* A clique of a configuration is what the ellipsoid needs: the seed is in it, whichever
\* vertices the greedy search prefers; its members see each other and the seed, lie in
\* none of the regions left out, and with the seed they are enough to span the space.
CliquesAreSound ==
  /\ clique.kept
  /\ \A v, w \in clique.members : v # w => <<v, w>> \in adjacency
  /\ \A v \in clique.members, q \in clique.seeds :
       <<VertexOf(q), v>> \in adjacency \/ Sees(q, CliqueVertices[v])
  /\ \A v \in clique.members, r \in clique.past : ~PointInSet(CliqueVertices[v], r)
  /\ Cardinality(clique.seeds) = 1 =>
       Cardinality({CliqueVertices[v] : v \in clique.members} \cup clique.seeds)
         >= Dim + 1
===============================================================================

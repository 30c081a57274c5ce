----------------------------- MODULE GcsPlanner -----------------------------
(***************************************************************************)
(* SingleModeGcsPlanner: one planner object serves every plan of a         *)
(* context, and answers each call from two graphs it keeps.  The graph of  *)
(* configurations has a vertex for every sample of an intersection of two  *)
(* IRIS regions, and an A* search over it picks the regions to go through; *)
(* the graph of convex sets has the regions themselves.  A call adds its   *)
(* start and its goal to both graphs and takes them out again when it      *)
(* succeeds.  With lazy edges the search itself adds the edges of a vertex *)
(* when it visits it.                                                      *)
(*                                                                         *)
(* A vertex is <<a, b, n>>, sample n of the intersection of regions a and  *)
(* b, or <<r, r, 1>>, the center of a region that meets no other.          *)
(* Distances are left out: the search may take the open vertices in any    *)
(* order, and a path may be improved through any vertex, except where the  *)
(* triangle inequality rules it out.  The numbers of the convex program    *)
(* are left out too.                                                       *)
(***************************************************************************)
EXTENDS Naturals, Sequences, FiniteSets

CONSTANTS
    Regions,    \* the indices of the IRIS regions
    Worlds,     \* the sets of samples <<a, b, n>>, a < b, a context may have
    Lazy,       \* the values of GcsPlannerOptions::lazy_gcc_edges considered
    Configs,    \* the configurations plans are asked for, see below
    MayMiss,    \* TRUE when a terminal may fail to connect (numerical issue)
    MaxLeft     \* bound: calls start with at most this many terminals left

ASSUME RegionsAssumption == Regions \subseteq Nat \ {0}
ASSUME WorldsAssumption ==
    \A world \in Worlds : \A v \in world :
        /\ v \in Regions \X Regions \X (Nat \ {0})
        /\ v[1] < v[2]
ASSUME OptionsAssumption ==
    /\ Lazy \subseteq BOOLEAN
    /\ MayMiss \in BOOLEAN
    /\ MaxLeft \in Nat

VARIABLES
    samples,    \* the samples of the intersections, fixed at construction
    lazy,       \* lazy_gcc_edges, fixed at construction
    edges,      \* graph_of_configs_: the edges among the permanent vertices
    left,       \* the terminals earlier calls have left in the two graphs
    call,       \* the call being served, with its A* search
    answer      \* how the last call ended
gcsVars == <<samples, lazy, edges, left, call, answer>>

-----------------------------------------------------------------------------
(* The permanent part of the two graphs.                                   *)

Touches(v) == {v[1], v[2]}
Meets(r) == {v \in samples : r \in Touches(v)}
Vertices == samples \cup {<<r, r, 1>> : r \in {s \in Regions : Meets(s) = {}}}
Share(v, w) == v # w /\ Touches(v) \cap Touches(w) # {}
Overlap(r, s) == r # s /\ \E v \in samples : Touches(v) = {r, s}
At(regions) == {v \in Vertices : Touches(v) \cap regions # {}}

AllEdges(vertices) == {e \in vertices \X vertices : Share(e[1], e[2])}

(* A configuration is told by the regions it is inside of and, when there  *)
(* is none, by the region it sees (0 for none): the answer of              *)
(* IrisInspector::EvalConfigAgainstIrisRegions.                            *)
ASSUME ConfigsAssumption ==
    Configs \subseteq [in : SUBSET Regions, sees : Regions \cup {0}]
Possible(q) == \A r, s \in q.in : r = s \/ Overlap(r, s)
Placed(q) == q.in # {} \/ q.sees # 0

(* TerminalNode.  "via" says that it hangs on a connecting set towards a   *)
(* region it sees; "joined" that it has edges in the graph of configs; an  *)
(* unconnected one has been added without edges among the convex sets.     *)
Terminal(q, type, connected) ==
    [type |-> type,
     at |-> IF q.in # {} THEN q.in ELSE {q.sees},
     via |-> q.in = {},
     joined |-> connected \/ q.in = {}]
Terminals == [type : {"start", "end"}, at : SUBSET Regions,
              via : BOOLEAN, joined : BOOLEAN]

-----------------------------------------------------------------------------
(* The search.  Q1, SeenFromQ1, SeenFromQ2 and Q2 are the nodes of the     *)
(* call's own terminals.  Terminals left by earlier calls are nodes too,   *)
(* but an end has no way out and a start no way in.                        *)

Q1 == <<0, 0, 1>>
SeenFromQ1 == <<0, 0, 2>>
SeenFromQ2 == <<0, 0, 3>>
Q2 == <<0, 0, 4>>
Nodes == Vertices \cup {Q1, SeenFromQ1, SeenFromQ2, Q2}

Idle == [open |-> {}, found |-> <<>>]
Present == left \cup (IF call = Idle THEN {} ELSE {call.start, call.end})
HasOutgoing(v, es) ==
    \/ \E e \in es : e[1] = v
    \/ \E t \in Present : t.type = "end" /\ t.joined /\ v \in At(t.at)
HasIncoming(v, es) ==
    \/ \E e \in es : e[2] = v
    \/ \E t \in Present : t.type = "start" /\ t.joined /\ v \in At(t.at)

(* Mutated: an edge in either direction is taken for the vertex's own.     *)
EdgesSeenEither(v, es) == HasOutgoing(v, es) \/ HasIncoming(v, es)

(* add_edges_func_: a vertex with an edge in each direction is taken for   *)
(* one whose edges have been added before.                                 *)
EdgesSeen(v, es) == HasOutgoing(v, es) /\ HasIncoming(v, es)

(* The edges of a vertex of an intersection go to all that share a region. *)
AddEdges(v) ==
    IF ~lazy \/ v \notin Vertices \/ EdgesSeen(v, edges) THEN edges
    ELSE edges \cup {<<v, w>> : w \in {x \in Vertices : Share(v, x)}}

EntryOf(t, seen) == IF t.via THEN {seen} ELSE At(t.at)
Successors(v, es) ==
    CASE v = Q1 -> EntryOf(call.start, SeenFromQ1)
      [] v = SeenFromQ1 -> At(call.start.at)
      [] v = SeenFromQ2 -> {Q2}
      [] v = Q2 -> {}
      [] OTHER ->
            {e[2] : e \in {x \in es : x[1] = v}}
            \cup (IF v \in At(call.end.at)
                  THEN {IF call.end.via THEN SeenFromQ2 ELSE Q2} ELSE {})

(* An open node is never improved through v when an earlier node of the    *)
(* path to v has an edge to it: that edge is at most as long.              *)
Shortcut(v, w, es) ==
    \E k \in 1..(Len(call.found[v]) - 1) :
        w \in Successors(call.found[v][k], es)

-----------------------------------------------------------------------------
(* From the path in the graph of configs to the convex sets.               *)

(* What is between the terminals, told by its place in the path.           *)
Crossed(path) ==
    SubSeq(path, IF call.start.via THEN 3 ELSE 2,
           Len(path) - (IF call.end.via THEN 2 ELSE 1))
RegionsOf(path) ==
    UNION {Touches(path[k]) : k \in {i \in DOMAIN path : path[i] \in Vertices}}

(* The edges of the graph of convex sets, a region standing for <<r>>.     *)
GcsSuccessors(node) ==
    CASE node = Q1 -> IF call.start.via THEN {SeenFromQ1}
                      ELSE {<<r>> : r \in call.start.at}
      [] node = SeenFromQ1 -> {<<r>> : r \in call.start.at}
      [] node = SeenFromQ2 -> {Q2}
      [] node = Q2 -> {}
      [] OTHER -> {<<s>> : s \in {t \in Regions : Overlap(node[1], t)}}
                  \cup (IF node[1] \in call.end.at
                        THEN {IF call.end.via THEN SeenFromQ2 ELSE Q2}
                        ELSE {})

Participating(path) ==
    {<<r>> : r \in RegionsOf(path)}
    \cup (IF call.start.via THEN {SeenFromQ1} ELSE {})
    \cup (IF call.end.via THEN {SeenFromQ2} ELSE {})

(* CalcHopsFromGoal: breadth first from the goal, against the edges.       *)
HopsFromGoal(path) ==
    LET important == Participating(path)
        hops[k \in 0..Cardinality(important)] ==
            IF k = 0 THEN [n \in {Q2} |-> 0]
            ELSE LET before == hops[k - 1]
                     reached == {n \in important \ DOMAIN before :
                                    GcsSuccessors(n) \cap DOMAIN before # {}}
                 IN  [n \in DOMAIN before \cup reached |->
                         IF n \in reached THEN k ELSE before[n]]
    IN  hops[Cardinality(important)]

(* ConvertToGcsVertices: from the start always to a neighbour with the     *)
(* fewest hops left.  An empty set of routes is the failing DRAKE_DEMAND.  *)
Nearest(node, hops) ==
    LET known == GcsSuccessors(node) \cap DOMAIN hops
    IN  {n \in known : \A m \in known : hops[n] <= hops[m]}
GcsRoutes(path) ==
    LET hops == HopsFromGoal(path)
        routes[k \in 0..Cardinality(DOMAIN hops)] ==
            IF k = 0 THEN {<<Q1>>}
            ELSE UNION {IF r[Len(r)] = Q2 THEN {r}
                        ELSE {Append(r, n) : n \in Nearest(r[Len(r)], hops)} :
                           r \in routes[k - 1]}
    IN  {r \in routes[Cardinality(DOMAIN hops)] : r[Len(r)] = Q2}
RegionsAlong(route) ==
    [k \in DOMAIN Crossed(route) |-> Crossed(route)[k][1]]

(* Mutated: the first region of the first intersection always comes first. *)
HullStartUnordered(path) ==
    LET v == path[1] IN
    IF Len(path) = 1 /\ v[1] = v[2] THEN <<v[1]>> ELSE <<v[1], v[2]>>

(* ConvertToCHullVertices: the chain of regions the path crosses.          *)
HullStart(path) ==
    LET v == path[1] IN
    IF Len(path) = 1 /\ v[1] = v[2] THEN <<v[1]>>
    ELSE IF Len(path) > 1 /\ v[1] \in Touches(path[2]) THEN <<v[2], v[1]>>
         ELSE <<v[1], v[2]>>
HullNext(chain, v) ==
    Append(chain, IF v[1] = chain[Len(chain)] THEN v[2] ELSE v[1])
HullChain(path) ==
    LET chain[k \in 1..Len(path)] ==
            IF k = 1 THEN HullStart(path) ELSE HullNext(chain[k - 1], path[k])
    IN  chain[Len(path)]

(* GraphOfConvexHulls keeps a hull for every two intersections that share  *)
(* a region, and looks one up for every three regions in a row.            *)
HasHulls(chain) ==
    \A k \in 2..(Len(chain) - 1) :
        Overlap(chain[k - 1], chain[k]) /\ Overlap(chain[k], chain[k + 1])
(* With one region a goal outside of it is put before its connecting set   *)
(* in the list of sets, which no edge allows.                              *)
HullsConnect(chain) == HasHulls(chain) /\ ~(Len(chain) = 1 /\ call.end.via)

-----------------------------------------------------------------------------
Fixed == UNCHANGED <<samples, lazy>>

(* How a call ended, with what a reader of the answer wants to know: the   *)
(* regions it goes through and whether an earlier call had left an end.    *)
NoAnswer == [outcome |-> "none"]
NoEndLeft == \A t \in left : t.type = "start"
Close(outcome, regions) ==
    /\ answer' = [outcome |-> outcome, start |-> call.start, end |-> call.end,
                  regions |-> regions, clean |-> NoEndLeft]
    /\ call' = Idle

GcsInit ==
    /\ samples \in Worlds
    /\ lazy \in Lazy
    /\ edges = IF lazy THEN {} ELSE AllEdges(Vertices)
    /\ left = {}
    /\ call = Idle
    /\ answer = NoAnswer

Ready == call = Idle /\ Cardinality(left) <= MaxLeft

(* The two terminals are added and the search is started.  CalcOptimalPath,*)
(* CalcOptimalPathCHulls and FastEstimatePathLength do the same until the  *)
(* search has found its path.                                              *)
Begin(q1, q2) ==
    /\ Ready
    /\ Placed(q1) /\ Placed(q2)
    /\ call' = [start |-> Terminal(q1, "start", TRUE),
                end |-> Terminal(q2, "end", TRUE),
                found |-> [n \in {Q1} |-> <<Q1>>],
                open |-> {Q1}]
    /\ answer' = NoAnswer
    /\ Fixed /\ UNCHANGED <<edges, left>>

(* A configuration is neither inside of a region nor sees one: nullopt,    *)
(* and the terminal of the other one stays in the graphs.                  *)
GiveUp(q1, q2) ==
    /\ Ready
    /\ ~(Placed(q1) /\ Placed(q2))
    /\ left' = left
            \cup (IF Placed(q1) THEN {Terminal(q1, "start", TRUE)} ELSE {})
            \cup (IF Placed(q2) THEN {Terminal(q2, "end", TRUE)} ELSE {})
    /\ answer' = NoAnswer
    /\ Fixed /\ UNCHANGED <<edges, call>>

(* A terminal fails to connect to the convex sets: an exception, after     *)
(* which what has been added stays.                                        *)
StartFails(q1) ==
    /\ Ready /\ MayMiss
    /\ Placed(q1)
    /\ left' = left \cup {Terminal(q1, "start", FALSE)}
    /\ answer' = NoAnswer
    /\ Fixed /\ UNCHANGED <<edges, call>>
EndFails(q1, q2) ==
    /\ Ready /\ MayMiss
    /\ Placed(q2)
    /\ left' = left \cup {Terminal(q2, "end", FALSE)}
            \cup (IF Placed(q1) THEN {Terminal(q1, "start", TRUE)} ELSE {})
    /\ answer' = NoAnswer
    /\ Fixed /\ UNCHANGED <<edges, call>>

(* One turn of the A* loop: the edges of v are added if need be, and every *)
(* successor is opened, or reached by a path through v where that may be   *)
(* shorter.                                                                *)
Visit(v) ==
    /\ v \in call.open \ {Q2}
    /\ LET es == AddEdges(v)
           next == Successors(v, es)
           fresh == next \ DOMAIN call.found
           improvable == {w \in next \cap call.open : ~Shortcut(v, w, es)}
       IN  /\ edges' = es
           /\ \E better \in SUBSET improvable :
                call' = [call EXCEPT
                    !.open = (@ \ {v}) \cup fresh,
                    !.found = [w \in DOMAIN @ \cup fresh |->
                                  IF w \in fresh \cup better
                                  THEN Append(call.found[v], w)
                                  ELSE call.found[w]]]
    /\ Fixed /\ UNCHANGED <<left, answer>>

(* The open set is empty before the goal is taken from it: CalcShortestPath*)
(* throws, and both terminals stay.                                        *)
NoPath ==
    /\ call # Idle /\ call.open = {}
    /\ left' = left \cup {call.start, call.end}
    /\ Close("no path", <<>>)
    /\ Fixed /\ UNCHANGED edges

(* RemoveTerminalNode, for both terminals: nothing of the call is left.    *)
Remove == left' = left

(* The goal is taken from the open set.                                    *)
Found == Q2 \in call.open

EstimateLength ==
    /\ Found
    /\ Close("length", <<>>)
    /\ Remove
    /\ Fixed /\ UNCHANGED edges

OptimalPath ==
    /\ Found
    /\ LET routes == GcsRoutes(call.found[Q2])
       IN  \/ \E route \in routes :
                Close("path", RegionsAlong(route))
           \/ routes = {} /\ Close("abort", <<>>)
    /\ Remove
    /\ Fixed /\ UNCHANGED edges

HullPath ==
    /\ Found
    /\ LET chain == HullChain(Crossed(call.found[Q2]))
       IN  IF HullsConnect(chain)
           THEN Close("hulls", chain) /\ Remove
           ELSE /\ Close("no hulls", chain)
                /\ left' = left \cup {call.start, call.end}
    /\ Fixed /\ UNCHANGED edges

GcsNext ==
    \/ \E q1, q2 \in {q \in Configs : Possible(q)} :
        Begin(q1, q2) \/ GiveUp(q1, q2) \/ StartFails(q1) \/ EndFails(q1, q2)
    \/ \E v \in Nodes : Visit(v)
    \/ NoPath
    \/ EstimateLength
    \/ OptimalPath
    \/ HullPath

GcsSpec == GcsInit /\ [][GcsNext]_gcsVars

-----------------------------------------------------------------------------
(* The type of the state; the graph has edges only between vertices that   *)
(* share a region.                                                         *)
GcsTypeOK ==
    /\ samples \in Worlds
    /\ lazy \in Lazy
    /\ edges \subseteq AllEdges(Vertices)
    /\ left \subseteq Terminals
    /\ call # Idle =>
          /\ call.start \in Terminals /\ call.end \in Terminals
          /\ call.open \subseteq DOMAIN call.found
          /\ DOMAIN call.found \subseteq Nodes
    /\ answer # NoAnswer =>
          answer.start \in Terminals /\ answer.end \in Terminals

(* Lazy or not, a vertex has either all of its edges or none of them,      *)
(* whatever calls have come and gone: add_edges_func_ never leaves a       *)
(* vertex half done, which the next search would take for finished.        *)
AllEdgesOrNone ==
    \A v, w \in Vertices :
        Share(v, w) /\ <<v, w>> \notin edges => \A e \in edges : e[1] # v

(* Two terminals are connected when no set of samples that is closed under *)
(* sharing a region holds the samples of the start and none of the goal.   *)
Closed(set) == \A v \in set : \A w \in Vertices : Share(v, w) => w \in set
Connected(start, end) ==
    \A set \in SUBSET Vertices :
        At(start.at) \subseteq set /\ Closed(set) => set \cap At(end.at) # {}

(* A search that finds no path between two terminals is right that the     *)
(* regions do not connect them, as long as all edges are in the graph from *)
(* the start or no earlier call has left a goal in it.                     *)
NoPathIsDisconnected ==
    answer.outcome = "no path" /\ (~lazy \/ answer.clean) =>
        ~Connected(answer.start, answer.end)

(* What the solver is given leads from the start to the goal.  The hops of *)
(* ConvertToGcsVertices never run out before the goal (its DRAKE_DEMAND);  *)
(* the chain of ConvertToCHullVertices goes from region to overlapping     *)
(* region, and its first and last two regions are where the terminals are. *)
EndsAt(regions, terminal, k, l) ==
    {regions[k], regions[l]} \cap terminal.at # {}
SolverGetsARoute ==
    /\ answer.outcome # "abort"
    /\ answer.outcome \in {"path", "hulls"} =>
          LET c == answer.regions
              n == Len(c)
              far == answer.outcome = "hulls" /\ n > 1
          IN  /\ n > 0
              /\ \A k \in 1..(n - 1) : Overlap(c[k], c[k + 1])
              /\ EndsAt(c, answer.start, 1, IF far THEN 2 ELSE 1)
              /\ EndsAt(c, answer.end, n, IF far THEN n - 1 ELSE n)
    /\ answer.outcome = "no hulls" =>
          Len(answer.regions) = 1 /\ answer.end.via
=============================================================================

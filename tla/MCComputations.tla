---------------------------- MODULE MCComputations ----------------------------
(***************************************************************************)
(* Nine components that share no state, each on an instance of its own:    *)
(* a behaviour belongs to one of them, and the variables of the others     *)
(* keep a value at which nothing is under way.                             *)
(***************************************************************************)
EXTENDS Toppra, TrajectoryUpdate, VisualObjects, DracoVisualizer, IkPlanner,
        ConstraintChecks, RobotModel, RegionBuilding, GcsPlanner

VARIABLE component

-----------------------------------------------------------------------------
(* Toppra: five shapes of the path, one of them not steady, three sets of  *)
(* limits.                                                                  *)
MCShapes == {[d |-> 0, dd |-> 0], [d |-> 1, dd |-> 0], [d |-> 1, dd |-> 3],
             [d |-> -1, dd |-> 1], [d |-> 0, dd |-> 1]}
NoFrame == [set |-> FALSE, lo |-> 0, up |-> 0]
Limits(v, a, torque, g, speed, frame) ==
  [velocity |-> v, acceleration |-> a, torque |-> torque, gravity |-> g,
   speed |-> speed, frame |-> frame]
MCLimits == {Limits(2, 2, 2, 0, 0, NoFrame), Limits(2, 1, 2, 1, 1, NoFrame),
             Limits(2, 2, 3, 1, 0, [set |-> TRUE, lo |-> -2, up |-> 1])}

(* TrajectoryUpdate: a robot at rest and one that comes to rest. *)
MCCurrents == {[pos |-> <<1, 1>>, vel |-> <<0, 0>>],
               [pos |-> <<1, 2, 3, 3>>, vel |-> <<0, 1, 1, 0>>]}
MCGoals == {<<1>>, <<4>>, <<2, 3>>, <<3, 1>>, <<1, 3, 4>>, <<3, 4>>}

(* VisualObjects: the name of one model goes on from that of the other. *)
MCMatches == [m \in {"a", "ab"} |-> IF m = "a" THEN {"a", "ab"} ELSE {"ab"}]
MCFrames == {[name |-> "a1", model |-> "a", static |-> FALSE],
             [name |-> "b1", model |-> "ab", static |-> TRUE]}

(* DracoVisualizer: every kind, with options of its own or without. *)
Item(kind, options) == [kind |-> kind, options |-> options]
MCItems == {Item("configuration", "x"), Item("trajectory", "y"),
            Item("configuration", "standard"), Item("failed", "standard"),
            Item("long", "x")}

(* IkPlanner: where the frame is, the order of the seeds is another one. *)
MCReach == [near |-> [q0 |-> 2, q1 |-> 1, q2 |-> 2],
            far |-> [q0 |-> 0, q1 |-> 3, q2 |-> 2]]
MCApart == [q0 |-> 0, q1 |-> 2, q2 |-> 1]
MCCaches == {<<>>, <<"q2", "q1">>}
Plain == [avoid |-> FALSE, resolve |-> FALSE, selfResolve |-> FALSE,
          ignoreArms |-> FALSE, seedCost |-> FALSE, numSeeds |-> 1,
          twoSteps |-> FALSE, numRandom |-> 1, insert |-> TRUE]
MCIkOptions ==
  {Plain, [Plain EXCEPT !.avoid = TRUE],
   [Plain EXCEPT !.resolve = TRUE, !.seedCost = TRUE, !.numSeeds = -1,
                 !.numRandom = 0, !.insert = FALSE],
   [Plain EXCEPT !.selfResolve = TRUE, !.ignoreArms = TRUE, !.numSeeds = 2,
                 !.twoSteps = TRUE]}

(* ConstraintChecks: two arms, one of them with a tool, on a base. *)
MCAdapter == [position |-> <<[name |-> "box", lower |-> 0, upper |-> 6]>>,
              angle |-> <<[name |-> "tilt", lower |-> 0, upper |-> 8]>>,
              joint |-> <<[name |-> "limits", lower |-> 0, upper |-> 9]>>]
MCOutput == [q0 |-> [box |-> 3, tilt |-> 4, limits |-> 4],
             q1 |-> [box |-> 7, tilt |-> 4, limits |-> 4],
             q2 |-> [box |-> 3, tilt |-> 4, limits |-> 12],
             q3 |-> [box |-> 1, tilt |-> 8, limits |-> 2]]
Contact(a, b, gap) == [robot |-> a, other |-> b, gap |-> gap]
MCContacts ==
  [q0 |-> <<Contact("l", "table", 5), Contact("l", "r", 8)>>,
   q1 |-> <<Contact("l", "table", 2), Contact("base", "l", -1)>>,
   q2 |-> <<Contact("l", "r", 0), Contact("l", "table", -1)>>,
   q3 |-> <<Contact("l", "r", 0), Contact("l", "tool", -1),
            Contact("r", "table", -1)>>]
MCArm == [l |-> 1, tool |-> 1, r |-> 2, table |-> 0, base |-> 0]
MCGroups == [left |-> {"l", "tool"}, r |-> {"r"}, base |-> {"base"},
             l |-> {"l"}, tool |-> {"tool"}]
MCCheckerAdapter ==
  [groups |-> <<"base">>, pairs |-> <<[first |-> "l", second |-> "tool"]>>,
   paddings |-> <<[first |-> "left", second |-> "r", distance |-> -1],
                  [first |-> "l", second |-> "r", distance |-> 1]>>]
Draws == {<<"q0", "q2", "q1">>, <<"q3", "q2", "q0", "q1">>,
          <<"q2", "q0", "q0", "q0">>, <<"q0", "q1">>}
MCCalls ==
  [op : {"samples"}, confs : Draws, desired : {1, 2}, truncate : BOOLEAN,
   projection : BOOLEAN, invalid : BOOLEAN, threads : {1, 2}]
  \cup [op : {"vector"}, confs : Draws, parallel : BOOLEAN, collect : BOOLEAN,
        threads : {2}]
  \cup [op : {"penalties"}, confs : Draws, threads : {2}]
  \cup [op : {"edge"}, confs : Draws \cup {<<"q0", "q2">>, <<"q2", "q1">>},
        threads : {1}]
  \cup [op : {"classify"}, confs : {<<"q0">>, <<"q1">>, <<"q2">>, <<"q3">>},
        threads : {1}]

(* RobotModel: a table with an arm and a gripper of which one finger       *)
(* mimics the other, and two arms on the floor, with their joints in every *)
(* order; and two plants that are refused: a model before its parent, and  *)
(* a position that mimics two.                                             *)
Weld(p, c) == [parent |-> p, child |-> c, weld |-> TRUE, position |-> 0]
Joint(p, c, k) == [parent |-> p, child |-> c, weld |-> FALSE, position |-> k]
Mimics(p, q, ratio, shift) ==
  [mimic |-> p, of |-> q, ratio |-> ratio, offset |-> shift]
TableArm ==
  [models |-> <<"world", "default", "table", "arm", "gripper">>,
   modelOf |-> <<1, 3, 4, 4, 5, 5>>, collision |-> {2, 6},
   couplers |-> <<Mimics(3, 2, 2, 1)>>,
   joints |-> <<Weld(1, 2), Weld(2, 3), Joint(3, 4, 1), Joint(4, 5, 2),
                Joint(5, 6, 3)>>]
TwoArms ==
  [models |-> <<"world", "default", "left", "right">>,
   modelOf |-> <<1, 3, 3, 4, 4, 4>>, collision |-> {6},
   couplers |-> <<Mimics(2, 1, -1, 0)>>,
   joints |-> <<Joint(1, 2, 1), Joint(2, 3, 2), Weld(1, 4), Joint(4, 5, 3),
                Weld(5, 6)>>]
Arranged(js) ==
  {[i \in DOMAIN js |-> js[f[i]]] :
     f \in {f \in [DOMAIN js -> DOMAIN js] :
              \A i, j \in DOMAIN js : f[i] = f[j] => i = j}}
MCPlants ==
  (UNION {{[p EXCEPT !.joints = js] : js \in Arranged(p.joints)} :
            p \in {TableArm, TwoArms}})
  \cup {[TableArm EXCEPT !.modelOf = <<1, 3, 5, 5, 4, 4>>],
        [TwoArms EXCEPT !.couplers = @ \o <<Mimics(2, 3, 1, 0)>>]}

(* RegionBuilding: a joint that turns and one that does not. *)
MCBlockedSets == {{}, {<<2, 0>>, <<2, 1>>}, {<<1, 1>>}}
MCSeeds == {<<0, 0>>, <<1, 1>>, <<6, 1>>}
MCPointLists == {<< <<1, 0>>, <<3, 1>>, <<-5, 0>> >>, << <<6, 1>> >>}
MCCliqueVertices == << <<0, 0>>, <<1, 0>>, <<0, 1>>, <<3, 0>> >>
MCRoadmaps ==
  {{<<1, 2>>, <<2, 1>>, <<1, 3>>, <<3, 1>>, <<1, 4>>, <<4, 1>>}}
Box(a, b, c, d) == [lb |-> <<a, c>>, ub |-> <<b, d>>]
MCGrown == {<<Box(0, 1, 0, 0)>>, <<Box(3, 5, 0, 1)>>,
            <<Box(0, 0, 1, 1), Box(-1, 1, 0, 0)>>}

(* GcsPlanner: three regions in a row, one of their intersections sampled  *)
(* twice, a region beside them; four in a row; four around a square; none. *)
MCWorlds == {{<<1, 2, 1>>, <<1, 2, 2>>, <<2, 3, 1>>},
             {<<1, 2, 1>>, <<2, 3, 1>>, <<3, 4, 1>>},
             {<<1, 2, 1>>, <<2, 3, 1>>, <<3, 4, 1>>, <<1, 4, 1>>},
             {}}
In(rs) == [in |-> rs, sees |-> 0]
InSight(r) == [in |-> {}, sees |-> r]
MCConfigs == {In({1}), In({1, 2}), InSight(2), InSight(4), InSight(0)}

-----------------------------------------------------------------------------
ToppraOff ==
  /\ problem = <<>> /\ pc = "off" /\ knot = 0 /\ ctrl = <<>> /\ scale = 0
  /\ speeds = <<>> /\ result = "none"

UpdateOff ==
  /\ request = <<>> /\ step = "off" /\ waypoints = <<>> /\ margin = 0
  /\ switch = 0 /\ atRest = TRUE /\ spline = NoSpline /\ relaxed = 0
  /\ updated = NotUpdated

ViewOff ==
  /\ up = FALSE /\ web = FALSE /\ turn = "off" /\ before = 0 /\ shown = 0
  /\ recorded = <<>> /\ hidden = <<>> /\ taskQueue = <<>> /\ objectAt = <<>>
  /\ frameAt = <<>> /\ modelAt = <<>> /\ asking = <<>> /\ requests = 0
  /\ muddled = {}

WindowOff ==
  /\ incoming = <<>> /\ counter = 0 /\ added = <<>> /\ listed = {}
  /\ order = <<>> /\ buttons = {} /\ clicked = {} /\ scope = NoItem
  /\ inEffect = Standard /\ clickedLabel = NoItem /\ onShow = NoItem
  /\ drawnUnder = Standard /\ window = "off" /\ hasDefault = FALSE
  /\ stopped = TRUE

IkOff ==
  /\ ikOptions = Plain /\ ikCache = <<>> /\ known = FALSE /\ cachedPoses = <<>>
  /\ offset = "near" /\ ikStep = "off" /\ seeds = <<>> /\ chosen = <<>>
  /\ program = NoProgram /\ drawn = 0 /\ randoms = 0 /\ ikResult = NoResult
  /\ tried = <<>> /\ verdict = NoResult /\ ikCalls = 0

ChecksOff ==
  /\ check = <<>> /\ share = <<>> /\ phase = <<>> /\ growing = 0
  /\ pending = <<>> /\ kept = <<>> /\ fate = <<>> /\ torn = FALSE
  /\ allValid = TRUE /\ penalties = <<>> /\ failed = <<>> /\ picked = 0
  /\ returned = FALSE

ModelOff ==
  /\ plant = <<>> /\ building = "off" /\ nextIndex = 0 /\ env = {}
  /\ chains = <<>> /\ groups = <<>> /\ masks = <<>> /\ minimal = <<>>
  /\ marked = {} /\ conf = <<>> /\ lastCall = NoCall /\ modelCalls = 0

RegionOff ==
  /\ blocked = {} /\ adjacency = {} /\ excluding = FALSE /\ regions = <<>>
  /\ meetings = {} /\ points = <<>> /\ marks = <<>> /\ evaluated = {}
  /\ settings = 0 /\ clique = NoClique /\ builds = 0

GcsOff ==
  /\ samples = {} /\ lazy = FALSE /\ edges = {} /\ left = {} /\ call = Idle
  /\ answer = NoAnswer

Components == {"toppra", "update", "view", "window", "ik", "checks", "model",
               "region", "gcs"}

ComputationsInit ==
  /\ component \in Components
  /\ IF component = "toppra" THEN ToppraInit ELSE ToppraOff
  /\ IF component = "update" THEN UpdateInit ELSE UpdateOff
  /\ IF component = "view" THEN ViewInit ELSE ViewOff
  /\ IF component = "window" THEN DisplayInit ELSE WindowOff
  /\ IF component = "ik" THEN IkInit ELSE IkOff
  /\ IF component = "checks" THEN ChecksInit ELSE ChecksOff
  /\ IF component = "model" THEN ModelInit ELSE ModelOff
  /\ IF component = "region" THEN RegionInit ELSE RegionOff
  /\ IF component = "gcs" THEN GcsInit ELSE GcsOff

ComputationsNext ==
  \/ /\ component = "toppra" /\ ToppraNext
     /\ UNCHANGED <<component, updateVars, viewVars, windowVars, ikVars,
                    checkVars, modelVars, regionVars, gcsVars>>
  \/ /\ component = "update" /\ UpdateNext
     /\ UNCHANGED <<component, toppraVars, viewVars, windowVars, ikVars,
                    checkVars, modelVars, regionVars, gcsVars>>
  \/ /\ component = "view" /\ ViewNext
     /\ UNCHANGED <<component, toppraVars, updateVars, windowVars, ikVars,
                    checkVars, modelVars, regionVars, gcsVars>>
  \/ /\ component = "window" /\ DisplayNext
     /\ UNCHANGED <<component, toppraVars, updateVars, viewVars, ikVars,
                    checkVars, modelVars, regionVars, gcsVars>>
  \/ /\ component = "ik" /\ IkNext
     /\ UNCHANGED <<component, toppraVars, updateVars, viewVars, windowVars,
                    checkVars, modelVars, regionVars, gcsVars>>
  \/ /\ component = "checks" /\ ChecksNext
     /\ UNCHANGED <<component, toppraVars, updateVars, viewVars, windowVars,
                    ikVars, modelVars, regionVars, gcsVars>>
  \/ /\ component = "model" /\ ModelNext
     /\ UNCHANGED <<component, toppraVars, updateVars, viewVars, windowVars,
                    ikVars, checkVars, regionVars, gcsVars>>
  \/ /\ component = "region" /\ RegionNext
     /\ UNCHANGED <<component, toppraVars, updateVars, viewVars, windowVars,
                    ikVars, checkVars, modelVars, gcsVars>>
  \/ /\ component = "gcs" /\ GcsNext
     /\ UNCHANGED <<component, toppraVars, updateVars, viewVars, windowVars,
                    ikVars, checkVars, modelVars, regionVars>>

ComputationsSpec ==
  ComputationsInit
    /\ [][ComputationsNext]_<<component, toppraVars, updateVars, viewVars,
                             windowVars, ikVars, checkVars, modelVars,
                             regionVars, gcsVars>>
===============================================================================

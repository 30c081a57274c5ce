------------------------------- MODULE Toppra -------------------------------
(***************************************************************************)
(* The time parameterisation of a path: motion/splining/drake/toppra.cc as *)
(* TimeOptimalSpliner::DoRunToppra sets it up.  x is the squared speed     *)
(* along the path at a grid point, u the acceleration between two of them, *)
(* so that x' = x + 2 * delta * u.  A backward pass computes at each grid  *)
(* point the interval of speeds from which the end can still be reached,   *)
(* and a forward pass takes the greatest acceleration that stays inside.   *)
(*                                                                         *)
(* Speeds are whole numbers and 2 * delta = 1.  Every coefficient of u is  *)
(* -1, 0 or 1 (UnitAssumption, UnitRows), so that a whole speed that any   *)
(* step leaves is left by a whole step; the coefficients of x, the second  *)
(* derivatives, are any whole numbers, of either sign.  Limits and speeds  *)
(* scale together, and in a fine enough unit the ends of the intervals are *)
(* whole.  The path has one joint and one limited frame, which moves as    *)
(* the joint does, and unit inertia; a mimicking joint has no torque row   *)
(* (toppra.cc:233) and no place here.                                      *)
(***************************************************************************)
EXTENDS Integers, FiniteSets
Extrema == INSTANCE FiniteSetsExt

CONSTANTS
  Segments,     \* number of intervals between grid points
  XMax,         \* the bound on x that keeps the backward pass bounded
  Shapes,       \* derivatives of the path at a grid point: records [d, dd]
  LimitSets,    \* the limits a spliner may be built with
  Eps,          \* tolerance of the controllability test
  Scales        \* number of forward passes tried

ASSUME UnitAssumption ==
  \A s \in Shapes : s.d \in -1 .. 1 /\ s.dd \in Int

\* Without a speed limit the speed is 0.
ASSUME LimitsAssumption ==
  /\ Segments \in Nat \ {0} /\ {XMax, Eps} \subseteq Nat
  /\ \A l \in LimitSets :
       /\ {l.velocity, l.acceleration, l.torque, l.speed} \subseteq Nat
       /\ {l.gravity, l.frame.lo, l.frame.up} \subseteq Int

VARIABLES
  problem,      \* path, limits, discretisation and the speeds at both ends
  pc,           \* "backward", "forward", "done"
  knot,         \* the grid point at hand
  ctrl,         \* the controllable sets computed so far
  scale,        \* number of forward passes that failed
  speeds,       \* the speeds chosen so far
  result        \* "none" while running; "failed" or "timed"

toppraVars == <<problem, pc, knot, ctrl, scale, speeds, result>>

Knots == 0 .. Segments
Speeds == 0 .. XMax

(***************************************************************************)
(* The limits as bounds on x and rows lo <= x * X + u * U <= up.           *)
(***************************************************************************)
\* The greatest squared speed that keeps the joint within its velocity limit.
VelocityBound(k) ==
  IF problem.path[k].d = 0
    THEN XMax
    ELSE Extrema!Min({XMax, problem.limits.velocity * problem.limits.velocity})

\* ... and the frame within its translational speed limit, where one is set.
SpeedBound(k) ==
  IF problem.limits.speed = 0 \/ problem.path[k].d = 0
    THEN XMax
    ELSE Extrema!Min({XMax, problem.limits.speed * problem.limits.speed})

Row(x, u, lo, up) == [x |-> x, u |-> u, lo |-> lo, up |-> up]

AccelerationRow(k) ==
  Row(problem.path[k].dd, problem.path[k].d,
      -problem.limits.acceleration, problem.limits.acceleration)

\* Gravity shifts both torque limits.
TorqueRow(k) ==
  Row(problem.path[k].dd, problem.path[k].d,
      -problem.limits.torque + problem.limits.gravity,
      problem.limits.torque + problem.limits.gravity)

FrameRow(k) ==
  Row(problem.path[k].dd, problem.path[k].d,
      problem.limits.frame.lo, problem.limits.frame.up)

\* The row of the next grid point, stated in the x and u of this one.  The
\* last grid point that has rows repeats its own.
Interpolated(row, next, k) ==
  IF k = Segments - 1 THEN row ELSE [next EXCEPT !.u = @ + next.x]

TorqueRowOnly(k) == {TorqueRow(k)}
AccelerationRows(k) ==
  {AccelerationRow(k)}
    \cup IF problem.interpolate
           THEN {Interpolated(AccelerationRow(k), AccelerationRow(k + 1), k)}
           ELSE {}
FrameRows(k) ==
  IF problem.limits.frame.set
    THEN {FrameRow(k), Interpolated(FrameRow(k), FrameRow(k + 1), k)} ELSE {}

Rows(k) == AccelerationRows(k) \cup TorqueRowOnly(k) \cup FrameRows(k)

Holds(row, x, u) ==
  /\ row.lo <= row.x * x + row.u * u
  /\ row.x * x + row.u * u <= row.up

\* Everything the problem asks of a step from x to y at a grid point.
Allowed(k, x, y) ==
  /\ x <= VelocityBound(k)
  /\ x <= SpeedBound(k)
  /\ \A row \in Rows(k) : Holds(row, x, y - x)

-----------------------------------------------------------------------------
(***************************************************************************)
(* The two passes, one grid point a step.                                  *)
(***************************************************************************)
Inside(x, set) == set.lo <= x /\ x <= set.up

\* The interpolated rows have units, too.
UnitRows(p) ==
  p.interpolate \/ p.limits.frame.set =>
    \A k \in DOMAIN p.path : p.path[k].d + p.path[k].dd \in -1 .. 1

Problems ==
  {p \in [path : [0 .. Segments - 1 -> Shapes], limits : LimitSets,
          interpolate : BOOLEAN, start : Speeds, end : Speeds] : UnitRows(p)}

ToppraInit ==
  /\ problem \in Problems
  /\ pc = "backward" /\ knot = Segments - 1
  /\ ctrl = [k \in Knots |-> [lo |-> problem.end, up |-> problem.end]]
  /\ scale = 0
  /\ speeds = [k \in Knots |-> problem.start]
  /\ result = "none"

\* Mutated: the next set is not asked for.
ControllableAlone(k) == {x \in Speeds : \E y \in Speeds : Allowed(k, x, y)}

\* The speeds at grid point k from which one step reaches the next set.
Controllable(k) ==
  {x \in Speeds : \E y \in Speeds : Inside(y, ctrl[k + 1]) /\ Allowed(k, x, y)}

\* The minimum and the maximum of x are two linear programs.
Backward ==
  /\ pc = "backward" /\ knot >= 0
  /\ IF Controllable(knot) = {}
       THEN pc' = "done" /\ result' = "failed" /\ UNCHANGED <<knot, ctrl>>
       ELSE /\ ctrl' = [ctrl EXCEPT ![knot] =
                          [lo |-> Extrema!Min(Controllable(knot)),
                           up |-> Extrema!Max(Controllable(knot))]]
            /\ knot' = knot - 1
            /\ UNCHANGED <<pc, result>>
  /\ UNCHANGED <<problem, scale, speeds>>

\* All sets are known: is the start in the first one, give or take Eps?
TestStart ==
  /\ pc = "backward" /\ knot < 0
  /\ IF Inside(problem.start, [lo |-> ctrl[0].lo - Eps, up |-> ctrl[0].up + Eps])
       THEN pc' = "forward" /\ knot' = 0 /\ UNCHANGED result
       ELSE pc' = "done" /\ result' = "failed" /\ UNCHANGED knot
  /\ UNCHANGED <<problem, ctrl, scale, speeds>>

\* The accelerations that reach the next set and keep to the rows; a row
\* without u bounds nothing here.
Accelerations(k, x) ==
  {u \in -(XMax + Eps) .. (XMax + Eps) :
     /\ Inside(x + u, ctrl[k + 1])
     /\ \A row \in Rows(k) : row.u = 0 \/ Holds(row, x, u)}

\* The first pass takes the greatest one.  A later pass takes a point that
\* much further from it: which whole number that is stays open.
Greedy(s, us) == IF s = 0 THEN {Extrema!Max(us)} ELSE us

Forward ==
  /\ pc = "forward" /\ knot < Segments
  /\ LET us == Accelerations(knot, speeds[knot]) IN
       /\ us # {}
       /\ \E u \in Greedy(scale, us) :
            speeds' = [speeds EXCEPT ![knot + 1] = speeds[knot] + u]
  /\ knot' = knot + 1
  /\ UNCHANGED <<problem, pc, ctrl, scale, result>>

\* No acceleration is left: the whole pass is tried again, Scales times.
Rescale ==
  /\ pc = "forward" /\ knot < Segments
  /\ Accelerations(knot, speeds[knot]) = {}
  /\ scale' = scale + 1
  /\ IF scale' < Scales
       THEN knot' = 0 /\ UNCHANGED <<pc, result>>
       ELSE pc' = "done" /\ result' = "failed" /\ UNCHANGED knot
  /\ UNCHANGED <<problem, ctrl, speeds>>

Timed ==
  /\ pc = "forward" /\ knot = Segments
  /\ pc' = "done" /\ result' = "timed"
  /\ UNCHANGED <<problem, knot, ctrl, scale, speeds>>

ToppraNext == Backward \/ TestStart \/ Forward \/ Rescale \/ Timed

ToppraSpec == ToppraInit /\ [][ToppraNext]_toppraVars

-----------------------------------------------------------------------------
(***************************************************************************)
(* Reference: the speed profiles the limits allow.                         *)
(***************************************************************************)
Profiles ==
  {p \in [Knots -> Speeds] :
     /\ p[0] = problem.start /\ p[Segments] = problem.end
     /\ \A k \in 0 .. Segments - 1 : Allowed(k, p[k], p[k + 1])}

\* No row takes away from the next speed what it gives to this one: a second
\* derivative of the sign of the first is at most as great.
Steady == \A k \in 0 .. Segments - 1 : \A row \in Rows(k) :
            row.u * row.x <= row.u * row.u

SameUntil(p, k) == \A j \in 0 .. k : p[j] = speeds[j]

\* Two greedy passes of one-step programs solve the whole problem: whenever
\* some profile keeps to the limits between the two speeds the code returns
\* one that does, a profile that leaves it is slower where it does (toppra.cc:
\* 496, 605), and over a steady path none is faster anywhere.  When there is
\* none it returns a path only if the start was let through by the tolerance
\* (toppra.cc:586), and then one that still keeps to every row that bounds an
\* acceleration.
TimesOptimally ==
  pc = "done" =>
    IF Profiles # {}
      THEN /\ result = "timed" /\ speeds \in Profiles
           /\ \A p \in Profiles : \A k \in 0 .. Segments - 1 :
                SameUntil(p, k) => p[k + 1] <= speeds[k + 1]
           /\ Steady => \A p \in Profiles : \A k \in Knots : p[k] <= speeds[k]
      ELSE result = "timed" =>
             /\ ~Inside(problem.start, ctrl[0])
             /\ speeds[Segments] = problem.end
             /\ \A k \in 1 .. Segments - 1 :
                  Allowed(k, speeds[k], speeds[k + 1])
=============================================================================
